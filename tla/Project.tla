------------------------------- MODULE Project -------------------------------
(***************************************************************************)
(* One project: its environment, pyproject.toml, fpm.lock, the graph and   *)
(* the journal of the environment, under `fpm install`, `remove`, `lock`   *)
(* and `sync` (internal/cli), a person who edits pyproject.toml, and pip.  *)
(*                                                                         *)
(*   site      site-packages (module SitePackages)                         *)
(*   declared  the requirement pyproject.toml has for a name               *)
(*   lockfile  the version fpm.lock has for a name                         *)
(*   graph     the names in the environment's graph file                   *)
(*   journal   the packages of every recorded installation; the other      *)
(*             entries have no effect on anything                        *)
(*   cmd       the command that is running                                 *)
(*                                                                         *)
(* One command of fpm runs at a time (FpmEnv has the interleavings of      *)
(* several), and pip whenever it likes, between two steps of a command     *)
(* too.  Here a package has versions, and a name may be the beginning of   *)
(* another one.                                                            *)
(***************************************************************************)
EXTENDS SitePackages

CONSTANTS
  Deps,        \* the dependencies of every package
  Available,   \* the wheels of the index
  Requests,    \* the requirements installs are asked for
  PipWheels,   \* what pip is asked for
  AnyVersion,  \* a requirement without a version
  Dotted,      \* the names that may be written with a "."
  NoFile,      \* a file that does not exist
  MaxOps       \* bound: commands other than sync, and deaths of a command

ASSUME ProjectAssumption ==
  /\ Deps \in [Name -> SUBSET Name]
  /\ Dotted \subseteq Name
  /\ AnyVersion \notin Version \cup {NoVersion}
  /\ Available \subseteq Dist /\ PipWheels \subseteq Dist
  /\ Requests \subseteq [Name -> Version \cup {AnyVersion, NoVersion}]
  /\ MaxOps \in Nat

VARIABLES site, declared, lockfile, graph, journal, cmd, ops

projectVars == <<site, declared, lockfile, graph, journal, cmd, ops>>

(* NoVersion: the name is not there.                                       *)
Requirement == Version \cup {AnyVersion, NoVersion}
Pins == [Name -> Version \cup {NoVersion}]
NoPins == [n \in Name |-> NoVersion]

Named(f) == {n \in Name : f[n] # NoVersion}

(* The dist-info directories that pins ask for.                            *)
Pinned(pins) == {d \in Dist : pins[d.name] = d.ver}

PinsOf(D) == [n \in Name |-> IF n \in NamesOf(D)
                             THEN (CHOOSE d \in D : d.name = n).ver
                             ELSE NoVersion]

(* Two fields record what happened to the command since it began: pip left *)
(* site-packages alone, and nothing it wrote or linked was left out.       *)
Command == [op: {"none", "staged", "swapped", "sync", "stash", "switch",
                 "revert"},
            args: [Name -> Requirement], todo: SUBSET Dist, gone: SUBSET Dist,
            alone: BOOLEAN, whole: BOOLEAN]

NoCommand == [op |-> "none", args |-> NoPins, todo |-> {}, gone |-> {},
              alone |-> TRUE, whole |-> TRUE]

ProjectTypeOK ==
  /\ site \in Site
  /\ declared \in [Name -> Requirement]
  /\ lockfile \in Pins \cup {NoFile}
  /\ graph \in (SUBSET Name) \cup {NoFile}
  /\ journal \in SUBSET (SUBSET Dist)
  /\ cmd \in Command
  /\ ops \in 0..MaxOps

ProjectInit ==
  /\ site = EmptySite
  /\ declared = NoPins
  /\ lockfile = NoFile
  /\ graph = NoFile
  /\ journal = {}
  /\ cmd = NoCommand
  /\ ops = 0

Idle == cmd = NoCommand

(* One more of the bounded steps.                                          *)
Count == ops < MaxOps /\ ops' = ops + 1

GraphNames == IF graph = NoFile THEN {} ELSE graph

(* Lockfile.Write: a temporary file that is renamed.                       *)
WriteLock(pins) == lockfile' = pins

(* What a file holds after os.WriteFile when nobody looks at the error:    *)
(* the new content, the old one, or nothing that can be read, because the  *)
(* file is truncated before it is written.                                 *)
Writes(new, old, torn) == {new, old, torn}

(* journal.Record.                                                         *)
Recorded(pkgs) == journal \cup {pkgs}

(* RemoveDependency: a requirement's "." counts as "_", that of the name   *)
(* it is asked for does not.                                               *)
Undeclared(n, dotted) ==
  IF dotted THEN declared ELSE [declared EXCEPT ![n] = NoVersion]

Closed(N) == \A n \in N : Deps[n] \subseteq N

DepClosure(N) == {n \in Name : \A C \in SUBSET Name :
                                 N \subseteq C /\ Closed(C) => n \in C}

(* What the resolver may pick: the index may have changed since last time. *)
Resolutions(req) ==
  {pins \in Pins :
     /\ Pinned(pins) \subseteq Available
     /\ Named(pins) = DepClosure(Named(req))
     /\ \A n \in Named(req) : req[n] \in {AnyVersion, pins[n]}}

---------------------------------------------------------------------------
(* fpm install                                                             *)

(* CrossManagerChecker.Check: another manager's package of that version is *)
(* kept, of another version if the policy or the person says so.           *)
Skippable(pins) ==
  {S \in SUBSET Named(pins) :
     /\ \A n \in S : Foreign(site) \cap Of(site, n) # {}
     /\ \A n \in Named(pins) :
          [name |-> n, ver |-> pins[n]] \in Foreign(site) => n \in S}

BeginInstall(req) ==
  /\ Idle /\ Count
  /\ Named(req) # {}
  /\ \E pins \in Resolutions(req) : \E skipped \in Skippable(pins) :
       LET staged == {d \in Pinned(pins) : d.name \notin skipped}
       IN  /\ staged # {}
           /\ cmd' = [NoCommand EXCEPT !.op = "staged", !.args = req, !.todo = staged]
  /\ UNCHANGED <<site, declared, lockfile, graph, journal>>

(* The staged wheels replace what is there, then INSTALLER is written.     *)
SwapStaged ==
  /\ cmd.op = "staged"
  /\ site' = MarkNames(Swap(site, cmd.todo), NamesOf(cmd.todo))
  /\ cmd' = [cmd EXCEPT !.op = "swapped"]
  /\ UNCHANGED <<declared, lockfile, graph, journal, ops>>

(* The swap stops: done is in place without INSTALLER, bad was removed.    *)
SwapStops(done, bad) ==
  /\ cmd.op = "staged"
  /\ done \subseteq cmd.todo
  /\ bad \in cmd.todo \ done
  /\ site' = Without(Swap(site, done), {bad}, {bad.name})
  /\ cmd' = NoCommand
  /\ UNCHANGED <<declared, lockfile, graph, journal, ops>>

(* The lock file lists what was resolved, skipped or not (a mutant).       *)
LockOfRequest(c) == PinsOf(c.todo \cup {d \in Dist : c.args[d.name] = d.ver})

(* The lock file lists what was staged, and nothing that was there before. *)
LockOfInstall(c) == PinsOf(c.todo)

(* AddDependency: a requirement that is there already stays.               *)
WithRequested(req) ==
  [n \in Name |-> IF declared[n] = NoVersion THEN req[n] ELSE declared[n]]

(* The tail of runInstall: the graph, pyproject.toml, the lock file and    *)
(* the journal.  The errors of the first three are dropped.                *)
RecordInstall ==
  /\ cmd.op = "swapped"
  /\ graph' \in Writes(GraphNames \cup NamesOf(cmd.todo), graph, {})
  /\ declared' \in {WithRequested(cmd.args), declared}
  /\ WriteLock(LockOfInstall(cmd)) \/ UNCHANGED lockfile
  /\ journal' = Recorded(cmd.todo)
  /\ cmd' = NoCommand
  /\ UNCHANGED <<site, ops>>

---------------------------------------------------------------------------
(* fpm remove of one name, written with a "." or not: the name leaves      *)
(* pyproject.toml and the graph whatever uninstallPackage says.            *)
RemoveName(n, force, dotted) ==
  /\ Idle /\ Count
  /\ dotted => n \in Dotted
  /\ site' = Uninstall(site, n, force)
  /\ declared' \in {Undeclared(n, dotted), declared}
  /\ graph' \in Writes(GraphNames \ {n}, graph, {})
  /\ UNCHANGED <<lockfile, journal, cmd>>

(* fpm lock: the declared requirements, resolved again.                    *)
LockProject ==
  /\ Idle /\ Count
  /\ Named(declared) # {}
  /\ \E pins \in Resolutions(declared) : WriteLock(pins)
  /\ UNCHANGED <<site, declared, graph, journal, cmd>>

---------------------------------------------------------------------------
(* fpm sync                                                                *)

(* Comparing names only (a mutant).                                        *)
MissingNames == {d \in Pinned(lockfile) : Of(site, d.name) = {}}

(* FindExact: the locked version itself must be there.                     *)
Missing == {d \in Pinned(lockfile) : d \notin Present(site)}

(* fpm's packages whose name is not in the lock file, at any version.      *)
Unlocked == {d \in FpmDists(site) : d.name \notin Named(lockfile)}

(* The scan and the comparison with the lock file.                         *)
BeginSync ==
  /\ Idle
  /\ lockfile # NoFile
  /\ Missing # {} \/ Unlocked # {}
  /\ cmd' = [NoCommand EXCEPT !.op = "sync", !.todo = Missing, !.gone = Unlocked]
  /\ UNCHANGED <<site, declared, lockfile, graph, journal, ops>>

(* One missing package is linked, and not marked.                          *)
SyncLink(d) ==
  /\ cmd.op = "sync" /\ d \in cmd.todo
  /\ site' = Link(site, d)
  /\ cmd' = [cmd EXCEPT !.todo = @ \ {d}]
  /\ UNCHANGED <<declared, lockfile, graph, journal, ops>>

(* A failed download, an unreadable wheel: a warning.                      *)
SyncSkip(d) ==
  /\ cmd.op = "sync" /\ d \in cmd.todo
  /\ cmd' = [cmd EXCEPT !.todo = @ \ {d}, !.whole = FALSE]
  /\ UNCHANGED <<site, declared, lockfile, graph, journal, ops>>

(* After the installations, one package that is not locked: its name is    *)
(* uninstalled.  An error is a warning.                                    *)
SyncRemove(d) ==
  /\ cmd.op = "sync" /\ cmd.todo = {} /\ d \in cmd.gone
  /\ site' = Uninstall(site, d.name, FALSE)
  /\ cmd' = [cmd EXCEPT !.gone = @ \ {d}]
  /\ UNCHANGED <<declared, lockfile, graph, journal, ops>>

EndSync ==
  /\ cmd.op = "sync" /\ cmd.todo = {} /\ cmd.gone = {}
  /\ cmd' = NoCommand
  /\ UNCHANGED <<site, declared, lockfile, graph, journal, ops>>

---------------------------------------------------------------------------
(* Around the commands                                                     *)

(* A person writes a name into pyproject.toml or takes it out.             *)
EditDeclared(n) ==
  /\ Idle /\ Count
  /\ declared' = [declared EXCEPT ![n] = IF @ = NoVersion THEN AnyVersion
                                         ELSE NoVersion]
  /\ UNCHANGED <<site, lockfile, graph, journal, cmd>>

(* pip knows nothing of fpm's locks: it runs beside any command.           *)
PipRuns(s) ==
  /\ Count
  /\ site' = s
  /\ cmd' = IF Idle THEN NoCommand ELSE [cmd EXCEPT !.alone = FALSE]
  /\ UNCHANGED <<declared, lockfile, graph, journal>>

(* The running command is killed, or gives up before the swap.             *)
Die ==
  /\ ~Idle /\ Count
  /\ cmd' = NoCommand
  /\ UNCHANGED <<site, declared, lockfile, graph, journal>>

SyncNext ==
  \/ BeginSync
  \/ \E d \in Dist : SyncLink(d) \/ SyncSkip(d) \/ SyncRemove(d)
  \/ EndSync

CommandNext ==
  \/ \E req \in Requests : BeginInstall(req)
  \/ SwapStaged
  \/ \E done \in SUBSET Dist, bad \in Dist : SwapStops(done, bad)
  \/ RecordInstall
  \/ \E n \in Name, force, dotted \in BOOLEAN : RemoveName(n, force, dotted)
  \/ LockProject
  \/ SyncNext

OtherNext ==
  \/ \E n \in Name : EditDeclared(n)
  \/ \E d \in PipWheels : PipRuns(PipInstall(site, d))
  \/ \E n \in NamesOf(Present(site)) : PipRuns(PipUninstall(site, n))
  \/ Die

ProjectNext == CommandNext \/ OtherNext
=============================================================================
