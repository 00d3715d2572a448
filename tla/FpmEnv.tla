-------------------------------- MODULE FpmEnv --------------------------------
(***************************************************************************)
(* One Python environment and the fpm processes that change it: install,   *)
(* remove, remove --purge, autoremove and mark (internal/cli), each a      *)
(* sequence of steps on                                                    *)
(*                                                                         *)
(*   site      the dist-info directories of site-packages, by INSTALLER    *)
(*   graph     the dependency graph file of the environment                *)
(*   declared  the dependencies of pyproject.toml                          *)
(*   venvLock  the holder of the environment lock                          *)
(*                                                                         *)
(* Only install takes the environment lock.  Load and Save of the graph    *)
(* are single steps here: module GraphFile shows that the file locks make  *)
(* them atomic.  Around them stand the neighbours that also write          *)
(* site-packages: `fpm sync`, pip, and the death of an fpm process.        *)
(* One version of every package exists here, and a package is one          *)
(* dist-info directory.  What follows the graph's save in an install       *)
(* (pyproject.toml) is a step of its own, and one call of uninstallPackage *)
(* is one step.                                                            *)
(***************************************************************************)
EXTENDS DepGraph

CONSTANTS
  Installers,   \* processes that run `fpm install`
  Editors,      \* processes that run remove, autoremove and mark
  NoProc,       \* nobody: the environment lock is free
  Deps,         \* the Requires-Dist names of every package's METADATA
  Unreadable,   \* packages whose METADATA download may fail in the resolver
  Interactive,  \* stdin is a terminal: removals are confirmed by a person
  Prefixed,     \* the longer names that begin with a name: foo_bar for foo
  Exact         \* people name only installed packages to `fpm remove`

Proc == Installers \cup Editors

ASSUME EnvAssumption ==
  /\ Deps \in [Pkg -> SUBSET Pkg]
  /\ Unreadable \subseteq Pkg
  /\ NoProc \notin Proc
  /\ Interactive \in BOOLEAN
  /\ Prefixed \in [Pkg -> SUBSET Pkg]
  /\ Exact \in BOOLEAN

VARIABLES site, graph, declared, venvLock, pc, job, mem

vars == <<site, graph, declared, venvLock, pc, job, mem>>

---------------------------------------------------------------------------
(* A dist-info directory by its INSTALLER: "fpm", "pip" for any other      *)
(* manager, "unmarked" when the file is missing (a wheel linked but not    *)
(* yet marked).  detectManager takes the last two for another manager's.   *)
Installer == {"absent", "fpm", "pip", "unmarked"}

FpmManaged == {q \in Pkg : site[q] = "fpm"}

(* The dist-info directories uninstallPackage may remove for the name q:   *)
(* q's own, which the listing has before those of longer names, unless it  *)
(* is another manager's and not forced; with none of its own, any that the *)
(* prefix finds, whoever installed it, for FindByName(q) is empty then.    *)
Removable(q, force) ==
  {r \in {q} : \/ site[q] \in {"fpm", "unmarked"}
               \/ site[q] = "pip" /\ force}
  \cup {r \in Prefixed[q] : site[q] = "absent" /\ site[r] # "absent"}

(* The outcomes of uninstallPackage: one directory gone, or an error.      *)
Uninstalled(q, force) ==
  {{r} : r \in Removable(q, force)} \cup {t \in {{}} : Removable(q, force) = {}}

Without(gone) == [r \in Pkg |-> IF r \in gone THEN "absent" ELSE site[r]]

(* The command a process runs: its arguments, the packages it has yet to   *)
(* put in place or to take away, the dependencies the resolver read, and   *)
(* a flag (mark: the new status; removals: something was removed), and     *)
(* whether --force was given.                                              *)
Job == [op: {"none", "install", "remove", "purge", "autoremove", "mark"},
        args: SUBSET Pkg, todo: SUBSET Pkg,
        deps: [Pkg -> SUBSET Pkg], flag: BOOLEAN, force: BOOLEAN]

NoJob == [op |-> "none", args |-> {}, todo |-> {},
          deps |-> [q \in Pkg |-> {}], flag |-> FALSE, force |-> FALSE]

PC == {"idle", "staged", "swapped", "uninstalling", "uninstalled", "purging",
       "removing", "saving", "declaring"}

TypeOK ==
  /\ site \in [Pkg -> Installer]
  /\ graph \in Graph
  /\ declared \in SUBSET Pkg
  /\ venvLock \in Proc \cup {NoProc}
  /\ pc \in [Proc -> PC]
  /\ job \in [Proc -> Job]
  /\ mem \in [Proc -> Graph]

(* A fresh environment; other managers may have been there before fpm.     *)
Init ==
  /\ site \in [Pkg -> {"absent", "pip"}]
  /\ graph = EmptyGraph
  /\ declared = {}
  /\ venvLock = NoProc
  /\ pc = [p \in Proc |-> "idle"]
  /\ job = [p \in Proc |-> NoJob]
  /\ mem = [p \in Proc |-> EmptyGraph]

(* The process returns and its local state is gone.                        *)
Return(p) ==
  /\ pc' = [pc EXCEPT ![p] = "idle"]
  /\ job' = [job EXCEPT ![p] = NoJob]
  /\ mem' = [mem EXCEPT ![p] = EmptyGraph]

(* A lock that is not waited for (a mutant).                               *)
LockIgnored == TRUE

(* The environment lock: flock on site-packages/.fpm.lock.                 *)
LockFree == venvLock = NoProc

Unlock(p) == venvLock' = IF venvLock = p THEN NoProc ELSE venvLock

---------------------------------------------------------------------------
(* fpm install                                                             *)

(* runInstall up to the staged wheels: take the lock, scan, resolve R and  *)
(* drop what another manager has and the policy or the user skips.  A      *)
(* METADATA the resolver cannot fetch yields a package without             *)
(* dependencies.  The returns that change nothing (lock timeout, failed    *)
(* resolution, abort, nothing left) are stuttering steps.                  *)
BeginInstall(p, R, lost, skipped) ==
  LET read     == [q \in Pkg |-> IF q \in lost THEN {} ELSE Deps[q]]
      resolved == Closure(R, read)
  IN  /\ pc[p] = "idle"
      /\ LockFree
      /\ R # {}
      /\ skipped \subseteq {q \in resolved : site[q] \in {"pip", "unmarked"}}
      /\ resolved \ skipped # {}
      /\ venvLock' = p
      /\ pc' = [pc EXCEPT ![p] = "staged"]
      /\ job' = [job EXCEPT ![p] = [op |-> "install", args |-> R,
                                    todo |-> resolved \ skipped,
                                    deps |-> read, flag |-> FALSE,
                                    force |-> FALSE]]
      /\ UNCHANGED <<site, graph, declared, mem>>

(* A failed download, a wrong hash, a signal: nothing was touched.         *)
AbandonInstall(p) ==
  /\ pc[p] = "staged"
  /\ Unlock(p)
  /\ Return(p)
  /\ UNCHANGED <<site, graph, declared>>

(* A swap that gives the lock back too early (a mutant).                   *)
SwapAndUnlock(p) ==
  /\ pc[p] = "staged"
  /\ site' = [q \in Pkg |-> IF q \in job[p].todo THEN "fpm" ELSE site[q]]
  /\ pc' = [pc EXCEPT ![p] = "swapped"]
  /\ Unlock(p)
  /\ UNCHANGED <<graph, declared, job, mem>>

(* Every staged entry replaces its counterpart, then INSTALLER is written. *)
SwapInstall(p) ==
  /\ pc[p] = "staged"
  /\ site' = [q \in Pkg |-> IF q \in job[p].todo THEN "fpm" ELSE site[q]]
  /\ pc' = [pc EXCEPT ![p] = "swapped"]
  /\ UNCHANGED <<graph, declared, venvLock, job, mem>>

(* The swap ends early: it fails at an entry it has removed and cannot     *)
(* link, or is killed anywhere.  What was linked is in place, without      *)
(* INSTALLER but for what was marked after the last link, and the graph    *)
(* never hears of it.                                                      *)
SwapStops(p, linked, marked, gone) ==
  /\ pc[p] = "staged"
  /\ linked \subseteq job[p].todo
  /\ marked \subseteq linked
  /\ marked # {} => linked = job[p].todo
  /\ gone \in {{}} \cup {{q} : q \in job[p].todo \ linked}
  /\ site' = [q \in Pkg |-> IF q \in marked THEN "fpm"
                            ELSE IF q \in linked THEN "unmarked"
                            ELSE IF q \in gone THEN "absent" ELSE site[q]]
  /\ Unlock(p)
  /\ Return(p)
  /\ UNCHANGED <<graph, declared>>

(* depgraph.Load and the loop over the installed packages.                 *)
LoadForInstall(p) ==
  LET j == job[p]
  IN  /\ pc[p] = "swapped"
      /\ mem' = [mem EXCEPT ![p] =
                   AddTransitive(AddRequested(graph, j.todo \cap j.args, j.deps),
                                 j.todo \ j.args, j.deps)]
      /\ pc' = [pc EXCEPT ![p] = "saving"]
      /\ UNCHANGED <<site, graph, declared, venvLock, job>>

---------------------------------------------------------------------------
(* fpm remove, remove --purge and autoremove                               *)

(* runRemove with the names R: a person who is Exact names what is there.  *)
BeginRemove(p, R, purge, force) ==
  /\ pc[p] = "idle"
  /\ R # {}
  /\ Exact => \A q \in R : site[q] # "absent"
  /\ pc' = [pc EXCEPT ![p] = "uninstalling"]
  /\ job' = [job EXCEPT ![p] =
               [NoJob EXCEPT !.op = IF purge THEN "purge" ELSE "remove",
                             !.args = R, !.todo = R, !.force = force]]
  /\ UNCHANGED <<site, graph, declared, venvLock, mem>>

(* One argument: uninstalled, or passed over with an error.                *)
RemoveArgument(p, q) ==
  /\ pc[p] = "uninstalling"
  /\ q \in job[p].todo
  /\ \E gone \in Uninstalled(q, job[p].force) :
       /\ site' = Without(gone)
       /\ job' = [job EXCEPT ![p].todo = @ \ {q}, ![p].flag = @ \/ gone # {}]
  /\ UNCHANGED <<graph, declared, venvLock, pc, mem>>

(* Then every argument leaves pyproject.toml.                              *)
Undeclare(p) ==
  /\ pc[p] = "uninstalling"
  /\ job[p].todo = {}
  /\ declared' = declared \ job[p].args
  /\ pc' = [pc EXCEPT ![p] = "uninstalled"]
  /\ UNCHANGED <<site, graph, venvLock, job, mem>>

(* Every argument leaves the graph, uninstalled or not.                    *)
LoadForRemove(p) ==
  /\ pc[p] = "uninstalled"
  /\ mem' = [mem EXCEPT ![p] = Remove(graph, job[p].args)]
  /\ pc' = [pc EXCEPT ![p] = IF job[p].op = "purge" /\ job[p].flag
                             THEN "purging" ELSE "saving"]
  /\ UNCHANGED <<site, graph, declared, venvLock, job>>

BeginAutoremove(p) ==
  /\ pc[p] = "idle"
  /\ mem' = [mem EXCEPT ![p] = graph]
  /\ job' = [job EXCEPT ![p] = [NoJob EXCEPT !.op = "autoremove"]]
  /\ pc' = [pc EXCEPT ![p] = "purging"]
  /\ UNCHANGED <<site, graph, declared, venvLock>>

(* What a round of the loop proposes to remove: the graph's orphans or,    *)
(* with no graph at all, the METADATA scan's.                              *)
Unused(p) ==
  IF Nodes(mem[p]) = {}
  THEN MetadataOrphans(FpmManaged, declared, Deps, job[p].args)
  ELSE Orphans(mem[p])

(* confirmRemoval: everything without a terminal; with one, everything,    *)
(* nothing, or all but what the user keeps and what that needs according   *)
(* to the graph on disk.                                                   *)
Confirmed(orphans) ==
  {orphans} \cup
  (IF Interactive
   THEN {{}} \cup {orphans \ KeepSet(graph, keep) : keep \in SUBSET Pkg}
   ELSE {})

PurgeRound(p) ==
  /\ pc[p] = "purging"
  /\ \E confirmed \in Confirmed(Unused(p)) :
       /\ job' = [job EXCEPT ![p].todo = confirmed]
       /\ pc' = [pc EXCEPT ![p] = IF confirmed = {} THEN "saving"
                                  ELSE "removing"]
  /\ UNCHANGED <<site, graph, declared, venvLock, mem>>

(* The loop runs again once the round's list is done.                      *)
AfterOrphan(left) == IF left = {} THEN "purging" ELSE "removing"

(* One orphan: dropped from the graph in memory once uninstallPackage has  *)
(* removed what it found for that name; when it fails, the orphan is       *)
(* passed over and left in that graph.                                     *)
RemoveOrphan(p, q) ==
  LET left == job[p].todo \ {q}
  IN  /\ pc[p] = "removing"
      /\ q \in job[p].todo
      /\ \E gone \in Uninstalled(q, FALSE) :
           /\ site' = Without(gone)
           /\ mem' = IF gone # {} THEN [mem EXCEPT ![p] = Remove(@, {q})] ELSE mem
           /\ job' = [job EXCEPT ![p].todo = left, ![p].flag = @ \/ gone # {}]
      /\ pc' = [pc EXCEPT ![p] = AfterOrphan(left)]
      /\ UNCHANGED <<graph, declared, venvLock>>

---------------------------------------------------------------------------
(* fpm mark: nothing is saved when no name is in the graph.                *)
BeginMark(p, R, flag) ==
  /\ pc[p] = "idle"
  /\ R \cap Nodes(graph) # {}
  /\ mem' = [mem EXCEPT ![p] = Mark(graph, R, flag)]
  /\ job' = [job EXCEPT ![p] = [NoJob EXCEPT !.op = "mark", !.args = R,
                                             !.flag = flag]]
  /\ pc' = [pc EXCEPT ![p] = "saving"]
  /\ UNCHANGED <<site, graph, declared, venvLock>>

(* Graph.Save, the end of a removal or mark.  autoremove saves only if it   *)
(* removed something.                                                      *)
Save(p) ==
  /\ pc[p] = "saving"
  /\ job[p].op # "install"
  /\ graph' = IF job[p].op = "autoremove" /\ ~job[p].flag THEN graph ELSE mem[p]
  /\ Return(p)
  /\ UNCHANGED <<site, declared, venvLock>>

(* An install saves the graph, then adds its arguments to pyproject.toml   *)
(* and releases the lock.                                                  *)
SaveInstalled(p) ==
  /\ pc[p] = "saving"
  /\ job[p].op = "install"
  /\ graph' = mem[p]
  /\ pc' = [pc EXCEPT ![p] = "declaring"]
  /\ UNCHANGED <<site, declared, venvLock, job, mem>>

Declare(p) ==
  /\ pc[p] = "declaring"
  /\ declared' = declared \cup job[p].args
  /\ Unlock(p)
  /\ Return(p)
  /\ UNCHANGED <<site, graph>>

---------------------------------------------------------------------------
(* The neighbours                                                          *)

(* fpm sync under the environment lock, with a lock file fpm generated:    *)
(* what is missing is linked but not marked, unless its download fails;    *)
(* fpm-managed packages outside the lock file go.  The graph is not told.  *)
Sync(locked, got) ==
  /\ LockFree
  /\ got \subseteq {q \in locked : site[q] = "absent"}
  /\ site' = [q \in Pkg |-> IF q \in got THEN "unmarked"
                            ELSE IF site[q] = "fpm" /\ q \notin locked
                                 THEN "absent" ELSE site[q]]
  /\ UNCHANGED <<graph, declared, venvLock, pc, job, mem>>

PipInstall(q) ==
  /\ site[q] # "pip"
  /\ site' = [site EXCEPT ![q] = "pip"]
  /\ UNCHANGED <<graph, declared, venvLock, pc, job, mem>>

PipUninstall(q) ==
  /\ site[q] # "absent"
  /\ site' = [site EXCEPT ![q] = "absent"]
  /\ UNCHANGED <<graph, declared, venvLock, pc, job, mem>>

(* A process is killed: the kernel drops its lock; os.WriteFile, which     *)
(* truncates first, may leave a graph file that the next Load reads as an  *)
(* empty graph.                                                            *)
Crash(p) ==
  /\ pc[p] # "idle"
  /\ \/ graph' = graph
     \/ pc[p] = "saving" /\ graph' = EmptyGraph
  /\ Unlock(p)
  /\ Return(p)
  /\ UNCHANGED <<site, declared>>

---------------------------------------------------------------------------
InstallStep(p) ==
  \/ AbandonInstall(p)
  \/ SwapInstall(p)
  \/ LoadForInstall(p)
  \/ SaveInstalled(p)
  \/ Declare(p)

EditStep(p) ==
  \/ \E q \in Pkg : RemoveArgument(p, q)
  \/ Undeclare(p)
  \/ LoadForRemove(p)
  \/ PurgeRound(p)
  \/ \E q \in Pkg : RemoveOrphan(p, q)

StartInstall(p) ==
  \E R \in SUBSET Pkg, lost \in SUBSET Unreadable, skipped \in SUBSET Pkg :
    BeginInstall(p, R, lost, skipped)

StartEdit(p) ==
  \/ BeginAutoremove(p)
  \/ \E R \in SUBSET Pkg, purge, force \in BOOLEAN : BeginRemove(p, R, purge, force)
  \/ \E R \in SUBSET Pkg, flag \in BOOLEAN : BeginMark(p, R, flag)

(* What a running process does next; it does not wait for anyone.          *)
Continue(p) == InstallStep(p) \/ EditStep(p) \/ Save(p)

Next ==
  \/ \E p \in Installers : StartInstall(p)
  \/ \E p \in Editors : StartEdit(p)
  \/ \E p \in Proc : Continue(p)

Neighbours ==
  \/ \E wanted \in SUBSET Pkg, got \in SUBSET Pkg : Sync(Closure(wanted, Deps), got)
  \/ \E q \in Pkg : PipInstall(q) \/ PipUninstall(q)

(* A command that ends half-way.                                           *)
Faults ==
  \/ \E p \in Proc : Crash(p)
  \/ \E p \in Installers, linked, marked, gone \in SUBSET Pkg :
       SwapStops(p, linked, marked, gone)

Spec == Init /\ [][Next]_vars

(* A running process is scheduled.                                         *)
FairSpec == Spec /\ \A p \in Proc : WF_vars(Continue(p))

(* fpm in an environment that others change too.                           *)
OpenNext == Next \/ Neighbours \/ Faults

OpenSpec == Init /\ [][OpenNext]_vars

FairOpenSpec == OpenSpec /\ \A p \in Proc : WF_vars(Continue(p))
---------------------------------------------------------------------------
(* What the commands promise                                               *)

InInstall(p) ==
  \/ pc[p] \in {"staged", "swapped", "declaring"}
  \/ pc[p] = "saving" /\ job[p].op = "install"

InPurge(p) == pc[p] \in {"purging", "removing"}

(* An install works on site-packages, the graph and pyproject.toml only    *)
(* while it holds the environment lock, so that at most one does, and a    *)
(* dead process holds nothing (install_impl.go:121-131).                   *)
InstallExclusive ==
  /\ \A p \in Proc : InInstall(p) => venvLock = p
  /\ venvLock # NoProc => InInstall(venvLock)

(* Between commands every fpm-managed package has a node in the graph: no  *)
(* command forgets, or resurrects on disk, what another recorded.          *)
Tracked ==
  (\A p \in Proc : pc[p] = "idle") => FpmManaged \subseteq Nodes(graph)

(* Between commands the graph has no ghosts: every node stands for an       *)
(* fpm-managed package on disk, or autoremove would offer, and fail to      *)
(* uninstall, what is long gone (the loop of remove_impl.go:61-91).         *)
NoGhosts ==
  (\A p \in Proc : pc[p] = "idle") => Nodes(graph) \subseteq FpmManaged

(* The step of a purge or an autoremove in which r leaves site-packages,    *)
(* under its own name or under one it begins with.                         *)
TakesAway(p, r) ==
  /\ pc[p] = "removing"
  /\ job'[p] # job[p]
  /\ site[r] # "absent" /\ site'[r] = "absent"

(* Cleaning up never takes away a package that an fpm-managed package that *)
(* stays installed depends on (docs: "urllib3 -> NOT orphan (requests      *)
(* still needs it) -> keep").                                              *)
AutoremoveSafe ==
  [][\A p \in Editors, r \in Pkg :
       TakesAway(p, r) => \A k \in Pkg : site'[k] = "fpm" => r \notin Deps[k]]_vars

(* Cleaning up never takes away a package the graph file says was          *)
(* requested, by an install or by mark.                                    *)
MarkProtects ==
  [][\A p \in Editors, r \in Pkg : TakesAway(p, r) => ~graph[r].requested]_vars

(* Cleaning up never takes away what another manager installed (docs:      *)
(* "never touched"), although uninstallPackage checks that for a package   *)
(* of the very name only: no orphan may be gone from disk while another    *)
(* manager's package begins with its name.                                 *)
ForeignKept ==
  [][\A p \in Editors, r \in Pkg : TakesAway(p, r) => site[r] # "pip"]_vars

(* With the graph gone, what a dependency in pyproject.toml needs stays,   *)
(* unless somebody takes a listed package away in between and its name     *)
(* then finds another.                                                     *)
FallbackKeepsDeclared ==
  [][\A p \in Editors, q \in Pkg :
       /\ TakesAway(p, q)
       /\ q \in job[p].todo \ job'[p].todo
       /\ Nodes(mem[p]) = {}
       => q \notin Closure(declared,
                     [r \in Pkg |-> IF r \in FpmManaged THEN Deps[r] ELSE {}])]_vars

(* The packages on a dependency cycle of g.                                *)
Edges(g) == [q \in Pkg |-> g[q].deps]

OnCycle(g) == {q \in Nodes(g) : q \in Closure(g[q].deps, Edges(g))}

(* A clean-up that was not told to keep anything ends with no garbage:     *)
(* every node left in the graph is needed, through the graph, by a         *)
(* requested package or by a cycle (graph_test.go states that cycles keep  *)
(* each other alive), although each round looks at direct edges only.      *)
NoGarbage ==
  \A p \in Editors :
    /\ pc[p] = "saving"
    /\ job[p].op = "autoremove" \/ (job[p].op = "purge" /\ job[p].flag)
    /\ Interactive => Orphans(mem[p]) = {}
    => Nodes(mem[p]) \subseteq
         Closure(Requested(mem[p]) \cup OnCycle(mem[p]), Edges(mem[p]))

(* A package leaves the requested ones only when it is removed or marked:  *)
(* reinstalling it as a dependency does not demote it.                     *)
NeverDemoted ==
  [][\A q \in Requested(graph) :
       \/ q \notin Nodes(graph')
       \/ q \in Requested(graph')
       \/ \E p \in Editors : job[p].op = "mark" /\ pc[p] = "saving"]_vars

(* What is left of p's clean-up gets less: a package leaves its graph for   *)
(* good, or a round begins to remove what it found.                        *)
PurgeNearer(p) ==
  \/ /\ Nodes(mem'[p]) \subseteq Nodes(mem[p])
     /\ Nodes(mem'[p]) # Nodes(mem[p])
  \/ mem'[p] = mem[p] /\ pc[p] = "purging" /\ pc'[p] = "removing"

(* No step of a clean-up is in vain: it is over, or nearer to its end; so  *)
(* it takes at most two steps for every package, whatever a person keeps.  *)
CleanUpAdvances ==
  [][\A p \in Editors :
       InPurge(p) /\ (pc'[p] # pc[p] \/ job'[p] # job[p]) =>
         ~InPurge(p)' \/ PurgeNearer(p)]_vars

(* A clean-up ends ("recursive until no new orphans").                     *)
PurgeTerminates == \A p \in Editors : InPurge(p) ~> pc[p] = "idle"
=============================================================================
