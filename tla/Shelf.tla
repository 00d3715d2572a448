-------------------------------- MODULE Shelf --------------------------------
(***************************************************************************)
(* The commands that put packages of a project aside and leave it to the   *)
(* person to bring them back: `fpm stash`, `fpm branch` and `fpm revert`   *)
(* (internal/cli), on top of module Project.                               *)
(*                                                                         *)
(*   stash   .fpm-stash.json: the stack of the packages put aside          *)
(*   saved   .fpm-branches/<branch>: a branch's graph and package list     *)
(*   listed  the branches of .fpm-branches.json                            *)
(*   active  the active branch of that file                                *)
(*   target  the branch a running switch goes to                           *)
(*                                                                         *)
(* Each command writes what it puts aside first, without a look at the     *)
(* error, and then uninstalls one package after the other; it may die in   *)
(* between.                                                                *)
(***************************************************************************)
EXTENDS Project, Sequences

CONSTANTS Branch, Main

BranchState == [graph: (SUBSET Name) \cup {NoFile}, pkgs: SUBSET Dist]

(* A branch without a directory reads like one with nothing in it.         *)
NoState == [graph |-> NoFile, pkgs |-> {}]

ASSUME ShelfAssumption == Main \in Branch

VARIABLES stash, saved, listed, active, target

shelfVars == <<stash, saved, listed, active, target>>
vars == <<projectVars, shelfVars>>

(* The active branch and the one a switch goes to are branches that exist, *)
(* whatever was deleted or lost.                                           *)
TypeOK ==
  /\ ProjectTypeOK
  /\ stash \in Seq(SUBSET Dist)
  /\ saved \in [Branch -> BranchState]
  /\ listed \in SUBSET Branch
  /\ active \in listed \cup {Main}
  /\ target \in Branch /\ (cmd.op = "switch" => target \in listed)

Init ==
  /\ ProjectInit
  /\ stash = <<>>
  /\ saved = [b \in Branch |-> NoState]
  /\ listed = {}
  /\ active = Main /\ target = Main

(* What the directory of branch b may hold after the graph file and the    *)
(* list of fpm's packages were written there; without a graph file the     *)
(* copy made last time stays.                                              *)
StatesFor(b) ==
  [graph: IF graph = NoFile THEN {saved[b].graph}
          ELSE Writes(graph, saved[b].graph, {}),
   pkgs:  Writes(FpmDists(site), saved[b].pkgs, {})]

(* saveBranchMeta, whose error every caller drops: without a readable file *)
(* the active branch is main and no branch is listed.                      *)
SaveMeta(branches, current) ==
  \/ listed' = branches /\ active' = current
  \/ UNCHANGED <<listed, active>>
  \/ listed' = {} /\ active' = Main

---------------------------------------------------------------------------
(* fpm stash                                                               *)

(* Mutants: uninstalling first, and listing what is left afterwards.       *)
PushLate ==
  /\ Idle /\ Count
  /\ lockfile # NoFile
  /\ Unlocked # {}
  /\ stash' = <<{}>> \o stash
  /\ cmd' = [NoCommand EXCEPT !.op = "stash", !.gone = Unlocked]
  /\ UNCHANGED <<site, declared, lockfile, graph, journal, saved, listed, active, target>>

(* What fpm installed outside the lock file goes onto the stack, and its   *)
(* names are uninstalled, whether the stack was written or not.            *)
StashPush ==
  /\ Idle /\ Count
  /\ lockfile # NoFile
  /\ Unlocked # {}
  /\ \E s \in Writes(<<Unlocked>> \o stash, stash, <<>>) :
       /\ stash' = s
       /\ cmd' = [NoCommand EXCEPT !.op = "stash", !.gone = Unlocked,
                                  !.whole = s = <<Unlocked>> \o stash]
  /\ UNCHANGED <<site, declared, lockfile, graph, journal, saved, listed, active, target>>

(* pop takes the entry off the stack and prints what to install, drop      *)
(* takes it off.                                                           *)
StashTake ==
  /\ Idle /\ Count
  /\ stash # <<>>
  /\ stash' \in Writes(Tail(stash), stash, <<>>)
  /\ UNCHANGED <<site, declared, lockfile, graph, journal, cmd, saved, listed, active, target>>

---------------------------------------------------------------------------
(* fpm branch                                                              *)

BranchCreate(b) ==
  /\ Idle /\ Count
  /\ b \notin listed
  /\ \E state \in StatesFor(b) : saved' = [saved EXCEPT ![b] = state]
  /\ SaveMeta(listed \cup {b}, active)
  /\ UNCHANGED <<site, declared, lockfile, graph, journal, cmd, stash, target>>

(* A delete of the branch one is on (a mutant).                            *)
BranchDeleteAny(b) ==
  /\ Idle /\ Count
  /\ b \in listed \ {Main}
  /\ saved' = [saved EXCEPT ![b] = NoState]
  /\ SaveMeta(listed \ {b}, active)
  /\ UNCHANGED <<site, declared, lockfile, graph, journal, cmd, stash, target>>

BranchDelete(b) ==
  /\ Idle /\ Count
  /\ b \in listed \ {active, Main}
  /\ saved' = [saved EXCEPT ![b] = NoState]
  /\ SaveMeta(listed \ {b}, active)
  /\ UNCHANGED <<site, declared, lockfile, graph, journal, cmd, stash, target>>

(* runBranchSwitch up to the first uninstall: the active branch's state is *)
(* written, the graph file becomes the target's if the target has one.  No *)
(* error stops the command.                                                *)
BeginSwitch(b) ==
  /\ Idle /\ Count
  /\ b \in listed \ {active}
  /\ \E state \in StatesFor(active) :
       /\ saved' = [saved EXCEPT ![active] = state]
       /\ cmd' = [NoCommand EXCEPT !.op = "switch", !.gone = FpmDists(site),
                                  !.whole = state.pkgs = FpmDists(site)]
  /\ graph' \in IF saved[b].graph = NoFile THEN {graph}
                ELSE Writes(saved[b].graph, graph, {})
  /\ target' = b
  /\ UNCHANGED <<site, declared, lockfile, journal, stash, listed, active>>

(* Nothing is installed: the person is told to run `fpm sync`.             *)
EndSwitch ==
  /\ cmd.op = "switch" /\ cmd.gone = {}
  /\ SaveMeta(listed \cup {active}, target)
  /\ cmd' = NoCommand
  /\ UNCHANGED <<site, declared, lockfile, graph, journal, ops, stash, saved, target>>

---------------------------------------------------------------------------
(* fpm revert of an installation: its names are uninstalled.  Entries may  *)
(* share an identifier, so that any of them may be the one that is found.  *)
BeginRevert(pkgs) ==
  /\ Idle /\ Count
  /\ pkgs \in journal
  /\ cmd' = [NoCommand EXCEPT !.op = "revert", !.gone = pkgs]
  /\ UNCHANGED <<site, declared, lockfile, graph, journal, shelfVars>>

(* A stash, a switch or a revert uninstalls one of its packages by name;   *)
(* an error is passed over.                                                *)
PutAside(d) ==
  /\ cmd.op \in {"stash", "switch", "revert"} /\ d \in cmd.gone
  /\ site' = Uninstall(site, d.name, FALSE)
  /\ cmd' = LET left == cmd.gone \ {d}
            IN  IF left = {} /\ cmd.op # "switch" THEN NoCommand
                ELSE [cmd EXCEPT !.gone = left]
  /\ UNCHANGED <<declared, lockfile, graph, journal, ops, shelfVars>>

ShelfNext ==
  \/ StashPush
  \/ StashTake
  \/ \E b \in Branch : BranchCreate(b) \/ BranchDelete(b) \/ BeginSwitch(b)
  \/ EndSwitch
  \/ \E pkgs \in journal : BeginRevert(pkgs)
  \/ \E d \in Dist : PutAside(d)

Next == (ProjectNext /\ UNCHANGED shelfVars) \/ ShelfNext

Spec == Init /\ [][Next]_vars

---------------------------------------------------------------------------
(* What the commands promise                                               *)

(* What a step takes out of site-packages.                                 *)
Taken == Present(site) \ Present(site')

(* What fpm installed, fpm can remove: the dist-info directory a name      *)
(* finds first is never another manager's while fpm has one of that name   *)
(* (the mark and the removal both take the first match).                   *)
FpmRemovable == \A d \in FpmDists(site) : CanUninstall(site, d.name, FALSE)

(* sync, stash and switch uninstall by name, after a scan.  While pip      *)
(* leaves site-packages alone they never take another package, whose name  *)
(* only begins like theirs, nor another manager's one.                     *)
TakesOwn ==
  [][cmd.op \in {"sync", "stash", "switch"} /\ cmd.alone /\ cmd'.alone =>
       \A e \in Taken : e.name \in NamesOf(cmd.gone) /\ site.mark[e] # "pip"]_vars

(* Nothing of fpm's is put aside that the stack or the branch left behind  *)
(* does not list, wherever the command dies, if the list could be written  *)
(* and pip did not come in between.                                        *)
PutAsideListed ==
  [][cmd.alone /\ cmd'.alone /\ cmd.whole =>
       \A e \in Taken \cap FpmDists(site) :
         /\ cmd.op = "stash" => e \in Head(stash)
         /\ cmd.op = "switch" => e \in saved[active].pkgs]_vars

(* The lock file an install writes asks for nothing that is not there, so  *)
(* that a sync at once has nothing to install.                             *)
InstallSynced ==
  [][cmd.op = "swapped" /\ cmd.alone /\ lockfile' # lockfile => Missing' = {}]_vars

(* What a sync that linked every wheel has done when it returns, if pip    *)
(* left site-packages alone: every locked version is there, although       *)
(* packages were uninstalled after the links, and of the packages of fpm's *)
(* that are not locked no code is left (a dist-info directory may be).     *)
SyncMatches ==
  cmd.op = "sync" /\ cmd.todo = {} /\ cmd.gone = {} /\ cmd.alone /\ cmd.whole =>
    /\ Pinned(lockfile) \subseteq Present(site)
    /\ \A d \in Unlocked : site.code[d.name] = NoVersion
=============================================================================
