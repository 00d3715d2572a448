----------------------------- MODULE ShelfProofs -----------------------------
(***************************************************************************)
(* Theorems about Shelf (and Project under it), for every set of names,    *)
(* versions and branches.                                                  *)
(***************************************************************************)
EXTENDS Shelf, SitePackagesProofs

USE ProjectAssumption, ShelfAssumption

---------------------------------------------------------------------------
(* Types                                                                   *)

LEMMA NoCommandType ==
  /\ NoPins \in [Name -> Requirement]
  /\ NoCommand \in Command
  BY DEF NoPins, Requirement, NoCommand, Command

LEMMA PinsOfType ==
  ASSUME NEW D \in SUBSET Dist
  PROVE  PinsOf(D) \in Pins
<1>1. \A n \in NamesOf(D) : (CHOOSE d \in D : d.name = n) \in D
  BY DEF NamesOf
<1>2. \A n \in NamesOf(D) : (CHOOSE d \in D : d.name = n).ver \in Version
  BY <1>1 DEF Dist
<1> QED
  BY <1>2 DEF PinsOf, Pins

LEMMA NamesType ==
  ASSUME NEW D \in SUBSET Dist
  PROVE  NamesOf(D) \subseteq Name
  BY DEF NamesOf, Dist

LEMMA StatesForType ==
  ASSUME TypeOK, NEW b \in Branch
  PROVE  StatesFor(b) \subseteq BranchState
<1>1. saved[b] \in BranchState /\ FpmDists(site) \in SUBSET Dist
  BY DEF TypeOK, FpmDists
<1>2. saved[b].graph \in (SUBSET Name) \cup {NoFile} /\ saved[b].pkgs \in SUBSET Dist
  BY <1>1 DEF BranchState
<1>3. graph \in (SUBSET Name) \cup {NoFile}
  BY DEF TypeOK, ProjectTypeOK
<1> QED
  BY <1>1, <1>2, <1>3 DEF StatesFor, BranchState, Writes

(* Whatever becomes of the file with the branches.                         *)
LEMMA SaveMetaType ==
  ASSUME TypeOK, NEW branches \in SUBSET Branch, NEW current \in branches \cup {Main},
         SaveMeta(branches, current)
  PROVE  listed' \in SUBSET Branch /\ active' \in listed' \cup {Main}
  BY DEF SaveMeta, TypeOK

LEMMA GraphNamesType ==
  ASSUME ProjectTypeOK
  PROVE  GraphNames \in SUBSET Name
  BY DEF ProjectTypeOK, GraphNames

LEMMA MissingType ==
  Missing \in SUBSET Dist /\ Unlocked \in SUBSET Dist
  BY DEF Missing, Unlocked, Pinned, FpmDists

(* pip beside a command is on record, and without one changes nothing      *)
(* else.                                                                   *)
LEMMA PipRunsLeaves ==
  ASSUME NEW s, cmd \in Command, PipRuns(s)
  PROVE  /\ cmd' \in Command /\ cmd'.op = cmd.op
         /\ cmd'.op = "none" \/ ~cmd'.alone
<1>1. CASE Idle
  <2>1. cmd' = NoCommand /\ cmd = NoCommand
    BY <1>1 DEF PipRuns, Idle
  <2> QED
    BY <2>1 DEF NoCommand
<1>2. CASE ~Idle
  <2>1. cmd' = [cmd EXCEPT !.alone = FALSE]
    BY <1>2 DEF PipRuns
  <2> QED
    BY <2>1 DEF Command
<1> QED
  BY <1>1, <1>2

LEMMA PipRunsType ==
  ASSUME ProjectTypeOK, NEW s \in Site, PipRuns(s)
  PROVE  ProjectTypeOK' /\ cmd'.op = cmd.op
<1>1. cmd' \in Command /\ cmd'.op = cmd.op
  BY PipRunsLeaves DEF ProjectTypeOK
<1> QED
  BY <1>1 DEF ProjectTypeOK, PipRuns, Count

(* One step of a project's commands and neighbours keeps the types, and    *)
(* starts no switch.                                                       *)
LEMMA ProjectTypeStep ==
  ASSUME ProjectTypeOK, ProjectNext
  PROVE  ProjectTypeOK' /\ (cmd'.op = "switch" => cmd.op = "switch")
<1> DEFINE Goal == ProjectTypeOK' /\ (cmd'.op = "switch" => cmd.op = "switch")
<1> USE DEF ProjectTypeOK
<1>0. NoCommand.op = "none"
  BY DEF NoCommand
<1>1. ASSUME NEW req \in Requests, BeginInstall(req)
      PROVE  Goal
  <2>0. PICK pins \in Resolutions(req) : \E skipped \in Skippable(pins) :
          cmd' = [NoCommand EXCEPT !.op = "staged", !.args = req,
                    !.todo = {d \in Pinned(pins) : d.name \notin skipped}]
    BY <1>1 DEF BeginInstall
  <2>1. PICK skipped \in Skippable(pins) :
          cmd' = [NoCommand EXCEPT !.op = "staged", !.args = req,
                    !.todo = {d \in Pinned(pins) : d.name \notin skipped}]
    BY <2>0
  <2> DEFINE staged == {d \in Pinned(pins) : d.name \notin skipped}
  <2>2. staged \in SUBSET Dist /\ req \in [Name -> Requirement]
    BY DEF Pinned, Requirement
  <2> HIDE DEF staged
  <2>3. cmd' \in Command /\ cmd'.op = "staged"
    BY <2>1, <2>2 DEF NoCommand, Command, staged
  <2> QED
    BY <1>1, <2>3 DEF BeginInstall, Count
<1>2. CASE SwapStaged
  <2>1. site' \in Site
    BY <1>2, SwapType, MarkNamesType DEF SwapStaged, Command
  <2> QED
    BY <1>2, <2>1 DEF SwapStaged, Command
<1>3. ASSUME NEW done \in SUBSET Dist, NEW bad \in Dist, SwapStops(done, bad)
      PROVE  Goal
  BY <1>3, <1>0, SwapType, WithoutType, NoCommandType DEF SwapStops
<1>4. CASE RecordInstall
  <2>1. cmd.todo \in SUBSET Dist /\ cmd.args \in [Name -> Requirement]
    BY DEF Command
  <2>2. lockfile' \in Pins \cup {NoFile}
    BY <1>4, <2>1, PinsOfType DEF RecordInstall, WriteLock, LockOfInstall
  <2>3. graph' \in (SUBSET Name) \cup {NoFile}
    <3>1. NamesOf(cmd.todo) \subseteq Name
      BY <2>1, NamesType
    <3> QED
      BY <1>4, <3>1, GraphNamesType DEF RecordInstall, Writes
  <2>4. declared' \in [Name -> Requirement]
    BY <1>4, <2>1 DEF RecordInstall, WithRequested
  <2>5. journal' \in SUBSET (SUBSET Dist)
    BY <1>4, <2>1 DEF RecordInstall, Recorded
  <2> QED
    BY <1>4, <1>0, <2>2, <2>3, <2>4, <2>5, NoCommandType DEF RecordInstall
<1>5. ASSUME NEW n \in Name, NEW force, NEW dotted \in BOOLEAN,
             RemoveName(n, force, dotted)
      PROVE  Goal
  <2>1. site' \in Site
    BY <1>5, UninstallType DEF RemoveName
  <2>2. declared' \in [Name -> Requirement]
    BY <1>5 DEF RemoveName, Undeclared, Requirement
  <2>3. graph' \in (SUBSET Name) \cup {NoFile}
    BY <1>5, GraphNamesType DEF RemoveName, Writes
  <2> QED
    BY <1>5, <2>1, <2>2, <2>3 DEF RemoveName, Count
<1>6. CASE LockProject
  BY <1>6 DEF LockProject, Resolutions, WriteLock, Count
<1>7. CASE BeginSync
  <2>1. cmd' \in Command /\ cmd'.op = "sync"
    BY <1>7, MissingType, NoCommandType DEF BeginSync, NoCommand, Command
  <2> QED
    BY <1>7, <2>1 DEF BeginSync
<1>8. ASSUME NEW d \in Dist, SyncLink(d)
      PROVE  Goal
  <2>1. cmd' \in Command /\ cmd'.op = cmd.op
    BY <1>8 DEF SyncLink, Command
  <2> QED
    BY <1>8, <1>0, <2>1, LinkType DEF SyncLink
<1>9. ASSUME NEW d \in Dist, SyncSkip(d)
      PROVE  Goal
  <2>1. cmd' \in Command /\ cmd'.op = cmd.op
    BY <1>9 DEF SyncSkip, Command
  <2> QED
    BY <1>9, <1>0, <2>1 DEF SyncSkip
<1>10. ASSUME NEW d \in Dist, SyncRemove(d)
       PROVE  Goal
  <2>1. cmd' \in Command /\ cmd'.op = cmd.op
    BY <1>10 DEF SyncRemove, Command
  <2> QED
    BY <1>10, <1>0, <2>1, UninstallType DEF SyncRemove
<1>11. ASSUME NEW n \in Name, EditDeclared(n)
       PROVE  Goal
  BY <1>11 DEF EditDeclared, Count, Requirement
<1>12. ASSUME NEW d \in PipWheels, PipRuns(PipInstall(site, d))
       PROVE  Goal
  BY <1>12, PipInstallType, PipRunsType DEF ProjectAssumption
<1>13. ASSUME NEW n \in NamesOf(Present(site)), PipRuns(PipUninstall(site, n))
       PROVE  Goal
  BY <1>13, PipUninstallType, PipRunsType
<1>14. CASE Die
  BY <1>14, <1>0, NoCommandType DEF Die, Count
<1>15. CASE EndSync
  BY <1>15, <1>0, NoCommandType DEF EndSync
<1> HIDE DEF Goal, ProjectTypeOK
<1> QED
  BY <1>1, <1>2, <1>3, <1>4, <1>5, <1>6, <1>7, <1>8, <1>9, <1>10, <1>11, <1>12, <1>13,
     <1>14, <1>15 DEF ProjectNext, CommandNext, OtherNext, SyncNext, Goal

(* One step of the commands that put packages aside.                       *)
LEMMA ShelfTypeStep ==
  ASSUME TypeOK, [Next]_vars
  PROVE  TypeOK'
<1> USE DEF TypeOK
<1>0. NoCommand.op = "none" /\ (Idle => cmd.op = "none")
  BY DEF NoCommand, Idle
<1>1. CASE ProjectNext /\ UNCHANGED shelfVars
  BY <1>1, ProjectTypeStep DEF shelfVars
<1>2. CASE StashPush
  <2>1. stash' \in Seq(SUBSET Dist)
    <3>1. <<Unlocked>> \o stash \in Seq(SUBSET Dist)
      BY MissingType
    <3>2. \/ stash' = <<Unlocked>> \o stash
          \/ stash' = stash
          \/ stash' = <<>>
      BY <1>2 DEF StashPush, Writes
    <3>3. <<>> \in Seq(SUBSET Dist)
      OBVIOUS
    <3> QED
      BY <3>1, <3>2, <3>3
  <2>2. cmd' \in Command /\ cmd'.op = "stash"
    BY <1>2, MissingType, NoCommandType DEF StashPush, NoCommand, Command
  <2> QED
    BY <1>2, <2>1, <2>2 DEF StashPush, Count, ProjectTypeOK
<1>3. CASE StashTake
  <2>1. stash' = Tail(stash) \/ stash' = stash \/ stash' = <<>>
    BY <1>3 DEF StashTake, Writes
  <2>2. stash' \in Seq(SUBSET Dist)
    <3>1. <<>> \in Seq(SUBSET Dist) /\ Tail(stash) \in Seq(SUBSET Dist)
      BY <1>3 DEF StashTake
    <3> QED
      BY <2>1, <3>1
  <2> QED
    BY <1>3, <2>2 DEF StashTake, Count, ProjectTypeOK
<1>4. ASSUME NEW b \in Branch, BranchCreate(b)
      PROVE  TypeOK'
  <2>1. saved' \in [Branch -> BranchState]
    BY <1>4, StatesForType DEF BranchCreate
  <2>2. listed' \in SUBSET Branch /\ active' \in listed' \cup {Main}
    BY <1>4, SaveMetaType DEF BranchCreate
  <2> QED
    BY <1>0, <1>4, <2>1, <2>2 DEF BranchCreate, Count, ProjectTypeOK
<1>5. ASSUME NEW b \in Branch, BranchDelete(b)
      PROVE  TypeOK'
  <2>1. saved' \in [Branch -> BranchState]
    BY <1>5 DEF BranchDelete, NoState, BranchState
  <2>2. listed' \in SUBSET Branch /\ active' \in listed' \cup {Main}
    BY <1>5, SaveMetaType DEF BranchDelete
  <2> QED
    BY <1>0, <1>5, <2>1, <2>2 DEF BranchDelete, Count, ProjectTypeOK
<1>6. ASSUME NEW b \in Branch, BeginSwitch(b)
      PROVE  TypeOK'
  <2>1. saved[b] \in BranchState /\ active \in Branch
    BY <1>6 DEF BeginSwitch
  <2>2. graph' \in (SUBSET Name) \cup {NoFile}
    BY <1>6, <2>1 DEF BeginSwitch, ProjectTypeOK, BranchState, Writes
  <2>3. PICK state \in StatesFor(active) :
          /\ saved' = [saved EXCEPT ![active] = state]
          /\ cmd' = [NoCommand EXCEPT !.op = "switch", !.gone = FpmDists(site),
                                     !.whole = state.pkgs = FpmDists(site)]
    BY <1>6 DEF BeginSwitch
  <2>4. saved' \in [Branch -> BranchState]
    BY <2>1, <2>3, StatesForType
  <2>5. cmd' \in Command
    <3>1. FpmDists(site) \in SUBSET Dist
      BY DEF FpmDists
    <3> QED
      BY <2>3, <3>1, NoCommandType DEF NoCommand, Command
  <2> QED
    BY <1>6, <2>2, <2>4, <2>5 DEF BeginSwitch, Count, ProjectTypeOK
<1>7. CASE EndSwitch
  <2>1. listed' \in SUBSET Branch /\ active' \in listed' \cup {Main}
    BY <1>7, SaveMetaType DEF EndSwitch
  <2> QED
    BY <1>7, <1>0, <2>1, NoCommandType DEF EndSwitch, ProjectTypeOK
<1>8. ASSUME NEW pkgs \in journal, BeginRevert(pkgs)
      PROVE  TypeOK'
  <2>1. cmd' \in Command /\ cmd'.op = "revert"
    BY <1>8, NoCommandType DEF BeginRevert, NoCommand, Command, ProjectTypeOK
  <2> QED
    BY <1>8, <2>1 DEF BeginRevert, shelfVars, Count, ProjectTypeOK
<1>9. ASSUME NEW d \in Dist, PutAside(d)
      PROVE  TypeOK'
  <2>1. cmd' \in Command /\ (cmd' = NoCommand \/ cmd'.op = cmd.op)
    BY <1>9, NoCommandType DEF PutAside, Command, ProjectTypeOK
  <2> QED
    BY <1>9, <1>0, <2>1, UninstallType DEF PutAside, shelfVars, ProjectTypeOK
<1>10. CASE UNCHANGED vars
  BY <1>10 DEF vars, projectVars, shelfVars, ProjectTypeOK
<1> HIDE DEF TypeOK
<1> QED
  BY <1>1, <1>2, <1>3, <1>4, <1>5, <1>6, <1>7, <1>8, <1>9, <1>10 DEF Next, ShelfNext

(* Every step of every command, of pip and of the person keeps the types:  *)
(* in particular the active branch and the one a switch goes to exist,     *)
(* although branches are deleted and the file that lists them may be lost  *)
(* (branch.go: create, delete, switch).                                    *)
THEOREM ShelfTypeCorrect == Spec => []TypeOK
<1>1. Init => TypeOK
  BY EmptySiteType, NoCommandType
     DEF Init, ProjectInit, TypeOK, ProjectTypeOK, NoCommand, NoPins, NoState,
         BranchState
<1> QED
  BY <1>1, ShelfTypeStep, PTL DEF Spec

---------------------------------------------------------------------------
(* What a command has left to uninstall                                    *)

(* For everything in D fpm has a directory of the same name, a different   *)
(* one for each.                                                           *)
Backed(D, s) ==
  \E f \in [D -> FpmDists(s)] : /\ \A d \in D : f[d].name = d.name
                                /\ \A d, e \in D : f[d] = f[e] => d = e

LEMMA BackedByItself ==
  ASSUME NEW s, NEW D \in SUBSET FpmDists(s)
  PROVE  Backed(D, s)
<1> DEFINE f == [d \in D |-> d]
<1>1. f \in [D -> FpmDists(s)] /\ \A d \in D : f[d] = d
  OBVIOUS
<1> QED
  BY <1>1 DEF Backed

LEMMA BackedByMore ==
  ASSUME NEW s, NEW t, NEW D, Backed(D, s), FpmDists(s) \subseteq FpmDists(t)
  PROVE  Backed(D, t)
<1>1. PICK f \in [D -> FpmDists(s)] : /\ \A d \in D : f[d].name = d.name
                                      /\ \A d, e \in D : f[d] = f[e] => d = e
  BY DEF Backed
<1>2. f \in [D -> FpmDists(t)]
  BY <1>1
<1> QED
  BY <1>1, <1>2 DEF Backed

(* One directory of a name goes, and one package of that name is done.     *)
LEMMA BackedByRest ==
  ASSUME NEW s \in Site, NEW D, Backed(D, s), NEW d \in D,
         NEW m \in Dist, m.name = d.name, NEW N
  PROVE  Backed(D \ {d}, Without(s, {m}, N))
<1> DEFINE t == Without(s, {m}, N)
           E == D \ {d}
<1>1. PICK f \in [D -> FpmDists(s)] : /\ \A x \in D : f[x].name = x.name
                                      /\ \A x, y \in D : f[x] = f[y] => x = y
  BY DEF Backed
<1>2. FpmDists(t) = FpmDists(s) \ {m}
  BY WithoutPresent
<1> HIDE DEF t
<1> DEFINE g == [x \in E |-> IF f[x] = m THEN f[d] ELSE f[x]]
<1>3. \A x \in E : /\ g[x] \in FpmDists(s) \ {m}
                   /\ g[x].name = x.name
  BY <1>1
<1>4. \A x, y \in E : g[x] = g[y] => x = y
  BY <1>1
<1>5. g \in [E -> FpmDists(t)]
  BY <1>2, <1>3
<1> QED
  BY <1>3, <1>4, <1>5 DEF Backed, t

(* A package of a command's list is uninstalled: the directory that goes   *)
(* has its name and is not another manager's, and the rest is backed.      *)
LEMMA UninstallsListed ==
  ASSUME SortedListing, NEW s \in Site, FpmBeforePip(s),
         NEW D, Backed(D, s), NEW d \in D
  PROVE  \E m \in Of(s, d.name) :
           /\ s.mark[m] # "pip"
           /\ Uninstall(s, d.name, FALSE) = Without(s, {m}, {d.name})
           /\ Present(Uninstall(s, d.name, FALSE)) = Present(s) \ {m}
           /\ FpmDists(Uninstall(s, d.name, FALSE)) = FpmDists(s) \ {m}
           /\ Backed(D \ {d}, Uninstall(s, d.name, FALSE))
<1>1. PICK b \in FpmDists(s) : b.name = d.name
  BY DEF Backed
<1>2. PICK m \in Of(s, b.name) : /\ s.mark[m] # "pip"
                                 /\ CanUninstall(s, b.name, FALSE)
                                 /\ Uninstall(s, b.name, FALSE) =
                                      Without(s, {m}, {b.name})
  BY UninstallsOwn
<1>3. m \in Dist /\ m.name = d.name /\ m \in Of(s, d.name)
  BY <1>1, <1>2 DEF Of, Present
<1>4. Backed(D \ {d}, Without(s, {m}, {d.name}))
  BY <1>3, BackedByRest
<1>5. Uninstall(s, d.name, FALSE) = Without(s, {m}, {d.name})
  BY <1>1, <1>2
<1>6. /\ Present(Without(s, {m}, {d.name})) = Present(s) \ {m}
      /\ FpmDists(Without(s, {m}, {d.name})) = FpmDists(s) \ {m}
  BY WithoutPresent
<1> QED
  BY <1>2, <1>3, <1>4, <1>5, <1>6

---------------------------------------------------------------------------
(* The invariant                                                           *)

(* A sync has its wheels from the lock file and uninstalls no locked name; *)
(* what it has not linked it still has to link, unless it skipped a wheel; *)
(* what it has to uninstall is in its list or has lost its code.           *)
SyncInv ==
  /\ lockfile # NoFile
  /\ cmd.todo \subseteq Pinned(lockfile)
  /\ NamesOf(cmd.gone) \cap Named(lockfile) = {}
  /\ cmd.whole => Pinned(lockfile) \subseteq Present(site) \cup cmd.todo
  /\ \A d \in Unlocked : d.name \in NamesOf(cmd.gone) \/ site.code[d.name] = NoVersion

(* Of a command that pip left alone: it has fpm's packages in its list,    *)
(* and everything of fpm's that it may reach is in the list it wrote.      *)
ListInv ==
  /\ cmd.op \in {"sync", "stash", "switch"} => Backed(cmd.gone, site)
  /\ cmd.op = "sync" => SyncInv
  /\ cmd.op = "stash" /\ cmd.whole =>
       \A e \in FpmDists(site) : e.name \in NamesOf(cmd.gone) => e \in Head(stash)
  /\ cmd.op = "switch" /\ cmd.whole => FpmDists(site) \subseteq saved[active].pkgs

(* What is marked fpm comes before other managers' directories of its      *)
(* name.                                                                   *)
ShelfInv ==
  /\ TypeOK
  /\ FpmBeforePip(site)
  /\ cmd.alone => ListInv

(* The steps after which no list is being worked off, or pip has been at   *)
(* work.                                                                   *)
LEMMA QuietStep ==
  ASSUME TypeOK', FpmBeforePip(site'),
         cmd'.op \in {"none", "staged", "swapped", "revert"} \/ ~cmd'.alone
  PROVE  ShelfInv'
  BY DEF ShelfInv, ListInv

(* The wheels of an install are all there when they are in place.          *)
LEMMA SwapInPlace ==
  ASSUME ProjectTypeOK, SwapStaged
  PROVE  /\ cmd.todo \subseteq Present(site')
         /\ SortedListing /\ FpmBeforePip(site) => FpmBeforePip(site')
<1> DEFINE t == Swap(site, cmd.todo)
           N == NamesOf(cmd.todo)
<1>1. cmd.todo \in SUBSET Dist /\ site \in Site /\ site' = MarkNames(t, N)
  BY DEF ProjectTypeOK, Command, SwapStaged
<1>2. t \in Site /\ Present(t) = Present(site) \cup cmd.todo
  BY <1>1, SwapType, SwapPresent
<1>3. Present(site') = Present(t)
  BY <1>1, <1>2, MarkNamesPresent
<1>4. \A n \in N : Of(t, n) # {}
  BY <1>2 DEF NamesOf, Of
<1>5. N \in SUBSET Name
  BY <1>1, NamesType
<1>6. FpmBeforePip(site) => FpmBeforePip(t)
  BY <1>1, SwapKeepsOrder
<1> HIDE DEF t, N
<1> QED
  BY <1>1, <1>2, <1>3, <1>4, <1>5, <1>6, MarkKeepsOrder

(* What was swapped in is there until it is recorded, or pip takes it.     *)
SwappedInv ==
  /\ TypeOK
  /\ cmd.op = "swapped" /\ cmd.alone => cmd.todo \subseteq Present(site)

LEMMA SwappedInvHolds == Spec => []SwappedInv
<1>1. Init => SwappedInv
  BY EmptySiteType, NoCommandType
     DEF Init, ProjectInit, TypeOK, ProjectTypeOK, NoCommand, NoPins, NoState,
         BranchState, SwappedInv
<1>2. ASSUME SwappedInv, [Next]_vars
      PROVE  SwappedInv'
  <2>0. TypeOK /\ TypeOK' /\ ProjectTypeOK /\ cmd \in Command
    BY <1>2, ShelfTypeStep DEF SwappedInv, TypeOK, ProjectTypeOK
  <2>1. CASE SwapStaged
    <3>1. cmd'.todo = cmd.todo
      BY <2>0, <2>1 DEF SwapStaged, Command
    <3> QED
      BY <2>0, <2>1, <3>1, SwapInPlace DEF SwappedInv
  <2>2. CASE UNCHANGED vars
    BY <1>2, <2>2 DEF vars, projectVars, shelfVars, SwappedInv, TypeOK, ProjectTypeOK,
       Present
  <2>3. CASE cmd'.op # "swapped" \/ ~cmd'.alone
    BY <2>0, <2>3 DEF SwappedInv
  <2>4. NoCommand.op = "none"
    BY DEF NoCommand
  <2>5. CASE ProjectNext /\ UNCHANGED shelfVars
    <3>1. CASE CommandNext
      BY <3>1, <2>0, <2>1, <2>3, <2>4
         DEF CommandNext, SyncNext, BeginInstall, SwapStops, RecordInstall, RemoveName,
             LockProject, BeginSync, SyncLink, SyncSkip, SyncRemove, EndSync, Command,
             Idle, NoCommand
    <3>2. CASE OtherNext
      <4>1. ASSUME NEW s, PipRuns(s)
            PROVE  cmd'.op # "swapped" \/ ~cmd'.alone
        BY <2>0, <4>1, PipRunsLeaves
      <4> QED
        BY <3>2, <2>3, <2>4, <4>1 DEF OtherNext, EditDeclared, Die, Idle
    <3> QED
      BY <2>5, <3>1, <3>2 DEF ProjectNext
  <2>6. CASE ShelfNext
    BY <2>6, <2>0, <2>3, <2>4
       DEF ShelfNext, StashPush, StashTake, BranchCreate, BranchDelete, BeginSwitch,
           EndSwitch, BeginRevert, PutAside, Idle, NoCommand, Command
  <2> QED
    BY <1>2, <2>2, <2>5, <2>6 DEF Next
<1> QED
  BY <1>1, <1>2, PTL DEF Spec

(* Every step keeps the order of the directories.                          *)
LEMMA OrderStep ==
  ASSUME SortedListing, TypeOK, FpmBeforePip(site), [Next]_vars
  PROVE  FpmBeforePip(site')
<1>0. site \in Site /\ cmd \in Command /\ ProjectTypeOK
  BY DEF TypeOK, ProjectTypeOK
<1>1. CASE site' = site
  BY <1>1
<1>2. CASE SwapStaged
  BY <1>0, <1>2, SwapInPlace
<1>3. ASSUME NEW done \in SUBSET Dist, NEW bad \in Dist, SwapStops(done, bad)
      PROVE  FpmBeforePip(site')
  BY <1>0, <1>3, SwapType, SwapKeepsOrder, WithoutKeepsOrder DEF SwapStops
<1>4. ASSUME NEW n, NEW force, site' = Uninstall(site, n, force)
      PROVE  FpmBeforePip(site')
  BY <1>0, <1>4, UninstallKeepsOrder
<1>5. ASSUME NEW d \in Dist, SyncLink(d)
      PROVE  FpmBeforePip(site')
  BY <1>0, <1>5, LinkKeepsOrder DEF SyncLink
<1>6. ASSUME NEW d \in PipWheels, site' = PipInstall(site, d)
      PROVE  FpmBeforePip(site')
  BY <1>0, <1>6, PipInstallKeepsOrder
<1>7. ASSUME NEW n, site' = PipUninstall(site, n)
      PROVE  FpmBeforePip(site')
  BY <1>0, <1>7, WithoutKeepsOrder DEF PipUninstall
<1>8. CASE ProjectNext
  <2>1. CASE CommandNext
    BY <2>1, <1>1, <1>2, <1>3, <1>4, <1>5
       DEF CommandNext, SyncNext, BeginInstall, RecordInstall, RemoveName, LockProject,
           BeginSync, SyncSkip, SyncRemove, EndSync
  <2>2. CASE OtherNext
    BY <2>2, <1>1, <1>6, <1>7 DEF OtherNext, EditDeclared, PipRuns, Die
  <2> QED
    BY <1>8, <2>1, <2>2 DEF ProjectNext
<1>9. CASE ShelfNext
  BY <1>9, <1>1, <1>4
     DEF ShelfNext, StashPush, StashTake, BranchCreate, BranchDelete, BeginSwitch,
         EndSwitch, BeginRevert, PutAside
<1> QED
  BY <1>1, <1>8, <1>9 DEF Next, vars, projectVars

LEMMA WithoutCode ==
  ASSUME NEW s \in Site, NEW D, NEW N, NEW n \in Name
  PROVE  /\ n \in N => Without(s, D, N).code[n] = NoVersion
         /\ n \notin N => Without(s, D, N).code[n] = s.code[n]
  BY DEF Without

(* What a sync or a command that puts aside takes with one package.        *)
LEMMA ListedRemoval ==
  ASSUME SortedListing, ShelfInv, cmd.alone, cmd.op \in {"sync", "stash", "switch"},
         NEW d \in cmd.gone, site' = Uninstall(site, d.name, FALSE)
  PROVE  /\ Backed(cmd.gone \ {d}, site')
         /\ FpmDists(site') \subseteq FpmDists(site)
         /\ \A n \in Name : site'.code[n] = IF n = d.name THEN NoVersion
                                          ELSE site.code[n]
         /\ \E m \in Of(site, d.name) : /\ site.mark[m] # "pip"
                                       /\ Present(site') = Present(site) \ {m}
                                       /\ Present(site) \ Present(site') = {m}
<1>1. site \in Site /\ FpmBeforePip(site) /\ Backed(cmd.gone, site)
  BY DEF ShelfInv, ListInv, TypeOK, ProjectTypeOK
<1>2. PICK m \in Of(site, d.name) :
        /\ site.mark[m] # "pip"
        /\ Uninstall(site, d.name, FALSE) = Without(site, {m}, {d.name})
        /\ Present(Uninstall(site, d.name, FALSE)) = Present(site) \ {m}
        /\ FpmDists(Uninstall(site, d.name, FALSE)) = FpmDists(site) \ {m}
        /\ Backed(cmd.gone \ {d}, Uninstall(site, d.name, FALSE))
  BY <1>1, UninstallsListed
<1>3. m \in Present(site)
  BY DEF Of
<1>4. /\ Present(site') = Present(site) \ {m}
      /\ FpmDists(site') = FpmDists(site) \ {m}
      /\ Backed(cmd.gone \ {d}, site')
  BY <1>2
<1>5. Present(site) \ Present(site') = {m}
  BY <1>3, <1>4
<1>6. \A n \in Name : site'.code[n] = IF n = d.name THEN NoVersion ELSE site.code[n]
  <2> SUFFICES ASSUME NEW n \in Name
               PROVE  site'.code[n] = IF n = d.name THEN NoVersion ELSE site.code[n]
    OBVIOUS
  <2>1. site' = Without(site, {m}, {d.name})
    BY <1>2
  <2>2. CASE n = d.name
    <3>1. Without(site, {m}, {d.name}).code[n] = NoVersion
      BY <2>2 DEF Without
    <3> QED
      BY <2>1, <2>2, <3>1
  <2>3. CASE n # d.name
    <3>1. Without(site, {m}, {d.name}).code[n] = site.code[n]
      BY <1>1, <2>3, WithoutCode
    <3> QED
      BY <2>1, <2>3, <3>1
  <2> QED
    BY <2>2, <2>3
<1> QED
  BY <1>2, <1>4, <1>5, <1>6

(* What is pinned is locked.                                               *)
LEMMA PinnedIsNamed ==
  ASSUME NEW pins, NEW d \in Pinned(pins)
  PROVE  d \in Dist /\ d.name \in Named(pins)
  BY SiteAssumption DEF SiteAssumption, Pinned, Named, Dist

(* Every step of a sync that pip leaves alone.                             *)
LEMMA SyncInvStep ==
  ASSUME SortedListing, ShelfInv, SyncNext, cmd'.op = "sync", cmd'.alone
  PROVE  /\ Backed(cmd'.gone, site')
         /\ SyncInv'
<1>0. site \in Site /\ cmd \in Command /\ TypeOK
  BY DEF ShelfInv, TypeOK, ProjectTypeOK
<1>1. CASE BeginSync
  <2>1. /\ cmd'.op = "sync" /\ cmd'.gone = Unlocked /\ cmd'.todo = Missing
        /\ UNCHANGED <<site, lockfile>>
    BY <1>1 DEF BeginSync, NoCommand
  <2>2. Backed(cmd'.gone, site')
    BY <2>1, BackedByItself DEF Unlocked
  <2>3. NamesOf(Unlocked) \cap Named(lockfile) = {}
    BY DEF NamesOf, Unlocked
  <2>4. /\ Missing \subseteq Pinned(lockfile)
        /\ Pinned(lockfile) \subseteq Present(site) \cup Missing
        /\ \A d \in Unlocked : d.name \in NamesOf(Unlocked)
    BY DEF Missing, NamesOf
  <2> QED
    BY <1>1, <2>1, <2>2, <2>3, <2>4 DEF SyncInv, Unlocked, BeginSync
<1>2. CASE cmd.op = "sync" /\ cmd.alone
  <2>0. SyncInv /\ Backed(cmd.gone, site)
    BY <1>2 DEF ShelfInv, ListInv
  <2>1. ASSUME NEW d \in Dist, SyncLink(d)
        PROVE  Backed(cmd'.gone, site') /\ SyncInv'
    <3>1. /\ cmd'.gone = cmd.gone /\ cmd'.todo = cmd.todo \ {d} /\ cmd'.whole = cmd.whole
          /\ d \in cmd.todo /\ site' = Link(site, d) /\ lockfile' = lockfile
      BY <1>0, <2>1 DEF SyncLink, Command
    <3>2. Present(site') = Present(site) \cup {d} /\ FpmDists(site') = FpmDists(site)
      BY <1>0, <3>1, LinkPresent
    <3>3. Backed(cmd'.gone, site')
      BY <2>0, <3>1, <3>2, BackedByMore
    <3>4. d.name \in Named(lockfile)
      BY <2>0, <3>1, PinnedIsNamed DEF SyncInv
    <3>5. \A n \in Name : n # d.name => site'.code[n] = site.code[n]
      <4>1. site.code \in [Name -> Version \cup {NoVersion}]
        BY <1>0, MarkOfSite
      <4>2. site'.code = [site.code EXCEPT ![d.name] = d.ver]
        BY <3>1 DEF Link
      <4> QED
        BY <4>1, <4>2
    <3>6. Unlocked' = Unlocked /\ \A e \in Unlocked : e.name \in Name /\ e.name # d.name
      BY <3>1, <3>2, <3>4 DEF Unlocked, FpmDists, Dist
    <3> QED
      BY <2>0, <3>1, <3>2, <3>3, <3>5, <3>6 DEF SyncInv
  <2>2. ASSUME NEW d \in Dist, SyncSkip(d)
        PROVE  Backed(cmd'.gone, site') /\ SyncInv'
    <3>1. /\ cmd'.gone = cmd.gone /\ cmd'.todo = cmd.todo \ {d} /\ ~cmd'.whole
          /\ site' = site /\ lockfile' = lockfile
      BY <1>0, <2>2 DEF SyncSkip, Command
    <3>2. Unlocked' = Unlocked
      BY <3>1 DEF Unlocked
    <3> QED
      BY <2>0, <3>1, <3>2 DEF SyncInv
  <2>3. ASSUME NEW d \in Dist, SyncRemove(d)
        PROVE  Backed(cmd'.gone, site') /\ SyncInv'
    <3>1. /\ cmd'.gone = cmd.gone \ {d} /\ cmd'.todo = cmd.todo /\ cmd'.whole = cmd.whole
          /\ d \in cmd.gone /\ site' = Uninstall(site, d.name, FALSE)
          /\ lockfile' = lockfile /\ cmd.todo = {}
      BY <1>0, <2>3 DEF SyncRemove, Command
    <3>2. /\ Backed(cmd.gone \ {d}, site') /\ FpmDists(site') \subseteq FpmDists(site)
          /\ \A n \in Name : site'.code[n] = IF n = d.name THEN NoVersion
                                           ELSE site.code[n]
      BY <1>2, <3>1, ListedRemoval
    <3>3. PICK m \in Of(site, d.name) : Present(site') = Present(site) \ {m}
      BY <1>2, <3>1, ListedRemoval
    <3>4. m \notin Pinned(lockfile)
      <4>1. m.name = d.name /\ d.name \in NamesOf(cmd.gone)
        BY <3>1 DEF Of, NamesOf
      <4> QED
        BY <2>0, <4>1, PinnedIsNamed DEF SyncInv
    <3>5. \A e \in Unlocked' : \/ e.name \in NamesOf(cmd'.gone)
                             \/ site'.code[e.name] = NoVersion
      <4> SUFFICES ASSUME NEW e \in Unlocked', e.name \notin NamesOf(cmd'.gone)
                   PROVE  site'.code[e.name] = NoVersion
        OBVIOUS
      <4>1. e \in Unlocked /\ e.name \in Name
        BY <3>1, <3>2 DEF Unlocked, FpmDists, Dist
      <4>3. CASE e.name = d.name
        BY <3>2, <4>1, <4>3
      <4>4. CASE e.name # d.name
        <5>1. e.name \notin NamesOf(cmd.gone)
          BY <3>1, <4>4 DEF NamesOf
        <5>2. site.code[e.name] = NoVersion
          BY <2>0, <4>1, <5>1 DEF SyncInv
        <5> QED
          BY <3>2, <4>1, <4>4, <5>2
      <4> QED
        BY <4>3, <4>4
    <3>6. NamesOf(cmd'.gone) \subseteq NamesOf(cmd.gone)
      BY <3>1 DEF NamesOf
    <3> QED
      BY <2>0, <3>1, <3>2, <3>3, <3>4, <3>5, <3>6 DEF SyncInv
  <2>4. CASE EndSync
    BY <2>4, <1>0 DEF EndSync, NoCommand
  <2> QED
    BY <1>1, <2>1, <2>2, <2>3, <2>4 DEF SyncNext
<1>3. CASE ~BeginSync
  <2>1. PICK d \in Dist : SyncLink(d) \/ SyncSkip(d) \/ SyncRemove(d)
    BY <1>3 DEF SyncNext, EndSync, NoCommand
  <2>2. cmd.op = "sync" /\ cmd.alone
    BY <1>0, <2>1 DEF SyncLink, SyncSkip, SyncRemove, Command
  <2> QED
    BY <1>2, <2>2
<1> QED
  BY <1>1, <1>3

LEMMA ShelfInvStep ==
  ASSUME SortedListing, ShelfInv, [Next]_vars
  PROVE  ShelfInv'
<1>0. /\ TypeOK /\ TypeOK' /\ FpmBeforePip(site') /\ NoCommand.op = "none"
      /\ site \in Site /\ cmd \in Command /\ ProjectTypeOK
  BY ShelfTypeStep, OrderStep DEF ShelfInv, TypeOK, ProjectTypeOK, NoCommand
<1>1. CASE cmd'.op \in {"none", "staged", "swapped", "revert"} \/ ~cmd'.alone
  BY <1>0, <1>1, QuietStep
<1>2. CASE UNCHANGED vars
  <2>1. Unlocked' = Unlocked
    BY <1>2 DEF vars, projectVars, Unlocked
  <2> QED
    BY <1>0, <1>2, <2>1 DEF vars, projectVars, shelfVars, ShelfInv, ListInv, SyncInv
<1>3. CASE SwapStaged /\ UNCHANGED shelfVars
  <2>1. cmd'.op = "swapped"
    BY <1>0, <1>3 DEF SwapStaged, Command
  <2> QED
    BY <1>1, <2>1
<1>4. CASE SyncNext
  <2>1. cmd'.op \in {"none", "sync"}
    BY <1>0, <1>4
       DEF SyncNext, BeginSync, SyncLink, SyncSkip, SyncRemove, EndSync, Command, NoCommand
  <2>2. CASE cmd'.op = "sync" /\ cmd'.alone
    BY <1>0, <1>4, <2>2, SyncInvStep DEF ShelfInv, ListInv
  <2> QED
    BY <1>1, <2>1, <2>2
<1>5. CASE StashPush
  <2>1. /\ cmd'.op = "stash" /\ cmd'.gone = Unlocked /\ site' = site
        /\ cmd'.whole => stash' = <<Unlocked>> \o stash
    BY <1>5 DEF StashPush, NoCommand
  <2>2. Backed(Unlocked, site)
    BY BackedByItself DEF Unlocked
  <2>3. cmd'.whole => Head(stash') = Unlocked
    BY <1>0, <2>1 DEF TypeOK
  <2>4. \A e \in FpmDists(site) : e.name \in NamesOf(Unlocked) => e \in Unlocked
    BY DEF NamesOf, Unlocked
  <2> QED
    BY <1>0, <2>1, <2>2, <2>3, <2>4 DEF ShelfInv, ListInv
<1>6. ASSUME NEW b \in Branch, BeginSwitch(b)
      PROVE  ShelfInv'
  <2>1. PICK state \in StatesFor(active) :
          /\ saved' = [saved EXCEPT ![active] = state]
          /\ cmd' = [NoCommand EXCEPT !.op = "switch", !.gone = FpmDists(site),
                                     !.whole = state.pkgs = FpmDists(site)]
    BY <1>6 DEF BeginSwitch
  <2>2. /\ cmd'.op = "switch" /\ cmd'.gone = FpmDists(site) /\ site' = site
        /\ active' = active
        /\ cmd'.whole => saved'[active].pkgs = FpmDists(site)
    <3>1. saved'[active] = state
      BY <1>0, <2>1 DEF TypeOK
    <3>2. cmd'.whole <=> state.pkgs = FpmDists(site)
      BY <2>1 DEF NoCommand
    <3>3. cmd'.op = "switch" /\ cmd'.gone = FpmDists(site)
      BY <2>1 DEF NoCommand
    <3> QED
      BY <1>6, <3>1, <3>2, <3>3 DEF BeginSwitch
  <2>3. Backed(FpmDists(site), site)
    BY BackedByItself
  <2> QED
    BY <1>0, <2>2, <2>3 DEF ShelfInv, ListInv
<1>7. ASSUME NEW d \in Dist, PutAside(d), cmd' # NoCommand, cmd.op # "revert", cmd'.alone
      PROVE  ShelfInv'
  <2>1. /\ cmd'.op = cmd.op /\ cmd'.gone = cmd.gone \ {d} /\ cmd'.whole = cmd.whole
        /\ cmd.op \in {"stash", "switch"} /\ d \in cmd.gone /\ cmd.alone
        /\ UNCHANGED <<stash, saved, active>>
    BY <1>0, <1>7 DEF PutAside, Command, shelfVars
  <2>2. Backed(cmd.gone \ {d}, site') /\ FpmDists(site') \subseteq FpmDists(site)
    BY <1>7, <2>1, ListedRemoval DEF PutAside
  <2>3. NamesOf(cmd.gone \ {d}) \subseteq NamesOf(cmd.gone)
    BY DEF NamesOf
  <2> QED
    BY <1>0, <2>1, <2>2, <2>3 DEF ShelfInv, ListInv
<1>8. CASE Next
  <2>1. CASE ProjectNext /\ UNCHANGED shelfVars
    <3>1. CASE CommandNext
      BY <2>1, <3>1, <1>0, <1>1, <1>3, <1>4
         DEF CommandNext, BeginInstall, SwapStops, RecordInstall, RemoveName, LockProject,
             Idle, NoCommand
    <3>2. CASE OtherNext
      <4>1. ASSUME NEW s, PipRuns(s)
            PROVE  cmd'.op = "none" \/ ~cmd'.alone
        BY <1>0, <4>1, PipRunsLeaves
      <4> QED
        BY <3>2, <1>0, <1>1, <4>1 DEF OtherNext, EditDeclared, Die, Idle
    <3> QED
      BY <2>1, <3>1, <3>2 DEF ProjectNext
  <2>2. CASE ShelfNext
    <3>1. \A pkgs \in journal : BeginRevert(pkgs) => cmd'.op = "revert"
      BY DEF BeginRevert, NoCommand
    <3>2. \A d \in Dist : PutAside(d) /\ cmd.op = "revert" =>
            cmd' = NoCommand \/ cmd'.op = "revert"
      BY <1>0 DEF PutAside, Command
    <3>3. ASSUME NEW d \in Dist, PutAside(d)
          PROVE  ShelfInv'
      BY <1>0, <1>1, <1>7, <3>2, <3>3
    <3>4. ASSUME StashTake \/ EndSwitch \/ \E b \in Branch : BranchCreate(b) \/ BranchDelete(b)
          PROVE  cmd'.op = "none"
      BY <1>0, <3>4 DEF StashTake, BranchCreate, BranchDelete, EndSwitch, Idle
    <3> QED
      BY <2>2, <3>1, <3>3, <3>4, <1>1, <1>5, <1>6 DEF ShelfNext
  <2> QED
    BY <1>8, <2>1, <2>2 DEF Next
<1> QED
  BY <1>2, <1>8

LEMMA ShelfInvHolds ==
  ASSUME SortedListing
  PROVE  Spec => []ShelfInv
<1>1. Init => ShelfInv
  <2> SUFFICES ASSUME Init PROVE ShelfInv
    OBVIOUS
  <2>1. site = EmptySite /\ cmd.op = "none"
    BY DEF Init, ProjectInit, NoCommand
  <2>2. FpmBeforePip(EmptySite)
    BY DEF FpmBeforePip, EmptySite
  <2>3. TypeOK
    BY EmptySiteType, NoCommandType
       DEF Init, ProjectInit, TypeOK, ProjectTypeOK, NoCommand, NoPins, NoState,
           BranchState
  <2> QED
    BY <2>1, <2>2, <2>3 DEF ShelfInv, ListInv
<1> QED
  BY <1>1, ShelfInvStep, PTL DEF Spec

---------------------------------------------------------------------------
(* Theorems                                                                *)

(* Whatever sequence of commands, deaths, syncs and pip runs led there,    *)
(* what fpm marked as its own it can uninstall (uninstallPackage, the      *)
(* marking loop of runInstall), in a sorted listing.                       *)
THEOREM SortedRemovable ==
  ASSUME SortedListing
  PROVE  Spec => []FpmRemovable
<1>1. ShelfInv => FpmRemovable
  <2> SUFFICES ASSUME ShelfInv, NEW d \in FpmDists(site)
               PROVE  CanUninstall(site, d.name, FALSE)
    BY DEF FpmRemovable
  <2>1. site \in Site /\ FpmBeforePip(site)
    BY DEF ShelfInv, TypeOK, ProjectTypeOK
  <2> QED
    BY <2>1, UninstallsOwn
<1> QED
  BY <1>1, ShelfInvHolds, PTL

(* A step of a command that works off a list takes nothing, or one         *)
(* directory of a name in the list, and none of another manager.           *)
LEMMA TakesListed ==
  ASSUME SortedListing, ShelfInv, Next, cmd.op \in {"sync", "stash", "switch"},
         cmd.alone, cmd'.alone
  PROVE  \A e \in Taken : e.name \in NamesOf(cmd.gone) /\ site.mark[e] # "pip"
<1>0. site \in Site /\ cmd \in Command
  BY DEF ShelfInv, TypeOK, ProjectTypeOK
<1>1. CASE site' = site
  BY <1>1 DEF Taken
<1>2. ASSUME NEW d \in Dist, SyncLink(d)
      PROVE  Taken = {}
  BY <1>0, <1>2, LinkPresent DEF SyncLink, Taken
<1>3. ASSUME NEW d \in cmd.gone, site' = Uninstall(site, d.name, FALSE)
      PROVE  \A e \in Taken : e.name \in NamesOf(cmd.gone) /\ site.mark[e] # "pip"
  <2>1. PICK m \in Of(site, d.name) :
          site.mark[m] # "pip" /\ Present(site) \ Present(site') = {m}
    BY <1>3, ListedRemoval
  <2>2. m.name \in NamesOf(cmd.gone)
    BY DEF Of, NamesOf
  <2> QED
    BY <2>1, <2>2 DEF Taken
<1>4. NoCommand.op = "none"
  BY DEF NoCommand
<1>5. CASE ProjectNext /\ UNCHANGED shelfVars
  <2>1. CASE CommandNext
    BY <2>1, <1>1, <1>2, <1>3, <1>4
       DEF CommandNext, SyncNext, BeginInstall, SwapStaged, SwapStops, RecordInstall,
           RemoveName, LockProject, BeginSync, SyncSkip, SyncRemove, EndSync, Idle
  <2>2. CASE OtherNext
    <3>1. ~Idle
      BY <1>4 DEF Idle
    <3>2. ASSUME NEW s, PipRuns(s)
          PROVE  FALSE
      BY <1>0, <3>1, <3>2 DEF PipRuns, Command
    <3> QED
      BY <2>2, <1>1, <3>1, <3>2 DEF OtherNext, EditDeclared, Die
  <2> QED
    BY <1>5, <2>1, <2>2 DEF ProjectNext
<1>6. CASE ShelfNext
  BY <1>6, <1>1, <1>3
     DEF ShelfNext, StashPush, StashTake, BranchCreate, BranchDelete, BeginSwitch,
         EndSwitch, BeginRevert, PutAside
<1> QED
  BY <1>5, <1>6 DEF Next

(* sync, stash and switch, which uninstall by name what a scan listed      *)
(* before, never reach a package whose name only begins like one of theirs *)
(* nor another manager's, although the lookup compares prefixes, as long   *)
(* as pip leaves site-packages alone (StaleUninstallTakesForeign: else).   *)
THEOREM SortedTakesOwn ==
  ASSUME SortedListing
  PROVE  Spec => TakesOwn
<1> DEFINE Own == cmd.op \in {"sync", "stash", "switch"} /\ cmd.alone /\ cmd'.alone =>
                    \A e \in Taken : e.name \in NamesOf(cmd.gone) /\ site.mark[e] # "pip"
<1>1. ShelfInv /\ [Next]_vars => [Own]_vars
  BY TakesListed
<1> QED
  BY <1>1, ShelfInvHolds, PTL DEF Spec, TakesOwn

(* When pip took fpm's package of a name after the scan, uninstalling the  *)
(* name reports success and takes what is listed first under a longer      *)
(* name, another manager's package too: the INSTALLER file counts only if  *)
(* a package of the very name is found (remove_impl.go:446-449).           *)
THEOREM StaleUninstallTakesForeign ==
  ASSUME NEW s \in Site, NEW n \in Name, Of(s, n) = {},
         NEW e \in Matches(s, n), \A m \in Matches(s, n) : Rank[e] <= Rank[m]
  PROVE  /\ CanUninstall(s, n, FALSE)
         /\ Present(Uninstall(s, n, FALSE)) = Present(s) \ {e}
<1>1. PICK m \in Matches(s, n) : FirstMatch(s, n) = {m}
  BY FirstMatchIsOne
<1>2. e \in FirstMatch(s, n)
  BY DEF FirstMatch
<1>3. FirstMatch(s, n) = {e}
  BY <1>1, <1>2
<1>4. CanUninstall(s, n, FALSE)
  BY <1>3 DEF CanUninstall, Refused
<1>5. Uninstall(s, n, FALSE) = Without(s, {e}, NamesOf({e}) \cup {n})
  BY <1>3, <1>4 DEF Uninstall
<1>6. Present(Without(s, {e}, NamesOf({e}) \cup {n})) = Present(s) \ {e}
  BY WithoutPresent
<1> QED
  BY <1>4, <1>5, <1>6

(* Where no name begins another one, the order of the listing does not     *)
(* matter, capital letters or not: what fpm installed it can uninstall,    *)
(* and no command that works off a list takes anything else.               *)
THEOREM PrefixFreeTakesOwn ==
  ASSUME \A n \in Name : Prefixed[n] = {n}
  PROVE  Spec => []FpmRemovable /\ TakesOwn
<1>1. SortedListing
  BY DEF SortedListing, Dist
<1> QED
  BY <1>1, SortedRemovable, SortedTakesOwn

(* Where a longer name is listed first (Flask_Cors-4.0 before flask-3.0),  *)
(* uninstalling the shorter one does the wrong thing and reports success:  *)
(* the other dist-info directory goes, and its own stays without a file of *)
(* its code (uninstallPackage, remove_impl.go:428).                        *)
THEOREM UnsortedTakesAnother ==
  ASSUME NEW s \in Site, NEW d \in FpmDists(s), NEW e \in FpmDists(s),
         e.name # d.name, e.name \in Prefixed[d.name],
         \A m \in Matches(s, d.name) : Rank[e] <= Rank[m]
  PROVE  /\ CanUninstall(s, d.name, FALSE)
         /\ e \notin Present(Uninstall(s, d.name, FALSE))
         /\ d \in Present(Uninstall(s, d.name, FALSE))
         /\ Uninstall(s, d.name, FALSE).code[d.name] = NoVersion
<1>1. d \in Dist /\ e \in Dist /\ s.mark[d] = "fpm" /\ s.mark[e] = "fpm"
  BY DEF FpmDists
<1>2. e \in Matches(s, d.name)
  BY <1>1 DEF Matches, Present
<1>3. FirstMatch(s, d.name) = {e}
  <2>1. e \in FirstMatch(s, d.name)
    BY <1>2 DEF FirstMatch
  <2>2. \E m \in Matches(s, d.name) : FirstMatch(s, d.name) = {m}
    BY <1>2, FirstMatchIsOne
  <2> QED
    BY <2>1, <2>2
<1>4. CanUninstall(s, d.name, FALSE)
  BY <1>1, <1>3 DEF CanUninstall, Refused
<1>5. Uninstall(s, d.name, FALSE) = Without(s, {e}, NamesOf({e}) \cup {d.name})
  BY <1>3, <1>4 DEF Uninstall
<1>6. d.name \in Name /\ d # e
  BY <1>1 DEF Dist
<1> DEFINE after == Without(s, {e}, NamesOf({e}) \cup {d.name})
<1>7. after.mark[e] = "absent" /\ after.mark[d] = "fpm" /\ after.code[d.name] = NoVersion
  BY <1>1, <1>6 DEF Without
<1> QED
  BY <1>1, <1>4, <1>5, <1>7 DEF Present

(* A stash or a switch that could write its list has every package of      *)
(* fpm's that it takes on it, wherever it dies, while pip is away          *)
(* (stash.go push, branch.go switch).                                      *)
THEOREM SortedPutAsideListed ==
  ASSUME SortedListing
  PROVE  Spec => PutAsideListed
<1> DEFINE Listed == cmd.alone /\ cmd'.alone /\ cmd.whole =>
                       \A e \in Taken \cap FpmDists(site) :
                         /\ cmd.op = "stash" => e \in Head(stash)
                         /\ cmd.op = "switch" => e \in saved[active].pkgs
<1>1. ASSUME ShelfInv, Next, cmd.alone, cmd'.alone, cmd.whole
      PROVE  Listed
  <2>1. cmd.op = "stash" => \A e \in Taken \cap FpmDists(site) : e \in Head(stash)
    BY <1>1, TakesListed DEF ShelfInv, ListInv
  <2>2. cmd.op = "switch" => FpmDists(site) \subseteq saved[active].pkgs
    BY <1>1 DEF ShelfInv, ListInv
  <2> QED
    BY <2>1, <2>2
<1>2. ShelfInv /\ [Next]_vars => [Listed]_vars
  BY <1>1
<1> QED
  BY <1>2, ShelfInvHolds, PTL DEF Spec, PutAsideListed

(* A sync that skipped nothing and that pip left alone returns with every  *)
(* locked version in place and no code of fpm's outside the lock file, in  *)
(* a sorted listing (sync_impl.go).                                        *)
THEOREM SortedSyncMatches ==
  ASSUME SortedListing
  PROVE  Spec => []SyncMatches
<1>1. ShelfInv => SyncMatches
  BY DEF ShelfInv, ListInv, SyncInv, SyncMatches, NamesOf
<1> QED
  BY <1>1, ShelfInvHolds, PTL

(* The lock file an install writes asks for nothing that the install did   *)
(* not just put in place, if pip left it there (install_impl.go: the lock  *)
(* file is generated from what was staged, sync looks for exact versions). *)
THEOREM LockfileSynced == Spec => InstallSynced
<1> DEFINE Synced == cmd.op = "swapped" /\ cmd.alone /\ lockfile' # lockfile =>
                       Missing' = {}
<1>1. ASSUME SwappedInv, Next, cmd.op = "swapped", cmd.alone, lockfile' # lockfile
      PROVE  Missing' = {}
  <2>1. RecordInstall
    <3>1. NoCommand.op = "none"
      BY DEF NoCommand
    <3>2. CASE ProjectNext
      BY <1>1, <3>1, <3>2
         DEF ProjectNext, CommandNext, SyncNext, BeginInstall, SwapStaged, SwapStops,
             RemoveName, LockProject, BeginSync, SyncLink, SyncSkip, SyncRemove,
             EndSync, Idle, OtherNext, EditDeclared, PipRuns, Die
    <3>3. CASE ShelfNext
      BY <1>1, <3>3
         DEF ShelfNext, StashPush, StashTake, BranchCreate, BranchDelete, BeginSwitch,
             EndSwitch, BeginRevert, PutAside
    <3> QED
      BY <1>1, <3>2, <3>3 DEF Next
  <2>2. /\ lockfile' = PinsOf(cmd.todo) /\ site' = site
        /\ cmd.todo \in SUBSET Dist /\ cmd.todo \subseteq Present(site)
    BY <1>1, <2>1
       DEF RecordInstall, WriteLock, LockOfInstall, SwappedInv, TypeOK, ProjectTypeOK,
           Command
  <2>3. \A d \in Dist : PinsOf(cmd.todo)[d.name] = d.ver => d \in cmd.todo
    <3> SUFFICES ASSUME NEW d \in Dist, PinsOf(cmd.todo)[d.name] = d.ver
                 PROVE  d \in cmd.todo
      OBVIOUS
    <3> DEFINE c == CHOOSE e \in cmd.todo : e.name = d.name
    <3>1. d.name \in Name /\ d.ver \in Version /\ d.ver # NoVersion
      BY SiteAssumption DEF Dist, SiteAssumption
    <3>2. d.name \in NamesOf(cmd.todo) /\ c.ver = d.ver
      BY <3>1 DEF PinsOf
    <3>3. c \in cmd.todo /\ c.name = d.name
      BY <3>2 DEF NamesOf
    <3>4. c \in Dist
      BY <2>2, <3>3
    <3>5. c = d
      BY <3>2, <3>3, <3>4 DEF Dist
    <3> QED
      BY <3>3, <3>5
  <2>4. Missing' = {d \in Dist : lockfile'[d.name] = d.ver /\ d \notin Present(site')}
    BY DEF Missing, Pinned
  <2> QED
    BY <2>2, <2>3, <2>4
<1>2. SwappedInv /\ [Next]_vars => [Synced]_vars
  BY <1>1
<1> QED
  BY <1>2, SwappedInvHolds, PTL DEF Spec, InstallSynced
=============================================================================
