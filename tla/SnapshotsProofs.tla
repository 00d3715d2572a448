---------------------------- MODULE SnapshotsProofs ----------------------------
(***************************************************************************)
(* Theorems about Snapshots, for every set of packages, versions, tags and *)
(* contents of fpm.toml, and every bound.                                  *)
(*                                                                         *)
(* SortedListing (SitePackagesProofs) says that no dist-info directory     *)
(* keeps capital letters, ExactWheels that no version is part of another   *)
(* one's text, and NamesApart that pip and the other terminal keep to      *)
(* names of their own.                                                     *)
(***************************************************************************)
EXTENDS Snapshots, SitePackagesProofs

USE SiteAssumption, SnapshotsAssumption

(* The index finds the wheel of the version that is asked for.             *)
ExactWheels == \A d \in Dist : Wheel[d] = d

(* What pip installs, fpm does not.                                        *)
NamesApart == FpmNames \cap PipNames = {}
---------------------------------------------------------------------------
(* Types                                                                   *)

LEMMA LinkMarkedType ==
  ASSUME NEW d \in Dist, site \in Site
  PROVE  LinkMarked(d) \in Site
  BY LinkType, MarkNamesType DEF LinkMarked

LEMMA ScanType ==
  ASSUME site \in Site
  PROVE  /\ Scan(site) \in [fpm: SUBSET Dist, ext: SUBSET Dist]
         /\ Scan(site).fpm \cap Scan(site).ext = {}
  BY DEF Scan, FpmDists, Foreign, Present

LEMMA NoJobType == NoJob \in Job
<1>1. NoSnapshot \in Snapshot
  BY DEF NoSnapshot, Snapshot
<1>2. 0 \in Id
  BY DEF Id
<1> QED
  BY <1>1, <1>2 DEF NoJob, Job

(* The two lists of a scan are of different packages, too.                 *)
ScanApart == job.scan.fpm \cap job.scan.ext = {}

TypeInv == TypeOK /\ ScanApart

LEMMA InitType == Init => TypeInv
<1> SUFFICES ASSUME Init PROVE TypeInv
  OBVIOUS
<1>1. site \in Site /\ job \in Job
  BY EmptySiteType, NoJobType DEF Init
<1>2. now \in Id /\ ops \in 0..MaxOps
  BY DEF Init, Id
<1> QED
  BY <1>1, <1>2 DEF Init, TypeInv, TypeOK, ScanApart, NoJob


LEMMA SnapshotType ==
  ASSUME NEW s \in Snapshot
  PROVE  /\ s \in [fpm: SUBSET Dist, ext: SUBSET Dist, toml: Conf \cup {Nothing}]
         /\ s.fpm \in SUBSET Dist /\ s.ext \in SUBSET Dist
         /\ s.toml \in Conf \cup {Nothing} /\ s.fpm \cap s.ext = {}
  BY DEF Snapshot

LEMMA CapturedType ==
  ASSUME NEW scan \in [fpm: SUBSET Dist, ext: SUBSET Dist],
         scan.fpm \cap scan.ext = {}, conf \in Conf \cup {Nothing}
  PROVE  Captured(scan) \in Snapshot
  BY DEF Captured, Snapshot

LEMMA JobType ==
  ASSUME job \in Job
  PROVE  /\ job.id \in Id /\ job.snap \in Snapshot /\ job.todo \in SUBSET Dist
         /\ job.scan \in [fpm: SUBSET Dist, ext: SUBSET Dist]
         /\ job.scan.fpm \in SUBSET Dist /\ job.scan.ext \in SUBSET Dist
         /\ job.errors \in BOOLEAN /\ job.alone \in BOOLEAN
  BY DEF Job

(* What an action of another does to the job.                              *)
LEMMA ChangesType ==
  ASSUME TypeInv, NEW s \in Site, Changes(s)
  PROVE  TypeInv'
<1>1. job' \in Job /\ job'.scan = job.scan
  BY DEF Changes, TypeInv, TypeOK, Job, Idle
<1>2. ops' \in 0..MaxOps
  BY DEF Changes, Count, TypeInv, TypeOK
<1> QED
  BY <1>1, <1>2 DEF Changes, TypeInv, TypeOK, ScanApart

LEMMA BeginPickType ==
  ASSUME TypeInv, NEW d \in Dist, NEW id \in Id, BeginPick(id, d)
  PROVE  TypeInv'
<1>1. site' \in Site
  BY UninstallType DEF BeginPick, TypeInv, TypeOK
<1>2. job' \in Job /\ job'.scan = NoJob.scan
  BY NoJobType DEF BeginPick, Job
<1>3. ops' \in 0..MaxOps
  BY DEF BeginPick, Count, TypeInv, TypeOK
<1> QED
  BY <1>1, <1>2, <1>3 DEF BeginPick, TypeInv, TypeOK, ScanApart, NoJob

LEMMA NextType == TypeInv /\ [Next]_vars => TypeInv'
<1> SUFFICES ASSUME TypeInv, [Next]_vars PROVE TypeInv'
  OBVIOUS
<1> USE DEF TypeInv
<1>j. /\ job.id \in Id /\ job.snap \in Snapshot /\ job.todo \in SUBSET Dist
      /\ job.scan \in [fpm: SUBSET Dist, ext: SUBSET Dist]
      /\ job.snap.fpm \in SUBSET Dist /\ job.snap.ext \in SUBSET Dist
      /\ job.snap.toml \in Conf \cup {Nothing}
  BY JobType, SnapshotType DEF TypeOK
<1>o. Count => ops' \in 0..MaxOps
  BY DEF Count, TypeOK
<1>n. now + 1 \in Nat /\ (now < MaxNow => now + 1 \in Id)
  BY DEF TypeOK, Id
<1>1. CASE Tick
  BY <1>1, <1>n DEF Tick, TypeOK, ScanApart
<1>2. ASSUME NEW pointer \in Id \cup {Nothing}, Create(pointer) PROVE TypeInv'
  <2>1. Captured(Scan(site)) \in Snapshot
    BY ScanType, CapturedType DEF TypeOK
  <2>2. store' \in [Id -> Snapshot \cup {Nothing}]
    BY <1>2, <2>1 DEF Create, WriteSnapshot, TypeOK
  <2> QED
    BY <1>2, <1>o, <2>2 DEF Create, WriteSnapshot, TypeOK, ScanApart
<1>3. ASSUME NEW id \in Id, Delete(id) PROVE TypeInv'
  <2>1. store' \in [Id -> Snapshot \cup {Nothing}]
    BY <1>3 DEF Delete, TypeOK
  <2> QED
    BY <1>3, <1>o, <2>1 DEF Delete, TypeOK, ScanApart
<1>4. ASSUME NEW id \in Id, BeginRestore(id) PROVE TypeInv'
  <2>1. store[id] \in Snapshot
    BY <1>4 DEF BeginRestore, TypeOK
  <2>2. job' \in Job /\ job'.scan = Scan(site)
    BY <1>4, <2>1, NoJobType, ScanType DEF BeginRestore, Job, TypeOK
  <2>3. job'.scan.fpm \cap job'.scan.ext = {}
    BY <2>2, ScanType DEF TypeOK
  <2> QED
    BY <1>4, <1>o, <2>2, <2>3 DEF BeginRestore, TypeOK, ScanApart
<1>5. ASSUME NEW t \in Tag, NEW id \in Id, SetTag(t, id) PROVE TypeInv'
  <2>1. tags' \in [Tag -> Id \cup {Nothing}]
    BY <1>5 DEF SetTag, TypeOK
  <2> QED
    BY <1>5, <1>o, <2>1 DEF SetTag, TypeOK, ScanApart
<1>6. ASSUME NEW t \in Tag, DeleteTag(t) PROVE TypeInv'
  <2>1. tags' \in [Tag -> Id \cup {Nothing}]
    BY <1>6 DEF DeleteTag, TypeOK
  <2> QED
    BY <1>6, <1>o, <2>1 DEF DeleteTag, TypeOK, ScanApart
<1>7. CASE SaveScan
  <2>1. Captured(job.scan) \in Snapshot
    BY <1>j, CapturedType DEF TypeOK, ScanApart
  <2>2. store' \in [Id -> Snapshot \cup {Nothing}]
    BY <1>7, <2>1 DEF SaveScan, WriteSnapshot, TypeOK
  <2>3. job' \in Job /\ job'.scan = job.scan
    BY <1>7 DEF SaveScan, TypeOK, Job
  <2> QED
    BY <1>7, <2>2, <2>3 DEF SaveScan, WriteSnapshot, TypeOK, ScanApart
<1>8. CASE SaveFails
  <2>1. job' \in Job /\ job'.scan = job.scan
    BY <1>8 DEF SaveFails, TypeOK, Job
  <2> QED
    BY <1>8, <1>o, <2>1 DEF SaveFails, TypeOK, ScanApart
<1>9. CASE CleanAll
  <2>1. job' \in Job /\ job'.scan = job.scan
    BY <1>9, <1>j DEF CleanAll, TypeOK, Job
  <2>2. site' \in Site
    BY <1>9, WithoutType DEF CleanAll, Clean, TypeOK
  <2> QED
    BY <1>9, <2>1, <2>2 DEF CleanAll, TypeOK, ScanApart
<1>10. CASE RemoveNew
  <2>1. job' \in Job /\ job'.scan = job.scan
    BY <1>10, <1>j DEF RemoveNew, TypeOK, Job
  <2>2. site' \in Site
    BY <1>10, WithoutType DEF RemoveNew, TypeOK
  <2> QED
    BY <1>10, <2>1, <2>2 DEF RemoveNew, TypeOK, ScanApart
<1>11. CASE Finish
  BY <1>11, <1>j, NoJobType DEF Finish, TypeOK, ScanApart, NoJob
<1>12. ASSUME NEW d \in Dist, Relink(d) PROVE TypeInv'
  <2>1. job' \in Job /\ job'.scan = job.scan
    BY <1>12, <1>j DEF Relink, TypeOK, Job
  <2>2. site' \in Site
    BY <1>12, LinkMarkedType DEF Relink, TypeOK
  <2> QED
    BY <1>12, <2>1, <2>2 DEF Relink, TypeOK, ScanApart
<1>13. ASSUME NEW d \in Dist, NEW s, RelinkFails(d, s) PROVE TypeInv'
  <2>1. job' \in Job /\ job'.scan = job.scan
    BY <1>13, <1>j DEF RelinkFails, TypeOK, Job
  <2>2. site' \in Site
    BY <1>13, LinkMarkedType, LinkType DEF RelinkFails, TypeOK
  <2> QED
    BY <1>13, <1>o, <2>1, <2>2 DEF RelinkFails, TypeOK, ScanApart
<1>14. ASSUME NEW d \in Dist, External(d) PROVE TypeInv'
  <2>1. job' \in Job /\ job'.scan = job.scan
    BY <1>14, <1>j DEF External, TypeOK, Job
  <2>2. RemoveFiles(site, d.name) \in Site
    BY WithoutType DEF RemoveFiles, TypeOK
  <2>3. site' \in Site
    BY <1>14, <2>2, PipTargetType DEF External, TypeOK
  <2> QED
    BY <1>14, <2>1, <2>3 DEF External, TypeOK, ScanApart
<1>15. ASSUME NEW d \in Dist, ExternalFails(d) PROVE TypeInv'
  <2>1. job' \in Job /\ job'.scan = job.scan
    BY <1>15, <1>j DEF ExternalFails, TypeOK, Job
  <2>2. RemoveFiles(site, d.name) \in Site
    BY WithoutType DEF RemoveFiles, TypeOK
  <2>3. site' \in Site
    BY <1>15, <2>2 DEF ExternalFails, TypeOK
  <2> QED
    BY <1>15, <1>o, <2>1, <2>3 DEF ExternalFails, TypeOK, ScanApart
<1>16. ASSUME NEW d \in Dist, NEW id \in Id, BeginPick(id, d) PROVE TypeInv'
  BY <1>16, BeginPickType
<1>17. ASSUME NEW d \in Dist, NEW t \in Tag, PickTagged(t, d) PROVE TypeInv'
  <2>1. tags[t] \in Id
    BY <1>17 DEF PickTagged, TypeOK
  <2> QED
    BY <1>17, <2>1, BeginPickType DEF PickTagged
<1>18. CASE EndPick
  <2>1. site' \in Site
    BY <1>18, <1>j, LinkType DEF EndPick, TypeOK
  <2> QED
    BY <1>18, <2>1, NoJobType DEF EndPick, TypeOK, ScanApart, NoJob
<1>19. CASE Die
  BY <1>19, <1>o, NoJobType DEF Die, TypeOK, ScanApart, NoJob
<1>20. ASSUME NEW d \in Dist, Install(d) PROVE TypeInv'
  <2>1. MarkNames(Swap(site, {d}), {d.name}) \in Site
    BY SwapType, MarkNamesType DEF TypeOK
  <2> QED
    BY <1>20, <2>1, ChangesType DEF Install
<1>21. ASSUME NEW n \in Name, Pip(n) PROVE TypeInv'
  <2>1. PipUninstall(site, n) \in Site
    BY PipUninstallType DEF TypeOK
  <2>2. \A v \in Version : PipInstall(site, [name |-> n, ver |-> v]) \in Site
    <3> TAKE v \in Version
    <3>1. [name |-> n, ver |-> v] \in Dist
      BY DEF Dist
    <3> QED
      BY <3>1, PipInstallType DEF TypeOK
  <2>3. \A v \in Version : Changes(PipInstall(site, [name |-> n, ver |-> v])) => TypeInv'
    BY <2>2, ChangesType
  <2>4. Changes(PipUninstall(site, n)) => TypeInv'
    BY <2>1, ChangesType
  <2> QED
    BY <1>21, <2>3, <2>4 DEF Pip
<1>22. ASSUME NEW c \in Conf \cup {Nothing}, EditConf(c) PROVE TypeInv'
  BY <1>22, <1>o DEF EditConf, TypeOK, ScanApart
<1>23. CASE UNCHANGED vars
  BY <1>23 DEF vars, TypeOK, ScanApart
<1> HIDE DEF TypeInv
<1> QED
  BY <1>1, <1>2, <1>3, <1>4, <1>5, <1>6, <1>7, <1>8, <1>9, <1>10, <1>11, <1>12,
     <1>13, <1>14, <1>15, <1>16, <1>17, <1>18, <1>19, <1>20, <1>21, <1>22, <1>23
  DEF Next

(* Every state of the snapshots, of site-packages and of the running       *)
(* command is one of those TypeOK lists.                                   *)
THEOREM SnapshotsTypeCorrect == Spec => []TypeOK
<1>1. TypeInv => TypeOK
  BY DEF TypeInv
<1> QED
  BY InitType, NextType, <1>1, PTL DEF Spec

---------------------------------------------------------------------------
(* The invariants                                                          *)

(* Every package of D has a name fpm installs.                             *)
Installs(D) == \A d \in D : d.name \in FpmNames

(* What is marked as fpm's, and what a snapshot or a scan lists as fpm's,  *)
(* was installed by it.                                                    *)
FpmNamed ==
  /\ Installs(FpmDists(site))
  /\ \A id \in Id : store[id] # Nothing => Installs(store[id].fpm)
  /\ Installs(job.snap.fpm) /\ Installs(job.scan.fpm)
  /\ job.op = "linking" => job.todo \subseteq job.snap.fpm

(* What a restore is about to clean is still there, and what of it no      *)
(* other command has taken the mark from is in a snapshot.                 *)
ScanThere ==
  job.op \in {"scanned", "saved"} => job.scan.fpm \subseteq Present(site)

ScanSaved ==
  job.op = "saved" /\ ~job.errors =>
    \E id \in Id : /\ store[id] # Nothing
                   /\ job.scan.fpm \ Foreign(site) \subseteq store[id].fpm

SafetyInv == FpmNamed /\ ScanThere /\ ScanSaved

(* No package of another manager has a name that the restore links, and    *)
(* the snapshot has one version of each of these.                          *)
Restorable ==
  /\ NamesOf(job.scan.ext \cup job.snap.ext) \cap NamesOf(job.snap.fpm) = {}
  /\ OnePerName(job.snap.fpm)

(* What has been relinked of the snapshot, and nothing else, is fpm's, and *)
(* has its files.                                                          *)
Relinked(done) ==
  /\ FpmDists(site) = done
  /\ \A d \in done : site.code[d.name] = d.ver

(* How far an undisturbed restore without errors is.                       *)
RestoreInv ==
  job.alone /\ ~job.errors =>
    /\ job.op \in {"scanned", "saved"} =>
         FpmDists(site) = job.scan.fpm /\ Foreign(site) = job.scan.ext
    /\ job.op = "linking" /\ Restorable =>
         /\ job.todo \subseteq job.snap.fpm
         /\ Relinked(job.snap.fpm \ job.todo)
         /\ Foreign(site) = job.scan.ext
    /\ job.op = "external" /\ Restorable =>
         /\ job.todo \subseteq job.snap.ext
         /\ Relinked(job.snap.fpm)
         /\ SameExternals =>
              Foreign(site) = job.scan.ext \cup (job.snap.ext \ job.todo)

---------------------------------------------------------------------------
(* What the commands do to the directories                                 *)

LEMMA PipTargetEffect ==
  ASSUME NEW s \in Site, NEW d \in Dist
  PROVE  /\ \A e \in Dist : PipTarget(s, d).mark[e] =
              IF e = d /\ s.mark[d] = "absent" THEN "pip" ELSE s.mark[e]
         /\ FpmDists(PipTarget(s, d)) = FpmDists(s)
         /\ Present(PipTarget(s, d)) = Present(s) \cup {d}
         /\ \A n \in Name : n # d.name => PipTarget(s, d).code[n] = s.code[n]
<1>1. \A e \in Dist : PipTarget(s, d).mark[e] =
        IF e = d /\ s.mark[d] = "absent" THEN "pip" ELSE s.mark[e]
  BY MarkOfSite DEF PipTarget
<1>2. \A n \in Name : n # d.name => PipTarget(s, d).code[n] = s.code[n]
  BY MarkOfSite DEF PipTarget
<1> QED
  BY <1>1, <1>2 DEF FpmDists, Present

LEMMA RemoveFilesEffect ==
  ASSUME NEW s \in Site, NEW n \in Name
  PROVE  /\ RemoveFiles(s, n) \in Site /\ RemoveFiles(s, n).mark = s.mark
         /\ FpmDists(RemoveFiles(s, n)) = FpmDists(s)
         /\ Present(RemoveFiles(s, n)) = Present(s)
         /\ \A m \in Name : m # n => RemoveFiles(s, n).code[m] = s.code[m]
<1>1. RemoveFiles(s, n) \in Site
  BY WithoutType DEF RemoveFiles
<1>2. RemoveFiles(s, n).mark = s.mark
  BY MarkOfSite DEF RemoveFiles, Without
<1>3. \A m \in Name : m # n => RemoveFiles(s, n).code[m] = s.code[m]
  BY DEF RemoveFiles, Without
<1> QED
  BY <1>1, <1>2, <1>3 DEF FpmDists, Present

(* Uninstalling marks nothing.                                             *)
LEMMA UninstallFpm ==
  ASSUME NEW s \in Site, NEW n, NEW force
  PROVE  FpmDists(Uninstall(s, n, force)) \subseteq FpmDists(s)
<1>1. \A D, N : FpmDists(Without(s, D, N)) \subseteq FpmDists(s)
  BY WithoutPresent
<1> QED
  BY <1>1 DEF Uninstall

(* Marking the first directory of a name that is there marks that name's.  *)
LEMMA MarksOwn ==
  ASSUME SortedListing, NEW s \in Site, NEW n \in Name, Of(s, n) # {},
         NEW e \in FpmDists(MarkNames(s, {n}))
  PROVE  e \in FpmDists(s) \/ e.name = n
<1>1. PICK m \in Of(s, n) : FirstMatch(s, n) = {m}
  BY FindsOwn
<1>2. m.name = n
  BY DEF Of
<1>3. e \in Dist /\ MarkNames(s, {n}).mark[e] = "fpm"
  BY DEF FpmDists
<1> QED
  BY <1>1, <1>2, <1>3, MarkNamesPresent DEF FpmDists

LEMMA LinkMarkedInstalls ==
  ASSUME SortedListing, site \in Site, Installs(FpmDists(site)),
         NEW d \in Dist, d.name \in FpmNames
  PROVE  Installs(FpmDists(LinkMarked(d)))
<1> DEFINE w == Wheel[d]
           s == Link(site, w)
<1>1. w \in Dist /\ w.name = d.name /\ d.name \in Name
  OBVIOUS
<1>2. s \in Site /\ FpmDists(s) = FpmDists(site) /\ w \in Of(s, d.name)
  BY <1>1, LinkType, LinkPresent DEF Of
<1>3. LinkMarked(d) = MarkNames(s, {d.name})
  BY DEF LinkMarked
<1> HIDE DEF s, w
<1> QED
  BY <1>1, <1>2, <1>3, MarksOwn DEF Installs

LEMMA InstallInstalls ==
  ASSUME SortedListing, site \in Site, Installs(FpmDists(site)),
         NEW d \in Dist, d.name \in FpmNames
  PROVE  /\ Installs(FpmDists(MarkNames(Swap(site, {d}), {d.name})))
         /\ Present(site) \subseteq Present(MarkNames(Swap(site, {d}), {d.name}))
<1> DEFINE s == Swap(site, {d})
<1>1. /\ s \in Site /\ FpmDists(s) \subseteq FpmDists(site) /\ d \in Of(s, d.name)
      /\ Present(site) \subseteq Present(s)
  BY SwapType, SwapPresent DEF Of
<1> HIDE DEF s
<1>2. Installs(FpmDists(MarkNames(s, {d.name})))
  BY <1>1, MarksOwn DEF Installs
<1>3. Present(MarkNames(s, {d.name})) = Present(s)
  BY <1>1, MarkNamesPresent
<1> QED
  BY <1>1, <1>2, <1>3 DEF s

(* pip leaves the directories of other names alone, and marks nothing.     *)
LEMMA PipElsewhere ==
  ASSUME NEW n \in Name, NEW s \in Site,
         \/ \E v \in Version : s = PipInstall(site, [name |-> n, ver |-> v])
         \/ s = PipUninstall(site, n)
  PROVE  /\ FpmDists(s) \subseteq FpmDists(site)
         /\ \A e \in Dist : e.name # n => s.mark[e] = site.mark[e]
<1>1. CASE s = PipUninstall(site, n)
  BY <1>1 DEF PipUninstall, Without, Of, FpmDists
<1>2. ASSUME NEW v \in Version, s = PipInstall(site, [name |-> n, ver |-> v])
      PROVE  /\ FpmDists(s) \subseteq FpmDists(site)
             /\ \A e \in Dist : e.name # n => s.mark[e] = site.mark[e]
  <2>1. \A e \in Dist : s.mark[e] =
          IF e = [name |-> n, ver |-> v] THEN "pip"
          ELSE IF e.name = n THEN "absent" ELSE site.mark[e]
    BY <1>2 DEF PipInstall
  <2> QED
    BY <2>1 DEF FpmDists
<1> QED
  BY <1>1, <1>2

---------------------------------------------------------------------------
(* What is cleaned is in a snapshot                                        *)

LEMMA InitSafety == Init => SafetyInv
  BY DEF Init, SafetyInv, FpmNamed, ScanThere, ScanSaved, EmptySite, FpmDists,
         Installs, NoJob, NoSnapshot

LEMMA NextSafety ==
  ASSUME SortedListing, NamesApart, TypeInv, SafetyInv, [Next]_vars
  PROVE  SafetyInv'
<1> USE DEF SafetyInv
<1>j. /\ job.id \in Id /\ job.snap \in Snapshot /\ job.todo \in SUBSET Dist
      /\ job.scan.fpm \in SUBSET Dist /\ job.scan.ext \in SUBSET Dist
      /\ job.snap.fpm \in SUBSET Dist /\ job.snap.ext \in SUBSET Dist
      /\ site \in Site /\ store \in [Id -> Snapshot \cup {Nothing}] /\ now \in Id
  BY JobType, SnapshotType DEF TypeInv, TypeOK
<1>i. /\ Installs(FpmDists(site)) /\ Installs(job.snap.fpm)
      /\ Installs(job.scan.fpm)
  BY DEF FpmNamed
<1>r. job \in Job
  BY DEF TypeInv, TypeOK
<1>1. CASE Tick
  BY <1>1 DEF Tick, FpmNamed, ScanThere, ScanSaved
<1>2. ASSUME NEW pointer \in Id \cup {Nothing}, Create(pointer) PROVE SafetyInv'
  <2> DEFINE c == Captured(Scan(site))
  <2>1. c \in Snapshot /\ c.fpm = FpmDists(site) /\ c # Nothing
    <3>1. conf \in Conf \cup {Nothing}
      BY DEF TypeInv, TypeOK
    <3> QED
      BY <1>j, <3>1, ScanType, CapturedType DEF Captured, Scan
  <2>2. store' = [store EXCEPT ![now] = c] /\ UNCHANGED <<site, job>>
    BY <1>2 DEF Create, WriteSnapshot
  <2> HIDE DEF c
  <2>3. FpmNamed'
    BY <1>j, <1>i, <2>1, <2>2 DEF FpmNamed
  <2>4. ScanThere'
    BY <2>2 DEF ScanThere
  <2>5. ASSUME job.op = "saved", ~job.errors
        PROVE  job.scan.fpm \ Foreign(site) \subseteq store'[now].fpm
    <3>1. job.scan.fpm \subseteq Present(site)
      BY <2>5 DEF ScanThere
    <3> QED
      BY <1>j, <2>1, <2>2, <3>1 DEF Foreign
  <2>6. ScanSaved'
    BY <1>j, <2>1, <2>2, <2>5 DEF ScanSaved
  <2> QED
    BY <2>3, <2>4, <2>6
<1>3. ASSUME NEW id \in Id, Delete(id) PROVE SafetyInv'
  BY <1>3, <1>j DEF Delete, Idle, FpmNamed, ScanThere, ScanSaved
<1>4. ASSUME NEW id \in Id, BeginRestore(id) PROVE SafetyInv'
  <2>1. job'.op = "scanned" /\ job'.snap = store[id] /\ job'.scan = Scan(site)
    BY <1>4 DEF BeginRestore, NoJob
  <2>2. Installs(store[id].fpm) /\ UNCHANGED <<site, store>>
    BY <1>4 DEF BeginRestore, FpmNamed
  <2>3. Scan(site).fpm = FpmDists(site) /\ FpmDists(site) \subseteq Present(site)
    BY DEF Scan, FpmDists, Present
  <2>4. FpmNamed'
    BY <1>i, <2>1, <2>2, <2>3 DEF FpmNamed
  <2>5. ScanThere' /\ ScanSaved'
    BY <2>1, <2>2, <2>3 DEF ScanThere, ScanSaved
  <2> QED
    BY <2>4, <2>5
<1>5. ASSUME NEW t \in Tag, NEW id \in Id, SetTag(t, id) PROVE SafetyInv'
  BY <1>5 DEF SetTag, FpmNamed, ScanThere, ScanSaved
<1>6. ASSUME NEW t \in Tag, DeleteTag(t) PROVE SafetyInv'
  BY <1>6 DEF DeleteTag, FpmNamed, ScanThere, ScanSaved
<1>7. CASE SaveScan
  <2> DEFINE c == Captured(job.scan)
  <2>1. c \in Snapshot /\ c.fpm = job.scan.fpm /\ c # Nothing
    BY <1>j, <1>r, JobType, CapturedType DEF Captured, TypeInv, TypeOK, ScanApart
  <2>2. /\ store' = [store EXCEPT ![now] = c] /\ UNCHANGED site
        /\ job.op = "scanned" /\ job' = [job EXCEPT !.op = "saved"]
    BY <1>7 DEF SaveScan, WriteSnapshot
  <2> HIDE DEF c
  <2>3. /\ job'.op = "saved" /\ job'.snap = job.snap /\ job'.scan = job.scan
    BY <1>r, <2>2 DEF Job
  <2>4. FpmNamed'
    BY <1>j, <1>i, <2>1, <2>2, <2>3 DEF FpmNamed
  <2>5. ScanThere'
    BY <2>2, <2>3 DEF ScanThere
  <2>6. ScanSaved'
    BY <1>j, <2>1, <2>2, <2>3 DEF ScanSaved
  <2> QED
    BY <2>4, <2>5, <2>6
<1>8. CASE SaveFails
  <2>1. /\ job'.op = "saved" /\ job'.snap = job.snap /\ job'.scan = job.scan
        /\ job'.errors
    BY <1>r, <1>8 DEF SaveFails, Job
  <2> QED
    BY <1>8, <1>i, <2>1 DEF SaveFails, FpmNamed, ScanThere, ScanSaved
<1>9. CASE CleanAll
  <2>1. /\ job'.op = "linking" /\ job'.snap = job.snap /\ job'.scan = job.scan
        /\ job'.todo = job.snap.fpm
    BY <1>r, <1>9 DEF CleanAll, Job
  <2>2. FpmDists(site') \subseteq FpmDists(site) /\ UNCHANGED store
    BY <1>9, <1>j, WithoutPresent DEF CleanAll, Clean
  <2> QED
    BY <1>i, <2>1, <2>2 DEF FpmNamed, ScanThere, ScanSaved, Installs
<1>10. CASE RemoveNew
  <2>1. /\ job'.op = "external" /\ job'.snap = job.snap /\ job'.scan = job.scan
    BY <1>r, <1>10 DEF RemoveNew, Job
  <2>2. FpmDists(site') \subseteq FpmDists(site) /\ UNCHANGED store
    BY <1>10, <1>j, WithoutPresent DEF RemoveNew
  <2> QED
    BY <1>i, <2>1, <2>2 DEF FpmNamed, ScanThere, ScanSaved, Installs
<1>11. CASE Finish
  BY <1>11 DEF Finish, FpmNamed, ScanThere, ScanSaved, NoJob, NoSnapshot, Installs
<1>12. ASSUME NEW d \in Dist, Relink(d) PROVE SafetyInv'
  <2>1. /\ job'.op = "linking" /\ job'.snap = job.snap /\ job'.scan = job.scan
        /\ job'.todo \subseteq job.todo
    BY <1>r, <1>12 DEF Relink, Job
  <2>2. d.name \in FpmNames
    BY <1>12, <1>i DEF Relink, FpmNamed, Installs
  <2>3. Installs(FpmDists(site'))
    BY <1>12, <1>j, <1>i, <2>2, LinkMarkedInstalls DEF Relink
  <2> QED
    BY <1>12, <1>i, <2>1, <2>3 DEF Relink, FpmNamed, ScanThere, ScanSaved
<1>13. ASSUME NEW d \in Dist, NEW s, RelinkFails(d, s) PROVE SafetyInv'
  <2>1. /\ job'.op = "linking" /\ job'.snap = job.snap /\ job'.scan = job.scan
        /\ job'.todo \subseteq job.todo
    BY <1>r, <1>13 DEF RelinkFails, Job
  <2>2. d.name \in FpmNames
    BY <1>13, <1>i DEF RelinkFails, FpmNamed, Installs
  <2>3. FpmDists(Link(site, Wheel[d])) = FpmDists(site)
    BY <1>j, LinkPresent
  <2>4. Installs(FpmDists(site'))
    BY <1>13, <1>j, <1>i, <2>2, <2>3, LinkMarkedInstalls DEF RelinkFails
  <2> QED
    BY <1>13, <1>i, <2>1, <2>4 DEF RelinkFails, FpmNamed, ScanThere, ScanSaved
<1>14. ASSUME NEW d \in Dist, External(d) PROVE SafetyInv'
  <2>1. /\ job'.op = "external" /\ job'.snap = job.snap /\ job'.scan = job.scan
    BY <1>r, <1>14 DEF External, Job
  <2>2. /\ RemoveFiles(site, d.name) \in Site /\ d.name \in Name
        /\ FpmDists(RemoveFiles(site, d.name)) = FpmDists(site)
    BY <1>j, RemoveFilesEffect DEF Dist
  <2>3. FpmDists(site') = FpmDists(site)
    BY <1>14, <1>j, <2>2, PipTargetEffect DEF External
  <2> QED
    BY <1>14, <1>i, <2>1, <2>3 DEF External, FpmNamed, ScanThere, ScanSaved
<1>15. ASSUME NEW d \in Dist, ExternalFails(d) PROVE SafetyInv'
  <2>1. /\ job'.op = "external" /\ job'.snap = job.snap /\ job'.scan = job.scan
    BY <1>r, <1>15 DEF ExternalFails, Job
  <2>2. FpmDists(RemoveFiles(site, d.name)) = FpmDists(site)
    BY <1>j, RemoveFilesEffect DEF Dist
  <2>3. FpmDists(site') = FpmDists(site)
    BY <1>15, <2>2 DEF ExternalFails
  <2> QED
    BY <1>15, <1>i, <2>1, <2>3 DEF ExternalFails, FpmNamed, ScanThere, ScanSaved
<1>16. ASSUME NEW d \in Dist, NEW id, BeginPick(id, d) PROVE SafetyInv'
  <2>1. job'.op = "pick" /\ job'.snap = NoSnapshot /\ job'.scan.fpm = {}
    BY <1>16 DEF BeginPick, NoJob
  <2>2. FpmDists(site') \subseteq FpmDists(site)
    BY <1>16, <1>j, UninstallFpm DEF BeginPick
  <2>3. store' = store /\ NoSnapshot.fpm = {}
    BY <1>16 DEF BeginPick, NoSnapshot
  <2> QED
    BY <1>i, <2>1, <2>2, <2>3 DEF FpmNamed, ScanThere, ScanSaved, Installs
<1>17. ASSUME NEW d \in Dist, NEW t \in Tag, PickTagged(t, d) PROVE SafetyInv'
  BY <1>16, <1>17 DEF PickTagged
<1>18. CASE EndPick
  <2>1. FpmDists(site') = FpmDists(site)
    BY <1>18, <1>j, LinkPresent DEF EndPick
  <2> QED
    BY <1>18, <2>1
    DEF EndPick, FpmNamed, ScanThere, ScanSaved, NoJob, NoSnapshot, Installs
<1>19. CASE Die
  BY <1>19 DEF Die, FpmNamed, ScanThere, ScanSaved, NoJob, NoSnapshot, Installs
<1>c. \A s : Changes(s) => /\ site' = s /\ store' = store /\ job'.op = job.op
                           /\ job'.snap = job.snap /\ job'.scan = job.scan
                           /\ job'.todo = job.todo /\ job'.errors = job.errors
  BY <1>r DEF Changes, Job
<1>20. ASSUME NEW d \in Dist, Install(d) PROVE SafetyInv'
  <2> DEFINE s == MarkNames(Swap(site, {d}), {d.name})
  <2>1. Installs(FpmDists(s)) /\ Present(site) \subseteq Present(s)
    BY <1>20, <1>i, <1>j, InstallInstalls DEF Install
  <2>2. /\ site' = s /\ store' = store /\ job'.op = job.op
        /\ job'.snap = job.snap /\ job'.scan = job.scan
        /\ job.op \in {"none", "scanned", "pick"}
    BY <1>20, <1>c DEF Install
  <2> HIDE DEF s
  <2> QED
    BY <1>i, <2>1, <2>2 DEF FpmNamed, ScanThere, ScanSaved
<1>21. ASSUME NEW n \in Name, Pip(n) PROVE SafetyInv'
  <2>1. /\ store' = store /\ job'.op = job.op /\ job'.snap = job.snap
        /\ job'.scan = job.scan /\ job'.todo = job.todo /\ job'.errors = job.errors
    BY <1>21, <1>c DEF Pip
  <2>2. /\ FpmDists(site') \subseteq FpmDists(site)
        /\ \A e \in Dist : e.name # n => site'.mark[e] = site.mark[e]
    <3>1. \A v \in Version : [name |-> n, ver |-> v] \in Dist
      BY DEF Dist
    <3>2. \A v \in Version : PipInstall(site, [name |-> n, ver |-> v]) \in Site
      BY <1>j, <3>1, PipInstallType
    <3>3. PipUninstall(site, n) \in Site
      BY <1>j, PipUninstallType
    <3>4. \/ \E v \in Version : site' = PipInstall(site, [name |-> n, ver |-> v])
          \/ site' = PipUninstall(site, n)
      BY <1>21, <1>c DEF Pip
    <3>5. site' \in Site
      BY <3>2, <3>3, <3>4
    <3> QED
      BY <3>4, <3>5, PipElsewhere
  <2>3. \A e \in job.scan.fpm : site'.mark[e] = site.mark[e]
    <3>1. n \notin FpmNames
      BY <1>21 DEF Pip, NamesApart
    <3> QED
      BY <1>i, <1>j, <2>2, <3>1 DEF Installs
  <2>4. \A e \in job.scan.fpm : /\ e \in Present(site') <=> e \in Present(site)
                                /\ e \in Foreign(site') <=> e \in Foreign(site)
    BY <2>3 DEF Present, Foreign, FpmDists
  <2>5. FpmNamed'
    BY <1>i, <2>1, <2>2 DEF FpmNamed, Installs
  <2>6. ScanThere'
    BY <2>1, <2>4 DEF ScanThere
  <2>7. ScanSaved'
    BY <2>1, <2>4 DEF ScanSaved
  <2> QED
    BY <2>5, <2>6, <2>7
<1>22. ASSUME NEW c \in Conf \cup {Nothing}, EditConf(c) PROVE SafetyInv'
  BY <1>22 DEF EditConf, FpmNamed, ScanThere, ScanSaved
<1>23. CASE UNCHANGED vars
  BY <1>23 DEF vars, FpmNamed, ScanThere, ScanSaved
<1> HIDE DEF SafetyInv
<1> QED
  BY <1>1, <1>2, <1>3, <1>4, <1>5, <1>6, <1>7, <1>8, <1>9, <1>10, <1>11, <1>12,
     <1>13, <1>14, <1>15, <1>16, <1>17, <1>18, <1>19, <1>20, <1>21, <1>22, <1>23
  DEF Next

(* Under these hypotheses no restore, however it is disturbed, cleans what *)
(* is in no snapshot: a package the scan saw leaves site-packages only     *)
(* when a snapshot file lists it as fpm's.                                 *)
THEOREM RestoreCleansSaved ==
  ASSUME SortedListing, NamesApart
  PROVE  Spec => SafetyFirst
<1> DEFINE A == job.op = "saved" /\ ~job.errors /\ site' # site =>
                  \E id \in Id : /\ store[id] # Nothing
                                 /\ job.scan.fpm \ Present(site') \subseteq store[id].fpm
<1>1. ASSUME TypeInv, SafetyInv, [Next]_vars PROVE [A]_vars
  <2> SUFFICES ASSUME job.op = "saved", ~job.errors, site' # site
               PROVE  \E id \in Id :
                        /\ store[id] # Nothing
                        /\ job.scan.fpm \ Present(site') \subseteq store[id].fpm
    OBVIOUS
  <2>1. PICK id \in Id : /\ store[id] # Nothing
                         /\ job.scan.fpm \ Foreign(site) \subseteq store[id].fpm
    BY <1>1 DEF SafetyInv, ScanSaved
  <2>2. site \in Site /\ job.scan.fpm \in SUBSET Dist
    BY <1>1, JobType DEF TypeInv, TypeOK
  <2>3. CleanAll \/ \E n \in Name : Pip(n)
    BY <1>1 DEF Next, vars, Tick, Create, Delete, BeginRestore, SetTag, DeleteTag,
       SaveScan, SaveFails, RemoveNew, Finish, Relink, External, ExternalFails,
       RelinkFails, BeginPick, PickTagged, EndPick, Die, Install, EditConf, Idle
  <2>4. CASE CleanAll
    <3>1. Present(site') = Foreign(site)
      BY <2>2, <2>4, WithoutPresent DEF CleanAll, Clean, Foreign
    <3> QED
      BY <2>1, <3>1
  <2>5. CASE \E n \in Name : Pip(n)
    <3>1. PICK n \in Name : Pip(n)
      BY <2>5
    <3>2. \A v \in Version : [name |-> n, ver |-> v] \in Dist
      BY DEF Dist
    <3>3. /\ \A v \in Version : PipInstall(site, [name |-> n, ver |-> v]) \in Site
          /\ PipUninstall(site, n) \in Site
      BY <2>2, <3>2, PipInstallType, PipUninstallType
    <3>4. /\ site' \in Site
          /\ \/ \E v \in Version : site' = PipInstall(site, [name |-> n, ver |-> v])
             \/ site' = PipUninstall(site, n)
      BY <3>1, <3>3 DEF Pip, Changes
    <3>5. \A e \in Dist : e.name # n => site'.mark[e] = site.mark[e]
      BY <3>4, PipElsewhere
    <3>6. \A e \in job.scan.fpm : e.name # n
      BY <1>1, <3>1 DEF Pip, NamesApart, SafetyInv, FpmNamed, Installs
    <3>7. job.scan.fpm \subseteq Present(site)
      BY <1>1 DEF SafetyInv, ScanThere
    <3>8. job.scan.fpm \subseteq Present(site')
      BY <2>2, <3>5, <3>6, <3>7 DEF Present
    <3> QED
      BY <2>1, <3>8
  <2> QED
    BY <2>3, <2>4, <2>5
<1>2. Init => TypeInv /\ SafetyInv
  BY InitType, InitSafety
<1>3. TypeInv /\ SafetyInv /\ [Next]_vars => (TypeInv /\ SafetyInv)'
  BY NextType, NextSafety
<1> QED
  BY <1>1, <1>2, <1>3, PTL DEF Spec, SafetyFirst

---------------------------------------------------------------------------
(* An undisturbed restore                                                  *)

(* Linking a wheel of a name that is not there marks it, and changes       *)
(* nothing of another name.                                                *)
LEMMA LinkMarkedExact ==
  ASSUME SortedListing, ExactWheels, site \in Site, NEW d \in Dist,
         \A e \in Present(site) : e.name # d.name
  PROVE  /\ FpmDists(LinkMarked(d)) = FpmDists(site) \cup {d}
         /\ Foreign(LinkMarked(d)) = Foreign(site)
         /\ LinkMarked(d).code = [site.code EXCEPT ![d.name] = d.ver]
<1> DEFINE s == Link(site, d)
<1>1. d \notin Present(site) /\ d.name \in Name
  BY DEF Dist
<1>2. s \in Site /\ s.code = [site.code EXCEPT ![d.name] = d.ver]
  BY LinkType DEF Link
<1>3. \A e \in Dist : s.mark[e] = IF e = d THEN "none" ELSE site.mark[e]
  BY <1>1, MarkOfSite DEF Link, Present
<1>4. Of(s, d.name) = {d}
  BY <1>3 DEF Of, Present
<1>5. FirstMatch(s, d.name) = {d}
  BY <1>1, <1>2, <1>4, FindsOwn
<1>6. LinkMarked(d) = MarkNames(s, {d.name})
  BY DEF LinkMarked, ExactWheels
<1> HIDE DEF s
<1>7. /\ LinkMarked(d).code = s.code
      /\ \A e \in Dist : LinkMarked(d).mark[e] =
           IF e = d THEN "fpm" ELSE site.mark[e]
  <2>1. /\ LinkMarked(d).code = s.code
        /\ \A e \in Dist : LinkMarked(d).mark[e] =
             IF \E n \in {d.name} : e \in FirstMatch(s, n) THEN "fpm" ELSE s.mark[e]
    BY <1>2, <1>6, MarkNamesPresent
  <2>2. \A e : (\E n \in {d.name} : e \in FirstMatch(s, n)) <=> e = d
    BY <1>5
  <2> QED
    BY <1>3, <2>1, <2>2
<1>8. FpmDists(LinkMarked(d)) = FpmDists(site) \cup {d}
  BY <1>7 DEF FpmDists
<1>9. Foreign(LinkMarked(d)) = Foreign(site)
  BY <1>1, <1>7, <1>8 DEF Foreign, Present, FpmDists
<1> QED
  BY <1>2, <1>7, <1>8, <1>9

(* A step that leaves site-packages, the scan, the snapshot and how far    *)
(* the restore is alone.                                                   *)
LEMMA SameRestore ==
  ASSUME RestoreInv, site' = site, job' = job
  PROVE  RestoreInv'
  BY DEF RestoreInv, Restorable, Relinked, SameExternals

LEMMA InitRestore == Init => RestoreInv
  BY DEF Init, RestoreInv, NoJob

LEMMA NextRestore ==
  ASSUME SortedListing, ExactWheels, TypeInv, RestoreInv, [Next]_vars
  PROVE  RestoreInv'
<1>j. /\ job.id \in Id /\ job.snap \in Snapshot /\ job.todo \in SUBSET Dist
      /\ job.scan.fpm \in SUBSET Dist /\ job.scan.ext \in SUBSET Dist
      /\ job.snap.fpm \in SUBSET Dist /\ job.snap.ext \in SUBSET Dist
      /\ site \in Site /\ job \in Job
  BY JobType, SnapshotType DEF TypeInv, TypeOK
<1>1. ASSUME UNCHANGED <<site, job>> PROVE RestoreInv'
  BY <1>1, SameRestore
<1>2. ASSUME job'.op \in {"none", "pick"} \/ job'.errors \/ ~job'.alone
      PROVE  RestoreInv'
  BY <1>2 DEF RestoreInv
<1>3. ASSUME NEW id \in Id, BeginRestore(id) PROVE RestoreInv'
  <2>1. /\ job'.op = "scanned" /\ job'.scan = Scan(site)
        /\ site' = site
    BY <1>3 DEF BeginRestore, NoJob
  <2> QED
    BY <2>1 DEF RestoreInv, Scan
<1>4. CASE SaveScan
  <2>1. /\ job'.op = "saved" /\ job'.scan = job.scan /\ job.op = "scanned"
        /\ job'.errors = job.errors /\ job'.alone = job.alone /\ site' = site
    BY <1>j, <1>4 DEF SaveScan, Job
  <2> QED
    BY <2>1 DEF RestoreInv
<1>5. CASE CleanAll
  <2>1. /\ job'.op = "linking" /\ job'.snap = job.snap /\ job'.scan = job.scan
        /\ job'.todo = job.snap.fpm /\ job.op = "saved" /\ job'.alone = job.alone
        /\ job'.errors = job.errors
    BY <1>j, <1>5 DEF CleanAll, Job
  <2>2. FpmDists(site') = {} /\ Foreign(site') = Foreign(site)
    BY <1>5, <1>j, WithoutPresent DEF CleanAll, Clean, Foreign
  <2> QED
    BY <2>1, <2>2 DEF RestoreInv, Relinked
<1>6. ASSUME NEW d \in Dist, Relink(d) PROVE RestoreInv'
  <2>1. /\ job'.op = "linking" /\ job'.snap = job.snap /\ job'.scan = job.scan
        /\ job'.todo = job.todo \ {d} /\ job.op = "linking" /\ d \in job.todo
        /\ job'.alone = job.alone /\ job'.errors = job.errors
    BY <1>j, <1>6 DEF Relink, Job
  <2> SUFFICES ASSUME job.alone, ~job.errors, Restorable
               PROVE  /\ job'.todo \subseteq job.snap.fpm
                      /\ FpmDists(site') = job.snap.fpm \ job'.todo
                      /\ \A e \in job.snap.fpm \ job'.todo :
                           site'.code[e.name] = e.ver
                      /\ Foreign(site') = job.scan.ext
    BY <2>1 DEF RestoreInv, Restorable, Relinked
  <2>2. /\ job.todo \subseteq job.snap.fpm /\ Relinked(job.snap.fpm \ job.todo)
        /\ Foreign(site) = job.scan.ext
    BY <2>1 DEF RestoreInv
  <2>3. d \in job.snap.fpm /\ d.name \in Name
    BY <2>1, <2>2 DEF Dist
  <2>4. ASSUME NEW e \in Present(site) PROVE e.name # d.name
    <3>1. CASE e \in FpmDists(site)
      <4>1. e \in job.snap.fpm /\ e \notin job.todo
        BY <2>2, <3>1 DEF Relinked
      <4> QED
        BY <2>1, <2>3, <4>1 DEF Restorable, OnePerName
    <3>2. CASE e \in Foreign(site)
      <4>1. e.name \in NamesOf(job.scan.ext \cup job.snap.ext)
        BY <2>2, <3>2 DEF NamesOf
      <4>2. d.name \in NamesOf(job.snap.fpm)
        BY <2>3 DEF NamesOf
      <4> QED
        BY <4>1, <4>2 DEF Restorable
    <3> QED
      BY <3>1, <3>2 DEF Foreign
  <2>5. /\ FpmDists(site') = FpmDists(site) \cup {d} /\ Foreign(site') = Foreign(site)
        /\ site'.code = [site.code EXCEPT ![d.name] = d.ver]
    BY <1>j, <1>6, <2>4, LinkMarkedExact DEF Relink
  <2>6. FpmDists(site') = job.snap.fpm \ job'.todo
    BY <2>1, <2>2, <2>3, <2>5 DEF Relinked
  <2>7. ASSUME NEW e \in job.snap.fpm \ job'.todo PROVE site'.code[e.name] = e.ver
    <3>1. site.code \in [Name -> Version \cup {NoVersion}] /\ e.name \in Name
      BY <1>j, MarkOfSite DEF Dist
    <3>2. CASE e = d
      BY <2>5, <3>1, <3>2
    <3>3. CASE e # d
      <4>1. e \in job.snap.fpm \ job.todo /\ e.name # d.name
        BY <2>1, <2>3, <3>3 DEF Restorable, OnePerName
      <4> QED
        BY <2>2, <2>5, <3>1, <4>1 DEF Relinked
    <3> QED
      BY <3>2, <3>3
  <2> QED
    BY <2>1, <2>2, <2>5, <2>6, <2>7
<1>7. CASE RemoveNew
  <2>1. /\ job'.op = "external" /\ job'.snap = job.snap /\ job'.scan = job.scan
        /\ job'.todo = job.snap.ext /\ job.op = "linking" /\ job.todo = {}
        /\ job'.alone = job.alone /\ job'.errors = job.errors
    BY <1>j, <1>7 DEF RemoveNew, Job
  <2> SUFFICES ASSUME job.alone, ~job.errors, Restorable
               PROVE  /\ Relinked(job.snap.fpm)'
                      /\ Foreign(site') = job.scan.ext
    BY <2>1 DEF RestoreInv, Restorable, Relinked
  <2>2. /\ FpmDists(site) = job.snap.fpm /\ Foreign(site) = job.scan.ext
        /\ \A d \in job.snap.fpm : site.code[d.name] = d.ver
    BY <2>1 DEF RestoreInv, Relinked
  <2> DEFINE N == NamesOf(job.scan.ext) \ NamesOf(All(job.snap))
  <2>3. site' = Without(site, {}, N)
    BY <1>7 DEF RemoveNew
  <2>4. FpmDists(site') = FpmDists(site) /\ Present(site') = Present(site)
    <3> HIDE DEF N
    <3>1. site'.mark = site.mark
      BY <1>j, <2>3, MarkOfSite DEF Without
    <3> QED
      BY <3>1 DEF FpmDists, Present
  <2>5. \A n \in Name : n \notin N => site'.code[n] = site.code[n]
    BY <2>3 DEF Without
  <2>6. \A d \in job.snap.fpm : d.name \in Name /\ d.name \notin N
    BY <1>j DEF NamesOf, All, Dist
  <2> HIDE DEF N
  <2> QED
    BY <2>1, <2>2, <2>4, <2>5, <2>6 DEF Foreign, Relinked
<1>8. ASSUME NEW d \in Dist, External(d) PROVE RestoreInv'
  <2>1. /\ job'.op = "external" /\ job'.snap = job.snap /\ job'.scan = job.scan
        /\ job'.todo = job.todo \ {d} /\ job.op = "external" /\ d \in job.todo
        /\ job'.alone = job.alone /\ job'.errors = job.errors
    BY <1>j, <1>8 DEF External, Job
  <2> SUFFICES ASSUME job.alone, ~job.errors, Restorable
               PROVE  /\ job'.todo \subseteq job.snap.ext
                      /\ Relinked(job.snap.fpm)'
                      /\ SameExternals =>
                           Foreign(site') = job.scan.ext \cup (job.snap.ext \ job'.todo)
    BY <2>1 DEF RestoreInv, Restorable, Relinked, SameExternals
  <2>2. /\ job.todo \subseteq job.snap.ext /\ Relinked(job.snap.fpm)
        /\ SameExternals =>
             Foreign(site) = job.scan.ext \cup (job.snap.ext \ job.todo)
    BY <2>1 DEF RestoreInv
  <2>3. d \in job.snap.ext /\ d \notin job.snap.fpm /\ d.name \in Name
    BY <1>j, <2>1, <2>2, SnapshotType DEF Dist
  <2>4. \A e \in job.snap.fpm : e.name # d.name /\ e.name \in Name
    <3>1. d.name \in NamesOf(job.scan.ext \cup job.snap.ext)
      BY <2>3 DEF NamesOf
    <3>2. \A e \in job.snap.fpm : e.name \in NamesOf(job.snap.fpm)
      BY DEF NamesOf
    <3>3. \A e \in job.snap.fpm : e.name # d.name
      BY <3>1, <3>2 DEF Restorable
    <3> QED
      BY <1>j, <3>3 DEF Dist
  <2>5. /\ FpmDists(site') = FpmDists(site)
        /\ \A n \in Name : n # d.name => site'.code[n] = site.code[n]
        /\ Present(site') = Present(site) \/ Present(site') = Present(site) \cup {d}
        /\ d \notin Scanned(d) => Present(site') = Present(site) \cup {d}
    <3>1. /\ RemoveFiles(site, d.name) \in Site
          /\ FpmDists(RemoveFiles(site, d.name)) = FpmDists(site)
          /\ Present(RemoveFiles(site, d.name)) = Present(site)
          /\ \A n \in Name : n # d.name =>
               RemoveFiles(site, d.name).code[n] = site.code[n]
      BY <1>j, <2>3, RemoveFilesEffect
    <3>2. CASE site' = PipTarget(site, d)
      BY <1>j, <3>2, PipTargetEffect
    <3>3. CASE site' = PipTarget(RemoveFiles(site, d.name), d)
      BY <3>1, <3>3, PipTargetEffect
    <3>4. CASE site' = site /\ d \in Scanned(d)
      BY <3>4
    <3> QED
      BY <1>8, <3>2, <3>3, <3>4 DEF External
  <2>6. Relinked(job.snap.fpm)'
    BY <2>1, <2>2, <2>4, <2>5 DEF Relinked
  <2>7. ASSUME SameExternals
        PROVE  Foreign(site') = job.scan.ext \cup (job.snap.ext \ job'.todo)
    <3>1. d \in Scanned(d) => d \in job.scan.ext
      <4>1. d \in Scanned(d) => d \in job.scan.fpm \cup job.scan.ext
        BY DEF Scanned, All
      <4>2. d \in job.scan.fpm => d.name \in NamesOf(job.scan.fpm)
        BY DEF NamesOf
      <4>3. d.name \in NamesOf(job.snap.ext)
        BY <2>3 DEF NamesOf
      <4> QED
        BY <2>7, <4>1, <4>2, <4>3 DEF SameExternals
    <3>2. d \in Scanned(d) => d \in Present(site)
      BY <2>2, <2>7, <3>1 DEF Foreign
    <3>3. Present(site') = Present(site) \cup {d} /\ d \notin FpmDists(site)
      BY <2>2, <2>3, <2>5, <3>2 DEF Relinked
    <3>4. Foreign(site') = Foreign(site) \cup {d}
      BY <2>5, <3>3 DEF Foreign
    <3> QED
      BY <2>1, <2>2, <2>3, <2>7, <3>4
  <2> QED
    BY <2>1, <2>2, <2>6, <2>7
<1>9. CASE Finish \/ EndPick \/ Die
  <2>1. job'.op = "none"
    BY <1>9 DEF Finish, EndPick, Die, NoJob
  <2> QED
    BY <1>2, <2>1
<1>e. CASE SaveFails
  <2>1. job'.errors
    BY <1>e, <1>j DEF SaveFails, Job
  <2> QED
    BY <1>2, <2>1
<1>10. ASSUME NEW d \in Dist, NEW id, BeginPick(id, d) PROVE RestoreInv'
  BY <1>10, <1>2 DEF BeginPick, NoJob
<1>11. ASSUME NEW d \in Dist,
              ExternalFails(d) \/ \E s : RelinkFails(d, s)
       PROVE  RestoreInv'
  BY <1>11, <1>2, <1>j DEF ExternalFails, RelinkFails, Job
<1>12. ASSUME NEW s, Changes(s) PROVE RestoreInv'
  <2>1. job'.op = job.op /\ (job.op # "none" => ~job'.alone)
    BY <1>12, <1>j DEF Changes, Idle, Job
  <2> QED
    BY <1>2, <2>1
<1>13. ASSUME NEW n \in Name, Pip(n) PROVE RestoreInv'
  BY <1>12, <1>13 DEF Pip
<1>14. ASSUME NEW d \in Dist, Install(d) PROVE RestoreInv'
  BY <1>12, <1>14 DEF Install
<1>15. ASSUME NEW pointer, Create(pointer) PROVE RestoreInv'
  BY <1>1, <1>15 DEF Create
<1>16. ASSUME NEW id, Delete(id) PROVE RestoreInv'
  BY <1>1, <1>16 DEF Delete
<1>17. ASSUME NEW t, NEW id, SetTag(t, id) PROVE RestoreInv'
  BY <1>1, <1>17 DEF SetTag
<1>18. ASSUME NEW t, DeleteTag(t) PROVE RestoreInv'
  BY <1>1, <1>18 DEF DeleteTag
<1>19. ASSUME NEW c, EditConf(c) PROVE RestoreInv'
  BY <1>1, <1>19 DEF EditConf
<1>20. ASSUME NEW d \in Dist, NEW t, PickTagged(t, d) PROVE RestoreInv'
  BY <1>10, <1>20 DEF PickTagged
<1>21. CASE Tick \/ UNCHANGED vars
  BY <1>1, <1>21 DEF Tick, vars
<1> QED
  BY <1>3, <1>4, <1>5, <1>6, <1>7, <1>8, <1>9, <1>e, <1>10, <1>11, <1>13, <1>14,
     <1>15, <1>16, <1>17, <1>18, <1>19, <1>20, <1>21 DEF Next

LEMMA RestoreInvariant ==
  ASSUME SortedListing, ExactWheels
  PROVE  Spec => [](TypeInv /\ RestoreInv)
<1>1. Init => TypeInv /\ RestoreInv
  BY InitType, InitRestore
<1>2. TypeInv /\ RestoreInv /\ [Next]_vars => (TypeInv /\ RestoreInv)'
  BY NextType, NextRestore
<1> QED
  BY <1>1, <1>2, PTL DEF Spec

(* Only its last step lets a restore return without an error.              *)
LEMMA RestoredFinish ==
  ASSUME TypeInv, [Next]_vars, Restored
  PROVE  Finish
<1>1. job.op = "external" /\ job' # job /\ ops' = ops /\ ops \in Nat
  BY DEF Restored, NoJob, TypeInv, TypeOK
<1>2. ~Count
  BY <1>1 DEF Count
<1>3. \A d \in Dist : ~External(d)
  BY JobType, <1>1 DEF Restored, External, TypeInv, TypeOK, Job, NoJob
<1> QED
  BY <1>1, <1>2, <1>3
  DEF Next, vars, Tick, Create, Delete, BeginRestore, SetTag, DeleteTag, SaveScan,
      SaveFails, CleanAll, RemoveNew, Relink, ExternalFails, RelinkFails,
      BeginPick, PickTagged, EndPick, Die, Install, Pip, Changes, EditConf, Idle

(* A restore nobody disturbs, and that meets no error, brings fpm's        *)
(* packages back, with their files.                                        *)
THEOREM RestoreBringsBack ==
  ASSUME SortedListing, ExactWheels
  PROVE  Spec => RestoredFpm
<1> DEFINE A ==
      /\ Restored /\ job.alone
      /\ NamesOf(job.scan.ext \cup job.snap.ext) \cap NamesOf(job.snap.fpm) = {}
      /\ OnePerName(job.snap.fpm)
      => /\ FpmDists(site) = job.snap.fpm
         /\ \A d \in job.snap.fpm : site.code[d.name] = d.ver
<1>1. TypeInv /\ RestoreInv => A
  BY DEF RestoreInv, Restored, Restorable, Relinked
<1>2. TypeInv /\ RestoreInv /\ [Next]_vars => [A]_vars
  BY <1>1
<1>3. Spec => [](TypeInv /\ RestoreInv)
  BY RestoreInvariant
<1> QED
  BY <1>2, <1>3, PTL DEF Spec, RestoredFpm

(* When no package of another manager came or changed either,              *)
(* site-packages is what the snapshot lists,                               *)
LEMMA RestoredPresent ==
  ASSUME TypeInv, RestoreInv, [Next]_vars, Restored, SameExternals,
         OnePerName(All(job.snap))
  PROVE  Present(site) = All(job.snap)
<1>1. job.todo = {} /\ job.op = "external" /\ ~job.errors /\ job.alone
  BY RestoredFinish DEF Finish, Restored, SameExternals
<1>2. /\ job.snap.fpm \cap job.snap.ext = {} /\ job.scan.ext \subseteq job.snap.ext
  BY JobType, SnapshotType DEF TypeInv, TypeOK, SameExternals
<1>3. Restorable
  <2>1. \A d \in job.snap.fpm, e \in job.snap.ext : d.name # e.name
    BY <1>2 DEF OnePerName, All
  <2>2. job.scan.ext \cup job.snap.ext = job.snap.ext
    BY <1>2
  <2>3. NamesOf(job.snap.ext) \cap NamesOf(job.snap.fpm) = {}
    BY <2>1 DEF NamesOf
  <2> QED
    BY <2>2, <2>3 DEF Restorable, OnePerName, All
<1>4. FpmDists(site) = job.snap.fpm /\ Foreign(site) = job.snap.ext
  BY <1>1, <1>2, <1>3 DEF RestoreInv, Relinked
<1>5. FpmDists(site) \subseteq Present(site)
  BY DEF FpmDists, Present
<1> QED
  BY <1>4, <1>5 DEF Foreign, All

(* and `fpm snapshot diff` finds no difference.                            *)
LEMMA SameViews ==
  ASSUME NEW D, OnePerName(D), NEW old \in Views(D), NEW new \in Views(D)
  PROVE  Diff(old, new) = NoDifference
<1>1. DOMAIN old = NamesOf(D) /\ DOMAIN new = NamesOf(D)
  BY DEF Views
<1>2. \A n \in NamesOf(D) : old[n] = new[n]
  <2> TAKE n \in NamesOf(D)
  <2>1. /\ [name |-> n, ver |-> old[n]] \in D /\ [name |-> n, ver |-> new[n]] \in D
    BY DEF Views
  <2>2. [name |-> n, ver |-> old[n]] = [name |-> n, ver |-> new[n]]
    BY <2>1 DEF OnePerName
  <2> QED
    BY <2>2
<1> QED
  BY <1>1, <1>2 DEF Diff, NoDifference

THEOREM RestoreLeavesNoDifference ==
  ASSUME SortedListing, ExactWheels
  PROVE  Spec => RestoredMatches
<1> DEFINE A ==
      Restored /\ SameExternals /\ OnePerName(All(job.snap)) =>
        \A old \in Views(All(job.snap)), new \in Views(Present(site)) :
          Diff(old, new) = NoDifference
<1>1. ASSUME TypeInv, RestoreInv, [Next]_vars PROVE [A]_vars
  BY <1>1, RestoredPresent, SameViews
<1>2. TypeInv /\ RestoreInv /\ [Next]_vars => [A]_vars
  BY <1>1
<1>3. Spec => [](TypeInv /\ RestoreInv)
  BY RestoreInvariant
<1> QED
  BY <1>2, <1>3, PTL DEF Spec, RestoredMatches
=============================================================================
