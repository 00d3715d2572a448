------------------------------ MODULE Snapshots ------------------------------
(***************************************************************************)
(* The snapshots of one environment: `fpm snapshot create`, `delete`,      *)
(* `diff` and `restore`, `fpm tag` and `fpm cherry-pick` (internal/cli,    *)
(* internal/snapshot), next to installs from another terminal and pip.     *)
(*                                                                         *)
(*   site     site-packages (module SitePackages)                          *)
(*   conf     fpm.toml of the project                                      *)
(*   store    the snapshot files, by identifier                            *)
(*   current  the file `current` of the store                              *)
(*   tags     tags.json                                                    *)
(*   now      the second the clock shows                                   *)
(*   job      the restore or cherry-pick that is running                   *)
(*                                                                         *)
(* An identifier is the second of the capture and a counter that starts    *)
(* again with every process, so that two processes of one second name the  *)
(* same file.  A restore reads the snapshot and scans the environment      *)
(* before it takes the environment lock, which only installs respect.      *)
(***************************************************************************)
EXTENDS SitePackages

CONSTANTS
  FpmNames,  \* what the other terminal installs with fpm
  PipNames,  \* what pip installs and uninstalls
  Wheel,     \* the first file of d's index page whose name contains d's version
  Conf,      \* contents of fpm.toml
  Tag,       \* tag names
  Nothing,   \* no file, no snapshot, no tag
  MaxNow,    \* bound: seconds
  MaxOps     \* bound: commands, pip's included, and failures

Id == 0..MaxNow

Snapshot == {s \in [fpm: SUBSET Dist, ext: SUBSET Dist, toml: Conf \cup {Nothing}] :
               s.fpm \cap s.ext = {}}

ASSUME SnapshotsAssumption ==
  /\ FpmNames \subseteq Name /\ PipNames \subseteq Name
  /\ Wheel \in [Dist -> Dist]
  /\ \A d \in Dist : Wheel[d].name = d.name
  /\ MaxNow \in Nat /\ MaxOps \in Nat
  /\ Nothing \notin Conf \cup Id \cup Snapshot

VARIABLES site, conf, store, current, tags, now, job, ops

vars == <<site, conf, store, current, tags, now, job, ops>>

(* A scan that lists every package under both headings (a mutant).         *)
ScanTwice(s) == [fpm |-> FpmDists(s), ext |-> Present(s)]

(* Scanner.Scan, with the managers told apart as Restore does.             *)
Scan(s) == [fpm |-> FpmDists(s), ext |-> Foreign(s)]

(* Store.Capture of a scan: fpm.toml is read when the snapshot is written. *)
Captured(scan) == [fpm |-> scan.fpm, ext |-> scan.ext, toml |-> conf]

(* writeSnapshot and SetCurrent.                                           *)
WriteSnapshot(scan, pointer) ==
  /\ store' = [store EXCEPT ![now] = Captured(scan)]
  /\ current' = pointer

All(s) == s.fpm \cup s.ext

NoSnapshot == [fpm |-> {}, ext |-> {}, toml |-> Nothing]

(* alone: nobody else touched site-packages since the scan (history only). *)
NoJob == [op |-> "none", id |-> 0, snap |-> NoSnapshot,
          scan |-> [fpm |-> {}, ext |-> {}], todo |-> {},
          errors |-> FALSE, alone |-> TRUE]

Job == [op: {"none", "scanned", "saved", "linking", "external", "pick"},
        id: Id, snap: Snapshot, scan: [fpm: SUBSET Dist, ext: SUBSET Dist],
        todo: SUBSET Dist, errors: BOOLEAN, alone: BOOLEAN]

TypeOK ==
  /\ site \in Site
  /\ conf \in Conf \cup {Nothing}
  /\ store \in [Id -> Snapshot \cup {Nothing}]
  /\ current \in Id \cup {Nothing}
  /\ tags \in [Tag -> Id \cup {Nothing}]
  /\ now \in Id
  /\ job \in Job
  /\ ops \in 0..MaxOps

Init ==
  /\ site = EmptySite
  /\ conf = Nothing
  /\ store = [id \in Id |-> Nothing]
  /\ current = Nothing
  /\ tags = [t \in Tag |-> Nothing]
  /\ now = 0
  /\ job = NoJob
  /\ ops = 0

Idle == job.op = "none"
Count == ops < MaxOps /\ ops' = ops + 1

Tick ==
  /\ now < MaxNow
  /\ now' = now + 1
  /\ UNCHANGED <<site, conf, store, current, tags, job, ops>>

---------------------------------------------------------------------------
(* Snapshots and tags                                                      *)

(* `fpm snapshot create`, at any time and under no lock: the snapshot file *)
(* and then `current`, which a failure in between leaves as it was.        *)
Create(pointer) ==
  /\ Count
  /\ pointer \in {now, current}
  /\ WriteSnapshot(Scan(site), pointer)
  /\ UNCHANGED <<site, conf, tags, now, job>>

(* The file goes; `current` and the tags may go on naming it.              *)
Delete(id) ==
  /\ Idle /\ Count
  /\ store[id] # Nothing
  /\ store' = [store EXCEPT ![id] = Nothing]
  /\ UNCHANGED <<site, conf, current, tags, now, job>>

(* `fpm tag t id` asks for no such snapshot.  Without an id it fails: the  *)
(* snapshots it looks for are kept elsewhere.                              *)
SetTag(t, id) ==
  /\ Idle /\ Count
  /\ tags' = [tags EXCEPT ![t] = id]
  /\ UNCHANGED <<site, conf, store, current, now, job>>

DeleteTag(t) ==
  /\ Idle /\ Count
  /\ tags[t] # Nothing
  /\ tags' = [tags EXCEPT ![t] = Nothing]
  /\ UNCHANGED <<site, conf, store, current, now, job>>

(* What the maps of DiffSnapshots hold of a set of packages: one version   *)
(* of every name, whichever comes last.                                    *)
Views(D) == {f \in [NamesOf(D) -> Version] :
               \A n \in NamesOf(D) : [name |-> n, ver |-> f[n]] \in D}

(* DiffSnapshots: the manager is not compared.                             *)
Diff(old, new) ==
  [added   |-> DOMAIN new \ DOMAIN old,
   removed |-> DOMAIN old \ DOMAIN new,
   changed |-> {n \in DOMAIN old \cap DOMAIN new : old[n] # new[n]}]

NoDifference == [added |-> {}, removed |-> {}, changed |-> {}]

---------------------------------------------------------------------------
(* fpm snapshot restore                                                    *)

(* The snapshot and the scan; the person may then be asked about conflicts *)
(* with the system's packages (the answer changes nothing but an abort:    *)
(* the list Restore works from is never filled).                           *)
BeginRestore(id) ==
  /\ Idle /\ Count
  /\ store[id] # Nothing
  /\ job' = [NoJob EXCEPT !.op = "scanned", !.id = id, !.snap = store[id],
                          !.scan = Scan(site)]
  /\ UNCHANGED <<site, conf, store, current, tags, now>>

(* Mutant: no safety snapshot.                                             *)
NotSaved ==
  /\ job.op = "scanned"
  /\ job' = [job EXCEPT !.op = "saved"]
  /\ UNCHANGED <<site, conf, store, current, tags, now, ops>>

(* Under the lock: the safety snapshot of the scan made before it.         *)
SaveScan ==
  /\ job.op = "scanned"
  /\ WriteSnapshot(job.scan, now)
  /\ job' = [job EXCEPT !.op = "saved"]
  /\ UNCHANGED <<site, conf, tags, now, ops>>

(* Its error is dropped.  (history: errors)                                *)
SaveFails ==
  /\ job.op = "scanned" /\ Count
  /\ job' = [job EXCEPT !.op = "saved", !.errors = TRUE]
  /\ UNCHANGED <<site, conf, store, current, tags, now>>

(* CleanSitePackages takes what is fpm's now.                              *)
CleanAll ==
  /\ job.op = "saved"
  /\ site' = Clean(site)
  /\ job' = [job EXCEPT !.op = "linking", !.todo = job.snap.fpm]
  /\ UNCHANGED <<conf, store, current, tags, now, ops>>

(* Mutant: linked, and left to look like another manager's.                *)
LinkUnmarked(d) == Link(site, Wheel[d])

(* redownloadPackage and writeInstallerFile: no snapshot has CAS keys.     *)
LinkMarked(d) == MarkNames(Link(site, Wheel[d]), {d.name})

Relink(d) ==
  /\ job.op = "linking" /\ d \in job.todo
  /\ site' = LinkMarked(d)
  /\ job' = [job EXCEPT !.todo = @ \ {d}]
  /\ UNCHANGED <<conf, store, current, tags, now, ops>>

(* The download fails twice, once, or in the middle of linking.            *)
RelinkFails(d, s) ==
  /\ job.op = "linking" /\ d \in job.todo /\ Count
  /\ s \in {site, Link(site, Wheel[d]), LinkMarked(d)}
  /\ site' = s
  /\ job' = [job EXCEPT !.todo = @ \ {d}, !.errors = TRUE]
  /\ UNCHANGED <<conf, store, current, tags, now>>

(* The files of other managers' packages that the snapshot does not name.  *)
RemoveNew ==
  /\ job.op = "linking" /\ job.todo = {}
  /\ site' = Without(site, {}, NamesOf(job.scan.ext) \ NamesOf(All(job.snap)))
  /\ job' = [job EXCEPT !.op = "external", !.todo = job.snap.ext]
  /\ UNCHANGED <<conf, store, current, tags, now, ops>>

(* The version the scan listed last for the name of d, if any.             *)
Scanned(d) ==
  LET same == {e \in All(job.scan) : e.name = d.name}
  IN  {e \in same : \A f \in same : Rank[f] <= Rank[e]}

(* One package of another manager: missing, of another version, or there.  *)
External(d) ==
  /\ job.op = "external" /\ d \in job.todo
  /\ site' = IF Scanned(d) = {} THEN PipTarget(site, d)
             ELSE IF d \notin Scanned(d) THEN PipTarget(RemoveFiles(site, d.name), d)
             ELSE site
  /\ job' = [job EXCEPT !.todo = @ \ {d}]
  /\ UNCHANGED <<conf, store, current, tags, now, ops>>

(* pip fails, after the files of the other version are gone.               *)
ExternalFails(d) ==
  /\ job.op = "external" /\ d \in job.todo /\ d \notin Scanned(d) /\ Count
  /\ site' = IF Scanned(d) = {} THEN site ELSE RemoveFiles(site, d.name)
  /\ job' = [job EXCEPT !.todo = @ \ {d}, !.errors = TRUE]
  /\ UNCHANGED <<conf, store, current, tags, now>>

(* fpm.toml becomes what it was, or goes; errors do not matter.            *)
Finish ==
  /\ job.op = "external" /\ job.todo = {}
  /\ conf' = job.snap.toml
  /\ current' = job.id
  /\ job' = NoJob
  /\ UNCHANGED <<site, store, tags, now, ops>>

---------------------------------------------------------------------------
(* fpm cherry-pick: no lock, no INSTALLER                                  *)

(* A reference is a tag or an identifier; the package of that name in the  *)
(* snapshot is downloaded and what is installed of the name goes.          *)
BeginPick(id, d) ==
  /\ Idle /\ Count
  /\ store[id] # Nothing
  /\ d \in All(store[id])
  /\ site' = Uninstall(site, d.name, FALSE)
  /\ job' = [NoJob EXCEPT !.op = "pick", !.todo = {Wheel[d]}]
  /\ UNCHANGED <<conf, store, current, tags, now>>

PickTagged(t, d) == tags[t] # Nothing /\ BeginPick(tags[t], d)

EndPick ==
  /\ job.op = "pick"
  /\ \E d \in job.todo : site' = Link(site, d)
  /\ job' = NoJob
  /\ UNCHANGED <<conf, store, current, tags, now, ops>>

---------------------------------------------------------------------------
(* Others                                                                  *)

(* A restore or a cherry-pick is killed.                                   *)
Die ==
  /\ ~Idle /\ Count
  /\ job' = NoJob
  /\ UNCHANGED <<site, conf, store, current, tags, now>>

Changes(s) ==
  /\ Count
  /\ site' = s
  /\ job' = [job EXCEPT !.alone = Idle]
  /\ UNCHANGED <<conf, store, current, tags, now>>

(* `fpm install` waits for the environment lock.                           *)
Install(d) ==
  /\ job.op \in {"none", "scanned", "pick"}
  /\ d.name \in FpmNames
  /\ Changes(MarkNames(Swap(site, {d}), {d.name}))

Pip(n) ==
  /\ n \in PipNames
  /\ \/ \E v \in Version : Changes(PipInstall(site, [name |-> n, ver |-> v]))
     \/ Of(site, n) # {} /\ Changes(PipUninstall(site, n))

EditConf(c) ==
  /\ Idle /\ Count
  /\ c # conf
  /\ conf' = c
  /\ UNCHANGED <<site, store, current, tags, now, job>>

Next ==
  \/ Tick
  \/ \E pointer \in Id \cup {Nothing} : Create(pointer)
  \/ \E id \in Id : Delete(id) \/ BeginRestore(id)
  \/ \E t \in Tag, id \in Id : SetTag(t, id)
  \/ \E t \in Tag : DeleteTag(t)
  \/ SaveScan \/ SaveFails \/ CleanAll \/ RemoveNew \/ Finish
  \/ \E d \in Dist : Relink(d) \/ External(d) \/ ExternalFails(d)
  \/ \E d \in Dist : \E s \in {site, Link(site, Wheel[d]), LinkMarked(d)} :
       RelinkFails(d, s)
  \/ \E d \in Dist, id \in Id : BeginPick(id, d)
  \/ \E d \in Dist, t \in Tag : PickTagged(t, d)
  \/ EndPick \/ Die
  \/ \E d \in Dist : Install(d)
  \/ \E n \in Name : Pip(n)
  \/ \E c \in Conf \cup {Nothing} : EditConf(c)

Spec == Init /\ [][Next]_vars
---------------------------------------------------------------------------
(* What a restore promises                                                 *)

(* A restore returns without having met an error.                          *)
Restored ==
  job.op = "external" /\ job' = NoJob /\ ops' = ops /\ ~job.errors

OnePerName(D) == \A d, e \in D : d.name = e.name => d = e

(* A restore without errors that nobody disturbs brings fpm's packages     *)
(* back: the same dist-info directories, marked, with the files of those   *)
(* versions, unless another manager has one of the same name               *)
(* (writeInstallerFile marks the first) or the snapshot has two versions   *)
(* of a name.                                                              *)
RestoredFpm ==
  [][/\ Restored /\ job.alone
     /\ NamesOf(job.scan.ext \cup job.snap.ext) \cap NamesOf(job.snap.fpm) = {}
     /\ OnePerName(job.snap.fpm)
     => /\ FpmDists(site) = job.snap.fpm
        /\ \A d \in job.snap.fpm : site.code[d.name] = d.ver]_vars

(* Whatever the restore's cleaning takes of what its scan saw is in some   *)
(* snapshot file, if the safety snapshot was written at all.               *)
SafetyFirst ==
  [][job.op = "saved" /\ ~job.errors /\ site' # site =>
       \E id \in Id : /\ store[id] # Nothing
                      /\ job.scan.fpm \ Present(site') \subseteq store[id].fpm]_vars

(* No package of another manager came or changed since the snapshot, and   *)
(* none changed manager.                                                   *)
SameExternals ==
  /\ job.alone
  /\ job.scan.ext \subseteq job.snap.ext
  /\ NamesOf(job.scan.fpm) \cap NamesOf(job.snap.ext) = {}

(* Then, when nobody interferes, `fpm snapshot diff` finds no difference   *)
(* after the restore.                                                      *)
RestoredMatches ==
  [][Restored /\ SameExternals /\ OnePerName(All(job.snap)) =>
       \A old \in Views(All(job.snap)), new \in Views(Present(site)) :
         Diff(old, new) = NoDifference]_vars

(* "Full-fidelity restore", "New package added after snapshot: removes     *)
(* it": without interference the environment is what was captured.         *)
RestoreExact ==
  [][Restored /\ job.alone => Present(site) = All(job.snap)]_vars
=============================================================================
