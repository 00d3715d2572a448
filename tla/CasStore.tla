-------------------------------- MODULE CasStore --------------------------------
(***************************************************************************)
(* The cache that all environments and users share (internal/cache):       *)
(* downloaded wheels, the content-addressed store that extracted trees are *)
(* renamed into, and the by-cas reference index; with the processes that   *)
(* fill it (install, sync) and the one that cleans it (cache gc, prune,    *)
(* clean).                                                                 *)
(*                                                                         *)
(* No lock guards the store.  A reference file has one, which gc does not  *)
(* take; os.WriteFile truncates it before it writes it.  A Key stands for  *)
(* a wheel and for the digest its tree is stored under; a wheel that grows *)
(* between being hashed and being opened, and so is stored under a digest  *)
(* nobody asks for, is left out, and so is the by-env index, which nobody  *)
(* reads.                                                                  *)
(***************************************************************************)
EXTENDS FiniteSets

CONSTANTS
  Key,      \* wheels
  Env,      \* environments
  Global,   \* those recorded as "global:<python>", which is no path
  Proc,     \* processes that install
  Careful,  \* maintenance runs alone, and nothing stops it inside an entry
  Nothing   \* no key

ASSUME CasAssumption ==
  Global \subseteq Env /\ Careful \in BOOLEAN /\ Nothing \notin Key

VARIABLES
  wheel,    \* wheels/<file>: absent, partial or whole
  cas,      \* the tree in the store: absent, broken or whole
  refs,     \* the environments in the by-cas reference file, or about to be
            \* written to it
  recorded, \* those whose AddReference has returned, until gc or clean
            \* removes the file (history)
  torn,     \* keys whose file was left truncated since then (history)
  there,    \* the environments that exist
  holes,    \* <<environment, key>> linked from a broken tree, with no error,
            \* into the environment (sync) or its staging directory (install)
  pc, env, key, checks,   \* what every installing process does, where, with
            \* what, and whether it has yet to check a hash
  writing,  \* its handle on the wheel: of the current file and truncated
            \* last ("last") or not ("earlier"), or none
  tmp,      \* the tree it extracts in tmp/
  gc,       \* the maintenance command and where it is
  doomed,   \* the entries it has listed for removal
  victim    \* the one it is removing

index == <<refs, recorded, torn>>
store == <<wheel, cas, index>>
proc == <<pc, env, key, checks, writing, tmp>>
sweep == <<gc, doomed, victim>>
vars == <<store, there, holes, proc, sweep>>

Entry == {"absent", "broken", "whole"}
PC == {"idle", "stat", "create", "download", "verify", "store", "extract",
       "rename", "link", "refer", "write"}

TypeOK ==
  /\ wheel \in [Key -> {"absent", "partial", "whole"}]
  /\ cas \in [Key -> Entry]
  /\ refs \in [Key -> SUBSET Env] /\ recorded \in [Key -> SUBSET Env]
  /\ torn \in SUBSET Key
  /\ there \in SUBSET Env
  /\ holes \in SUBSET (Env \X Key)
  /\ pc \in [Proc -> PC] /\ env \in [Proc -> Env] /\ key \in [Proc -> Key]
  /\ checks \in [Proc -> BOOLEAN]
  /\ writing \in [Proc -> {"none", "earlier", "last"}]
  /\ tmp \in [Proc -> {"none", "part", "holed", "whole"}]
  /\ \A p \in Proc : writing[p] # "none" => pc[p] = "download" /\ wheel[key[p]] # "absent"
  /\ gc \in {"idle", "gc", "clean", "removing", "removed"}
  /\ doomed \in SUBSET Key
  /\ victim \in Key \cup {Nothing} /\ (victim # Nothing <=> gc \in {"removing", "removed"})

Init ==
  /\ wheel = [k \in Key |-> "absent"]
  /\ cas = [k \in Key |-> "absent"]
  /\ refs = [k \in Key |-> {}] /\ recorded = [k \in Key |-> {}]
  /\ torn = {}
  /\ there = Env
  /\ holes = {}
  /\ pc = [p \in Proc |-> "idle"]
  /\ env \in [Proc -> Env] /\ key \in [Proc -> Key]
  /\ checks = [p \in Proc |-> FALSE]
  /\ writing = [p \in Proc |-> "none"]
  /\ tmp = [p \in Proc |-> "none"]
  /\ gc = "idle" /\ doomed = {} /\ victim = Nothing

MayInstall == Careful => gc = "idle"
MayClean == gc = "idle" /\ (Careful => \A p \in Proc : pc[p] = "idle")

---------------------------------------------------------------------------
(* One wheel on its way into one environment                               *)

Goto(p, s) == pc' = [pc EXCEPT ![p] = s]

(* The command ends, or skips the package.  A tree it leaves in tmp has a  *)
(* name nobody uses again.                                                 *)
Stop(p) == Goto(p, "idle") /\ tmp' = [tmp EXCEPT ![p] = "none"]

(* No hash is left to check.                                               *)
Unchecked(p) == checks' = [checks EXCEPT ![p] = FALSE]

(* A removal that forgets the handles: a fault the runs must notice.       *)
KeepHandles(k) == writing

(* Handles on the file of k: a removal makes them useless, a truncation    *)
(* leaves them behind.                                                     *)
Unlinked(k) == [q \in Proc |-> IF key[q] = k THEN "none" ELSE writing[q]]
Truncated(p) ==
  [q \in Proc |-> IF q = p THEN "last"
                  ELSE IF key[q] = key[p] /\ writing[q] = "last" THEN "earlier"
                  ELSE writing[q]]

(* install checks the hash the index gives; sync, and an install from an   *)
(* index without hashes, check nothing.                                    *)
Begin(p, e, k, check) ==
  /\ pc[p] = "idle" /\ e \in there /\ MayInstall
  /\ Goto(p, "stat")
  /\ env' = [env EXCEPT ![p] = e]
  /\ key' = [key EXCEPT ![p] = k]
  /\ checks' = [checks EXCEPT ![p] = check]
  /\ UNCHANGED <<store, there, holes, writing, tmp, sweep>>

(* A wheel that is there is taken for one whose download was completed.    *)
StatWheel(p) ==
  /\ pc[p] = "stat"
  /\ Goto(p, IF wheel[key[p]] = "absent" THEN "create" ELSE "verify")
  /\ UNCHANGED <<store, there, holes, env, key, checks, writing, tmp, sweep>>

(* os.Create truncates the file another process may have made meanwhile.   *)
CreateWheel(p) ==
  /\ pc[p] = "create"
  /\ wheel' = [wheel EXCEPT ![key[p]] = "partial"]
  /\ writing' = Truncated(p)
  /\ Goto(p, "download")
  /\ UNCHANGED <<cas, index, there, holes, env, key, checks, tmp, sweep>>

(* The process that truncated the file last writes all of it; one that has *)
(* been truncated may or may not find the gap before its bytes filled.     *)
FinishDownload(p) ==
  /\ pc[p] = "download"
  /\ \/ writing[p] # "last" /\ UNCHANGED wheel
     \/ writing[p] # "none" /\ wheel' = [wheel EXCEPT ![key[p]] = "whole"]
  /\ writing' = [writing EXCEPT ![p] = "none"]
  /\ Goto(p, "verify")
  /\ UNCHANGED <<cas, index, there, holes, env, key, checks, tmp, sweep>>

(* A failed download removes the file, whoever is using it.                *)
FailDownload(p) ==
  /\ pc[p] = "download"
  /\ wheel' = [wheel EXCEPT ![key[p]] = "absent"]
  /\ writing' = Unlinked(key[p])
  /\ Stop(p) /\ Unchecked(p)
  /\ UNCHANGED <<cas, index, there, holes, env, key, sweep>>

Verify(p) ==
  /\ pc[p] = "verify"
  /\ IF checks[p] /\ wheel[key[p]] # "whole"
     THEN /\ wheel' = [wheel EXCEPT ![key[p]] = "absent"]
          /\ writing' = Unlinked(key[p])
          /\ Stop(p)
     ELSE Goto(p, "store") /\ UNCHANGED <<wheel, writing, tmp>>
  /\ Unchecked(p)
  /\ UNCHANGED <<cas, index, there, holes, env, key, sweep>>

(* Any entry under the digest will do.  A partial wheel has some other     *)
(* digest and is no zip archive: extraction fails.                         *)
Store(p) ==
  /\ pc[p] = "store"
  /\ IF wheel[key[p]] # "whole" THEN Stop(p)
     ELSE IF cas[key[p]] # "absent" THEN Goto(p, "link") /\ UNCHANGED tmp
     ELSE Goto(p, "extract") /\ tmp' = [tmp EXCEPT ![p] = "part"]
  /\ UNCHANGED <<store, there, holes, env, key, checks, writing, sweep>>

(* A fault: extraction straight into the store.                            *)
ExtractInPlace(p) ==
  /\ pc[p] = "extract" /\ wheel[key[p]] = "whole"
  /\ cas' = [cas EXCEPT ![key[p]] = "broken"]
  /\ Goto(p, "link")
  /\ UNCHANGED <<wheel, index, there, holes, env, key, checks, writing, tmp, sweep>>

(* Files written after prune emptied tmp make the directories anew.        *)
Extract(p) ==
  /\ pc[p] = "extract" /\ wheel[key[p]] = "whole"
  /\ tmp' = [tmp EXCEPT ![p] = IF tmp[p] = "part" THEN "whole" ELSE "holed"]
  /\ Goto(p, "rename")
  /\ UNCHANGED <<store, there, holes, env, key, checks, writing, sweep>>

(* os.Rename refuses a directory as its target.                            *)
Rename(p) ==
  /\ pc[p] = "rename"
  /\ IF cas[key[p]] = "absent" /\ tmp[p] # "none"
     THEN /\ cas' = [cas EXCEPT ![key[p]] = IF tmp[p] = "whole" THEN "whole" ELSE "broken"]
          /\ tmp' = [tmp EXCEPT ![p] = "none"]
          /\ Goto(p, "link")
     ELSE Stop(p) /\ UNCHANGED cas
  /\ UNCHANGED <<wheel, index, there, holes, env, key, checks, writing, sweep>>

(* The walk links the files it finds.                                      *)
Link(p) ==
  /\ pc[p] = "link" /\ cas[key[p]] # "absent"
  /\ holes' = IF cas[key[p]] = "whole" THEN holes \ {<<env[p], key[p]>>}
              ELSE holes \cup {<<env[p], key[p]>>}
  /\ Goto(p, "refer")
  /\ UNCHANGED <<store, there, env, key, checks, writing, tmp, sweep>>

Writing(k) == \E p \in Proc : pc[p] = "write" /\ key[p] = k

(* An environment that is listed is not written again; for another one the *)
(* file is truncated.  Who gives up waiting for its lock stops (Abandon).  *)
AddReference(p) ==
  /\ pc[p] = "refer" /\ ~Writing(key[p])
  /\ refs' = [refs EXCEPT ![key[p]] = @ \cup {env[p]}]
  /\ IF env[p] \in refs[key[p]]
     THEN Stop(p) /\ recorded' = [recorded EXCEPT ![key[p]] = @ \cup {env[p]}]
     ELSE Goto(p, "write") /\ UNCHANGED <<recorded, tmp>>
  /\ UNCHANGED <<wheel, cas, torn, there, holes, env, key, checks, writing, sweep>>

(* What is written to a file that gc removed meanwhile is lost.            *)
WriteReference(p) ==
  /\ pc[p] = "write"
  /\ recorded' = [recorded EXCEPT ![key[p]] = @ \cup {env[p]}]
  /\ Stop(p)
  /\ UNCHANGED <<wheel, cas, refs, torn, there, holes, env, key, checks, writing, sweep>>

(* An error at any other point, or the death of the process: the wheel     *)
(* stays as far as it was written, a truncated reference file is empty.    *)
Abandon(p) ==
  /\ pc[p] # "idle"
  /\ IF pc[p] = "write"
     THEN /\ refs' = [refs EXCEPT ![key[p]] = {}]
          /\ torn' = torn \cup {key[p]}
     ELSE UNCHANGED <<refs, torn>>
  /\ writing' = [writing EXCEPT ![p] = "none"]
  /\ Stop(p) /\ Unchecked(p)
  /\ UNCHANGED <<wheel, cas, recorded, there, holes, env, key, sweep>>

Install(p) ==
  \/ \E e \in Env, k \in Key, check \in BOOLEAN : Begin(p, e, k, check)
  \/ StatWheel(p) \/ CreateWheel(p) \/ FinishDownload(p) \/ FailDownload(p)
  \/ Verify(p) \/ Store(p) \/ Extract(p) \/ Rename(p) \/ Link(p)
  \/ AddReference(p) \/ WriteReference(p) \/ Abandon(p)

---------------------------------------------------------------------------
(* Cache maintenance                                                       *)

(* What a reader finds: nothing in a file that is being written.           *)
Listed(k) == IF Writing(k) THEN {} ELSE refs[k]

(* A fault: one dangling reference is enough.                              *)
AnyDangling(k) == Listed(k) = {} \/ ~(Listed(k) \subseteq there \ Global)

(* A reference counts while its environment is a path that exists.         *)
IsUnreferenced(k) == Listed(k) \cap (there \ Global) = {}

Stored == {k \in Key : cas[k] # "absent"}

(* gc lists the unreferenced entries, or with --older-than some of them,   *)
(* before it removes the first.                                            *)
ListUnused ==
  /\ MayClean
  /\ gc' = "gc"
  /\ doomed' \in SUBSET {k \in Stored : IsUnreferenced(k)}
  /\ UNCHANGED <<store, there, holes, proc, victim>>

(* RemoveAll takes a tree apart file by file.                              *)
RemoveSome(k) ==
  /\ gc = "gc" /\ k \in doomed
  /\ cas' = [cas EXCEPT ![k] = IF @ = "absent" THEN @ ELSE "broken"]
  /\ gc' = "removing" /\ victim' = k
  /\ UNCHANGED <<wheel, index, there, holes, proc, doomed>>

(* An entry that is another user's is not touched; one that an error stops *)
(* half-way through stays as it is.  The references are kept, and the loop *)
(* goes on.                                                                *)
RemoveFails(k) ==
  /\ k \in doomed
  /\ gc \in (IF Careful THEN {"gc"} ELSE {"gc", "removing"})
  /\ gc = "removing" => victim = k
  /\ gc' = "gc" /\ doomed' = doomed \ {k} /\ victim' = Nothing
  /\ UNCHANGED <<store, there, holes, proc>>

RemoveRest ==
  /\ gc = "removing"
  /\ cas' = [cas EXCEPT ![victim] = "absent"]
  /\ gc' = "removed"
  /\ UNCHANGED <<wheel, index, there, holes, proc, doomed, victim>>

RemoveRefs ==
  /\ gc = "removed"
  /\ refs' = [refs EXCEPT ![victim] = {}]
  /\ recorded' = [recorded EXCEPT ![victim] = {}]
  /\ torn' = torn \ {victim}
  /\ doomed' = doomed \ {victim}
  /\ gc' = "gc" /\ victim' = Nothing
  /\ UNCHANGED <<wheel, cas, there, holes, proc>>

EndGC ==
  /\ gc = "gc" /\ doomed = {}
  /\ gc' = "idle"
  /\ UNCHANGED <<store, there, holes, proc, doomed, victim>>

(* A tree in tmp is removed under the hands of the process extracting it.  *)
TmpEmptied ==
  tmp' = [p \in Proc |-> IF tmp[p] = "whole" THEN "none"
                         ELSE IF tmp[p] = "part" THEN "holed" ELSE tmp[p]]

(* prune removes stray files, of which there are none, and empties tmp.    *)
Prune ==
  /\ MayClean
  /\ TmpEmptied
  /\ UNCHANGED <<store, there, holes, pc, env, key, checks, writing, sweep>>

(* clean takes the store apart, then removes the other directories.        *)
Clean ==
  /\ MayClean
  /\ cas' = [k \in Key |-> IF cas[k] = "absent" THEN "absent" ELSE "broken"]
  /\ gc' = "clean"
  /\ UNCHANGED <<wheel, index, there, holes, proc, doomed, victim>>

EndClean ==
  /\ gc = "clean"
  /\ cas' = [k \in Key |-> "absent"]
  /\ wheel' = [k \in Key |-> "absent"]
  /\ refs' = [k \in Key |-> {}] /\ recorded' = [k \in Key |-> {}]
  /\ torn' = {}
  /\ writing' = [p \in Proc |-> "none"]
  /\ TmpEmptied
  /\ gc' = "idle"
  /\ UNCHANGED <<there, holes, pc, env, key, checks, doomed, victim>>

(* gc dies, or the person stops it; when Careful, between two entries.     *)
KillMaintenance ==
  /\ gc # "idle" /\ (Careful => gc = "gc")
  /\ gc' = "idle" /\ doomed' = {} /\ victim' = Nothing
  /\ UNCHANGED <<store, there, holes, proc>>

(* Nobody tells the index when an environment is deleted, or made again    *)
(* under the same path.                                                    *)
Delete(e) ==
  /\ e \in there
  /\ there' = there \ {e}
  /\ holes' = holes \ ({e} \X Key)
  /\ UNCHANGED <<store, proc, sweep>>

Make(e) ==
  /\ MayInstall
  /\ there' = there \cup {e}
  /\ UNCHANGED <<store, holes, proc, sweep>>

Maintain ==
  \/ ListUnused \/ \E k \in Key : RemoveSome(k) \/ RemoveFails(k)
  \/ RemoveRest \/ RemoveRefs \/ EndGC
  \/ Prune \/ Clean \/ EndClean \/ KillMaintenance

Next == (\E p \in Proc : Install(p)) \/ Maintain \/ \E e \in Env : Delete(e) \/ Make(e)

Spec == Init /\ [][Next]_vars

---------------------------------------------------------------------------
(* Properties                                                              *)

(* No command goes on with a tree that has files missing, whatever other   *)
(* installs run, fail or are killed (cache.go Store, Retrieve; link.go     *)
(* LinkDir).                                                               *)
LinkedWhole == holes = {}

(* The entries for which an existing environment got a reference are in    *)
(* the store, all of them and whole (reference.go AddReference,            *)
(* isUnreferenced; gc.go GC), unless an install died while it wrote the    *)
(* reference file: then gc takes the entry from every environment that the *)
(* file listed.  While clean runs it has removed entries and not yet their *)
(* references.                                                             *)
RefsBacked ==
  gc # "clean" =>
    \A k \in Key \ torn : recorded[k] \cap there # {} => cas[k] = "whole"
=============================================================================
