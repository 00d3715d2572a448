------------------------------- MODULE CasProofs -------------------------------
(***************************************************************************)
(* Proofs about CasStore.  TypeOK holds for any maintenance.  With careful *)
(* maintenance CasInv is inductive: while gc is at work nobody installs,   *)
(* so what it listed stays unreferenced by any path that exists, and an    *)
(* entry with any reference at all, even of a deleted environment, is      *)
(* whole or being removed, so an environment made again under its old path *)
(* finds its references backed.  A reference file has whatever was         *)
(* recorded in it, unless an install was stopped while it wrote it.        *)
(***************************************************************************)
EXTENDS CasStore, TLAPS

(* Entries of the store are whole, except the ones maintenance is taking   *)
(* apart.                                                                  *)
CasWhole ==
  \A k \in Key : cas[k] = "broken" => gc = "clean" \/ (gc = "removing" /\ victim = k)

CasInv ==
  /\ TypeOK
  /\ CasWhole
  /\ LinkedWhole
  /\ gc # "idle" => \A p \in Proc : pc[p] = "idle"
  /\ gc # "clean" => \A k \in Key : refs[k] # {} \/ recorded[k] # {}
                                    => cas[k] = "whole" \/ victim = k
  /\ \A k \in Key \ torn : recorded[k] \subseteq refs[k]
  /\ gc \in {"gc", "removing", "removed"} =>
       \A k \in doomed : refs[k] \cap (there \ Global) = {}
  /\ victim # Nothing => victim \in doomed
  /\ \A p \in Proc :
       /\ pc[p] = "idle" => tmp[p] = "none"
       /\ pc[p] = "extract" => tmp[p] = "part"
       /\ pc[p] = "rename" => tmp[p] = "whole"
       /\ pc[p] \in {"link", "refer", "write"} => cas[key[p]] = "whole"
       /\ pc[p] = "write" => env[p] \in refs[key[p]]
  /\ \A p, q \in Proc :
       pc[p] = "write" /\ pc[q] = "write" /\ key[p] = key[q] => p = q

---------------------------------------------------------------------------
(* One step of the cache keeps the types.                                  *)
LEMMA CasTypeStep == TypeOK /\ [Next]_vars => TypeOK'
<1> SUFFICES ASSUME TypeOK, [Next]_vars PROVE TypeOK'
  OBVIOUS
<1> USE CasAssumption DEF TypeOK
<1>1. ASSUME NEW p \in Proc, NEW e \in Env, NEW k \in Key, NEW check \in BOOLEAN,
             Begin(p, e, k, check)
      PROVE  TypeOK'
  BY <1>1 DEF Begin, Goto, store, index, sweep, PC
<1>2. ASSUME NEW p \in Proc, StatWheel(p) PROVE TypeOK'
  BY <1>2 DEF StatWheel, Goto, store, index, sweep, PC
<1>3. ASSUME NEW p \in Proc, CreateWheel(p) PROVE TypeOK'
  BY <1>3 DEF CreateWheel, Truncated, Goto, sweep, PC, index
<1>4. ASSUME NEW p \in Proc, FinishDownload(p) PROVE TypeOK'
  BY <1>4 DEF FinishDownload, Goto, sweep, PC, index
<1>5. ASSUME NEW p \in Proc, FailDownload(p) PROVE TypeOK'
  BY <1>5 DEF FailDownload, Unlinked, Unchecked, Stop, Goto, sweep, PC, index
<1>6. ASSUME NEW p \in Proc, Verify(p) PROVE TypeOK'
  BY <1>6 DEF Verify, Unlinked, Unchecked, Stop, Goto, sweep, PC, index
<1>7. ASSUME NEW p \in Proc, Store(p) PROVE TypeOK'
  BY <1>7 DEF Store, Stop, Goto, store, index, sweep, PC
<1>8. ASSUME NEW p \in Proc, Extract(p) PROVE TypeOK'
  BY <1>8 DEF Extract, Goto, store, index, sweep, PC
<1>9. ASSUME NEW p \in Proc, Rename(p) PROVE TypeOK'
  BY <1>9 DEF Rename, Stop, Goto, sweep, PC, Entry, index
<1>10. ASSUME NEW p \in Proc, Link(p) PROVE TypeOK'
  BY <1>10 DEF Link, Goto, store, index, sweep, PC
<1>11. ASSUME NEW p \in Proc, AddReference(p) PROVE TypeOK'
  BY <1>11 DEF AddReference, Stop, Goto, sweep, PC
<1>12. ASSUME NEW p \in Proc, Abandon(p) PROVE TypeOK'
  BY <1>12 DEF Abandon, Unchecked, Stop, Goto, sweep, PC
<1>25. ASSUME NEW p \in Proc, WriteReference(p) PROVE TypeOK'
  BY <1>25 DEF WriteReference, Stop, Goto, sweep, PC
<1>26. ASSUME NEW k \in Key, RemoveFails(k) PROVE TypeOK'
  BY <1>26 DEF RemoveFails, store, index, proc
<1>13. CASE ListUnused
  BY <1>13 DEF ListUnused, MayClean, Stored, store, index, proc
<1>14. ASSUME NEW k \in Key, RemoveSome(k) PROVE TypeOK'
  BY <1>14 DEF RemoveSome, proc, Entry, index
<1>15. CASE RemoveRest
  BY <1>15 DEF RemoveRest, proc, Entry, index
<1>16. CASE RemoveRefs
  BY <1>16 DEF RemoveRefs, proc
<1>17. CASE EndGC
  BY <1>17 DEF EndGC, store, index, proc
<1>18. CASE Prune
  BY <1>18 DEF Prune, TmpEmptied, store, index, sweep
<1>19. CASE Clean
  BY <1>19 DEF Clean, MayClean, proc, Entry, index
<1>20. CASE EndClean
  BY <1>20 DEF EndClean, TmpEmptied, Entry
<1>21. CASE KillMaintenance
  BY <1>21 DEF KillMaintenance, store, index, proc
<1>22. ASSUME NEW e \in Env, Delete(e) \/ Make(e) PROVE TypeOK'
  BY <1>22 DEF Delete, Make, store, index, proc, sweep
<1>23. CASE UNCHANGED vars
  BY <1>23 DEF vars, store, index, proc, sweep
<1> HIDE DEF TypeOK
<1>24. QED
  BY <1>1, <1>2, <1>3, <1>4, <1>5, <1>6, <1>7, <1>8, <1>9, <1>10, <1>11, <1>12,
     <1>13, <1>14, <1>15, <1>16, <1>17, <1>18, <1>19, <1>20, <1>21, <1>22, <1>23,
     <1>25, <1>26 DEF Next, Install, Maintain

(* Every step of the cache, however maintenance behaves, keeps the types:  *)
(* in particular only a process that is downloading holds a handle, and    *)
(* only on a file that is there.                                           *)
THEOREM CasTypeCorrect == Spec => []TypeOK
<1>1. Init => TypeOK
  BY CasAssumption DEF Init, TypeOK, PC, Entry
<1>2. QED
  BY <1>1, CasTypeStep, PTL DEF Spec

---------------------------------------------------------------------------
(* CasInv is inductive under careful maintenance.                          *)
LEMMA CasInvStep ==
  ASSUME Careful = TRUE
  PROVE  CasInv /\ [Next]_vars => CasInv'
<1> SUFFICES ASSUME CasInv, [Next]_vars PROVE CasInv'
  OBVIOUS
<1>0. TypeOK'
  BY CasTypeStep DEF CasInv
<1> USE <1>0, CasAssumption DEF CasInv, TypeOK, CasWhole, LinkedWhole
<1>1. ASSUME NEW p \in Proc, NEW e \in Env, NEW k \in Key, NEW check \in BOOLEAN,
             Begin(p, e, k, check)
      PROVE  CasInv'
  BY <1>1 DEF Begin, MayInstall, Goto, store, index, sweep
<1>2. ASSUME NEW p \in Proc, StatWheel(p) PROVE CasInv'
  BY <1>2 DEF StatWheel, Goto, store, index, sweep
<1>3. ASSUME NEW p \in Proc, CreateWheel(p) PROVE CasInv'
  BY <1>3 DEF CreateWheel, Goto, sweep, index
<1>4. ASSUME NEW p \in Proc, FinishDownload(p) PROVE CasInv'
  BY <1>4 DEF FinishDownload, Goto, sweep, index
<1>5. ASSUME NEW p \in Proc, FailDownload(p) PROVE CasInv'
  BY <1>5 DEF FailDownload, Unchecked, Stop, Goto, sweep, index
<1>6. ASSUME NEW p \in Proc, Verify(p) PROVE CasInv'
  BY <1>6 DEF Verify, Unchecked, Stop, Goto, sweep, index
<1>7. ASSUME NEW p \in Proc, Store(p) PROVE CasInv'
  BY <1>7 DEF Store, Stop, Goto, store, index, sweep, Entry
<1>8. ASSUME NEW p \in Proc, Extract(p) PROVE CasInv'
  BY <1>8 DEF Extract, Goto, store, index, sweep
<1>9. ASSUME NEW p \in Proc, Rename(p) PROVE CasInv'
  BY <1>9, SMTT(40) DEF Rename, Stop, Goto, sweep, Entry, index
<1>10. ASSUME NEW p \in Proc, Link(p) PROVE CasInv'
  BY <1>10 DEF Link, Goto, store, index, sweep
<1>11. ASSUME NEW p \in Proc, AddReference(p) PROVE CasInv'
  BY <1>11, SMTT(40) DEF AddReference, Writing, Stop, Goto, sweep
<1>12. ASSUME NEW p \in Proc, Abandon(p) PROVE CasInv'
  BY <1>12 DEF Abandon, Unchecked, Stop, Goto, sweep
<1>26. ASSUME NEW p \in Proc, WriteReference(p) PROVE CasInv'
  BY <1>26 DEF WriteReference, Stop, Goto, sweep
<1>27. ASSUME NEW k \in Key, RemoveFails(k) PROVE CasInv'
  BY <1>27 DEF RemoveFails, store, index, proc
<1>13. CASE ListUnused
  BY <1>13 DEF ListUnused, MayClean, Stored, IsUnreferenced, Listed, Writing, store, index, proc
<1>14. ASSUME NEW k \in Key, RemoveSome(k) PROVE CasInv'
  BY <1>14 DEF RemoveSome, proc, index
<1>15. CASE RemoveRest
  BY <1>15 DEF RemoveRest, proc, index
<1>16. CASE RemoveRefs
  BY <1>16 DEF RemoveRefs, proc
<1>17. CASE EndGC
  BY <1>17 DEF EndGC, store, index, proc
<1>18. CASE Prune
  BY <1>18 DEF Prune, MayClean, TmpEmptied, store, index, sweep
<1>19. CASE Clean
  BY <1>19 DEF Clean, MayClean, proc, index
<1>20. CASE EndClean
  BY <1>20 DEF EndClean, TmpEmptied
<1>21. CASE KillMaintenance
  BY <1>21 DEF KillMaintenance, store, index, proc
<1>22. ASSUME NEW e \in Env, Delete(e) PROVE CasInv'
  BY <1>22 DEF Delete, store, index, proc, sweep
<1>23. ASSUME NEW e \in Env, Make(e) PROVE CasInv'
  BY <1>23 DEF Make, MayInstall, store, index, proc, sweep
<1>24. CASE UNCHANGED vars
  BY <1>24 DEF vars, store, index, proc, sweep
<1> HIDE DEF CasInv, TypeOK, CasWhole, LinkedWhole
<1>25. QED
  BY <1>1, <1>2, <1>3, <1>4, <1>5, <1>6, <1>7, <1>8, <1>9, <1>10, <1>11, <1>12,
     <1>13, <1>14, <1>15, <1>16, <1>17, <1>18, <1>19, <1>20, <1>21, <1>22, <1>23,
     <1>24, <1>26, <1>27 DEF Next, Install, Maintain

(* Hence it holds throughout.                                              *)
LEMMA CasInvHolds ==
  ASSUME Careful = TRUE
  PROVE  Spec => []CasInv
<1>1. Init => CasInv
  BY CasAssumption DEF Init, CasInv, TypeOK, CasWhole, LinkedWhole, PC, Entry
<1>2. QED
  BY <1>1, CasInvStep, PTL DEF Spec

(* Whatever installs run, fail and are killed, over one wheel or several,  *)
(* no command goes on with a tree that has files missing (cache.go Store), *)
(* whatever kind of environment gc takes for one that is gone.             *)
THEOREM CarefulLinksWhole ==
  ASSUME Careful = TRUE
  PROVE  Spec => []LinkedWhole
<1>1. CasInv => LinkedWhole
  BY DEF CasInv
<1>2. QED
  BY <1>1, CasInvHolds, PTL

(* Every reference that was recorded for an environment at an existing     *)
(* path is backed: the entry is in the store and whole, also when the      *)
(* environment was deleted and made again, and whatever global             *)
(* environments share it.  The one exception is a reference file that an   *)
(* install was stopped over: gc reads it as empty and takes the entry from *)
(* every environment (gc.go GC, reference.go ListUnused, writeCASRef).     *)
PathsBacked ==
  gc # "clean" =>
    \A k \in Key \ torn : recorded[k] \cap (there \ Global) # {} => cas[k] = "whole"

THEOREM CarefulBacksPaths ==
  ASSUME Careful = TRUE
  PROVE  Spec => []PathsBacked
<1>1. ASSUME CasInv, gc # "clean", NEW k \in Key \ torn,
             recorded[k] \cap (there \ Global) # {}
      PROVE  cas[k] = "whole"
  <2>1. CASE victim # k
    BY <1>1, <2>1 DEF CasInv
  <2>2. CASE victim = k
    <3>1. gc \in {"removing", "removed"} /\ k \in doomed
      BY <1>1, <2>2, CasAssumption DEF CasInv, TypeOK
    <3>2. refs[k] \cap (there \ Global) = {} /\ recorded[k] \subseteq refs[k]
      BY <1>1, <3>1 DEF CasInv
    <3> QED
      BY <1>1, <3>2
  <2> QED
    BY <2>1, <2>2
<1>2. CasInv => PathsBacked
  BY <1>1 DEF PathsBacked
<1>3. QED
  BY <1>2, CasInvHolds, PTL

(* Without global environments that is everything that was recorded.       *)
THEOREM CarefulBacksRefs ==
  ASSUME Careful = TRUE, Global = {}
  PROVE  Spec => []RefsBacked
<1>1. PathsBacked => RefsBacked
  BY DEF PathsBacked, RefsBacked
<1>2. QED
  BY <1>1, CarefulBacksPaths, PTL
=============================================================================
