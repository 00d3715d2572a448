------------------------------ MODULE MCCasStore ------------------------------
(* Instances of CasStore: keys and processes are interchangeable, and so   *)
(* are environments when none of them is global.                           *)
EXTENDS CasStore, TLC

Interchangeable == Permutations(Key) \cup Permutations(Proc)
AllInterchangeable == Interchangeable \cup Permutations(Env)
===============================================================================
