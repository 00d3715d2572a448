------------------------------- MODULE MCFpmEnv -------------------------------
(* Instances of FpmEnv for TLC.                                            *)
EXTENDS FpmEnv, TLC

CONSTANTS a, b, c

(* a and b need each other and c: removing a orphans b, and that orphans   *)
(* c; left alone, a and b keep each other.                                 *)
CyclicDeps == (a :> {b, c}) @@ (b :> {a, c}) @@ (c :> {})

(* a needs b.                                                              *)
PairDeps == (a :> {b}) @@ (b :> {})

(* The name b begins c's, as flask begins flask_cors; a begins b's.        *)
CyclicPrefixes == (a :> {}) @@ (b :> {c}) @@ (c :> {})
PairPrefixes == (a :> {b}) @@ (b :> {})
NoPrefixes == [q \in Pkg |-> {}]

(* a and c share the dependency b.                                         *)
SmallDeps == (a :> {b}) @@ (b :> {}) @@ (c :> {b})
=============================================================================
