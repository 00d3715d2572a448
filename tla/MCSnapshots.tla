----------------------------- MODULE MCSnapshots -----------------------------
(* Instances of Snapshots for TLC: a package fpm installs and one pip      *)
(* installs, two versions of each.                                         *)
EXTENDS Snapshots, TLC

CONSTANTS f, p, v1, v2

Apart == (f :> {f}) @@ (p :> {p})

Listing == [d \in [name: {f, p}, ver: {v1, v2}] |->
  (IF d.name = f THEN 0 ELSE 2) + (IF d.ver = v1 THEN 0 ELSE 1)]

(* No version is part of another one's text.                               *)
Exact == [d \in [name: {f, p}, ver: {v1, v2}] |-> d]
=============================================================================
