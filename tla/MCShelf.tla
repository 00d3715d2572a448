------------------------------- MODULE MCShelf -------------------------------
(* Instances of Shelf for TLC: one package, one that depends on it and     *)
(* whose name begins with it and a "_", two versions of each.              *)
EXTENDS Shelf, TLC

CONSTANTS flask, flask_cors, v1, v2

CorsDeps == (flask :> {}) @@ (flask_cors :> {flask})

Prefixes == (flask :> {flask, flask_cors}) @@ (flask_cors :> {flask_cors})

(* flask-1, flask-2, flask_cors-1, flask_cors-2 ("-" sorts before "_").    *)
Listing == [d \in [name: {flask, flask_cors}, ver: {v1, v2}] |->
  (IF d.name = flask THEN 0 ELSE 2) + (IF d.ver = v1 THEN 0 ELSE 1)]

Wheels == {[name |-> flask, ver |-> v1], [name |-> flask, ver |-> v2],
           [name |-> flask_cors, ver |-> v1]}

(* `fpm install flask==1`, `flask==2` and `flask==1 flask_cors`.           *)
Asked == {(flask :> v1) @@ (flask_cors :> NoVersion),
          (flask :> v2) @@ (flask_cors :> NoVersion),
          (flask :> v1) @@ (flask_cors :> AnyVersion)}
=============================================================================
