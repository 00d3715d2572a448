------------------------------ MODULE DepGraph ------------------------------
(***************************************************************************)
(* The dependency graph of internal/depgraph/graph.go as a value, and the  *)
(* operators on it: what Graph's methods, the keep-set of `remove` and the *)
(* METADATA fallback of internal/cli/remove_impl.go compute.               *)
(*                                                                         *)
(* A graph maps every package name to a node; a name that is not a key of  *)
(* the Go map is mapped to NoNode.  Versions and timestamps of a node are  *)
(* left out: no operation on the graph reads them.                         *)
(***************************************************************************)
EXTENDS Integers

CONSTANT Pkg    \* the normalized package names

Node == [tracked: BOOLEAN, requested: BOOLEAN, deps: SUBSET Pkg]

NoNode == [tracked |-> FALSE, requested |-> FALSE, deps |-> {}]

(* A map of names to nodes; what is not tracked carries nothing.           *)
Graph == {g \in [Pkg -> Node] : \A q \in Pkg : ~g[q].tracked => g[q] = NoNode}

EmptyGraph == [q \in Pkg |-> NoNode]

Nodes(g) == {q \in Pkg : g[q].tracked}

Requested(g) == {q \in Nodes(g) : g[q].requested}

---------------------------------------------------------------------------
(* Graph.AddRequested for every member of R: the node is overwritten.      *)
AddRequested(g, R, deps) ==
  [q \in Pkg |-> IF q \in R
                 THEN [tracked |-> TRUE, requested |-> TRUE, deps |-> deps[q]]
                 ELSE g[q]]

(* Mutants of AddTransitive: one demotes a requested node, one only updates *)
(* nodes it knows.                                                         *)
AddDemoting(g, T, deps) ==
  [q \in Pkg |-> IF q \in T
                 THEN [tracked |-> TRUE, requested |-> FALSE, deps |-> deps[q]]
                 ELSE g[q]]
UpdateTransitive(g, T, deps) ==
  [q \in Pkg |-> IF q \in T /\ g[q].tracked
                 THEN [g[q] EXCEPT !.deps = deps[q]] ELSE g[q]]

(* Graph.AddTransitive for every member of T: a node that was requested    *)
(* stays requested, any other becomes a transitive one.                    *)
AddTransitive(g, T, deps) ==
  [q \in Pkg |-> IF q \in T
                 THEN [tracked |-> TRUE, requested |-> g[q].requested,
                       deps |-> deps[q]]
                 ELSE g[q]]

(* Mutants of Remove: one leaves the edges behind, one does nothing.       *)
Untrack(g, R) ==
  [q \in Pkg |-> IF q \in R THEN [g[q] EXCEPT !.tracked = FALSE] ELSE g[q]]
RemoveNothing(g, R) == g

(* Graph.Remove for every member of R.                                     *)
Remove(g, R) == [q \in Pkg |-> IF q \in R THEN NoNode ELSE g[q]]

(* Only what requested packages need (a mutant).                           *)
NeededByRequested(g) == UNION {g[q].deps : q \in Requested(g)}

(* The packages some node of g depends on (self-edges count).              *)
Needed(g) == UNION {g[q].deps : q \in Nodes(g)}

(* Mutants of Orphans: one forgets the requested flag, one takes only      *)
(* packages that depend on nothing.                                        *)
Undepended(g) == {q \in Nodes(g) : q \notin Needed(g)}
Leaves(g) == {q \in Nodes(g) : ~g[q].requested /\ q \notin Needed(g) /\ g[q].deps = {}}

(* Graph.Orphans: transitive nodes no node depends on.                     *)
Orphans(g) == {q \in Nodes(g) : ~g[q].requested /\ q \notin Needed(g)}

(* Graph.DependentsOf.                                                     *)
DependentsOf(g, q) == {r \in Nodes(g) : q \in g[r].deps}

(* Graph.SyncFromInstalled: packages on disk without a node are added as   *)
(* requested ones.                                                         *)
SyncFromInstalled(g, installed, deps) ==
  AddRequested(g, installed \ Nodes(g), deps)

(* runMark's loop: the flag of every tracked name of R is set.             *)
Mark(g, R, flag) ==
  [q \in Pkg |-> IF q \in R /\ g[q].tracked
                 THEN [g[q] EXCEPT !.requested = flag]
                 ELSE g[q]]

---------------------------------------------------------------------------
(* The least superset of S closed under deps.                              *)
ClosedUnder(C, deps) == \A q \in C : deps[q] \subseteq C

Closure(S, deps) ==
  {q \in Pkg : \A C \in SUBSET Pkg :
                 S \subseteq C /\ ClosedUnder(C, deps) => q \in C}

(* excludePackages: the names the user keeps and, through the nodes of the *)
(* graph, everything they depend on; the rest is confirmed for removal.    *)
KeepSet(g, keep) == Closure(keep, [q \in Pkg |-> g[q].deps])

(* Protecting the declared packages but not their dependencies (a mutant). *)
UndeclaredPackages(fpmPkgs, declared, metadata, given) ==
  (fpmPkgs \ declared) \ given

(* findOrphanDeps: with no graph at all, the fpm-managed packages that the *)
(* project's dependencies do not reach through the METADATA of fpm-managed *)
(* packages, minus the names the command was given.                        *)
MetadataOrphans(fpmPkgs, declared, metadata, given) ==
  LET depsOf == [q \in Pkg |-> IF q \in fpmPkgs THEN metadata[q] ELSE {}]
  IN  (fpmPkgs \ Closure(declared, depsOf)) \ given
=============================================================================
