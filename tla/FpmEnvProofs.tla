----------------------------- MODULE FpmEnvProofs -----------------------------
(***************************************************************************)
(* What the operators of DepGraph return, preserve and bound, for every    *)
(* set of packages and every graph, and theorems about FpmEnv, for every   *)
(* set of packages and processes.                                          *)
(***************************************************************************)
EXTENDS FpmEnv, FiniteSetTheorems, WellFoundedInduction, TLAPS

(* A node that every method reads and writes.                              *)
LEMMA NodeType ==
  ASSUME NEW g \in Graph, NEW q \in Pkg
  PROVE  g[q] \in Node /\ (~g[q].tracked => g[q] = NoNode)
  BY DEF Graph

(* The fields of a node are typed.                                         *)
LEMMA NodeFields ==
  ASSUME NEW n \in Node
  PROVE  n.tracked \in BOOLEAN /\ n.requested \in BOOLEAN /\ n.deps \in SUBSET Pkg
  BY DEF Node

(* So are those of a missing node.                                         *)
LEMMA NoNodeType == NoNode \in Node /\ NoNode.tracked = FALSE /\ NoNode.requested = FALSE
  BY DEF NoNode, Node

(* The empty graph is a graph without nodes.                               *)
LEMMA EmptyGraphType == EmptyGraph \in Graph /\ Nodes(EmptyGraph) = {}
<1>1. \A q \in Pkg : EmptyGraph[q] = NoNode
  BY DEF EmptyGraph
<1>2. EmptyGraph \in Graph
  BY <1>1, NoNodeType DEF EmptyGraph, Graph
<1>3. Nodes(EmptyGraph) = {}
  BY <1>1, NoNodeType DEF Nodes
<1> QED
  BY <1>2, <1>3

(* AddRequested and AddTransitive track what they are given, with the      *)
(* dependencies they are given; only the former requests it.               *)
LEMMA AddRequestedType ==
  ASSUME NEW g \in Graph, NEW R \in SUBSET Pkg, NEW deps \in [Pkg -> SUBSET Pkg]
  PROVE  /\ AddRequested(g, R, deps) \in Graph
         /\ Nodes(AddRequested(g, R, deps)) = Nodes(g) \cup R
         /\ Requested(AddRequested(g, R, deps)) = Requested(g) \cup R
         /\ \A q \in R : AddRequested(g, R, deps)[q].deps = deps[q]
         /\ \A q \in Pkg \ R : AddRequested(g, R, deps)[q] = g[q]
<1> DEFINE h == AddRequested(g, R, deps)
<1>1. ASSUME NEW q \in Pkg, q \in R
      PROVE  /\ h[q] \in Node /\ h[q].tracked = TRUE /\ h[q].deps = deps[q]
             /\ h[q].requested = TRUE
  <2>1. h[q] = [tracked |-> TRUE, requested |-> TRUE, deps |-> deps[q]]
    BY <1>1 DEF AddRequested
  <2> QED
    BY <2>1, NodeType, NodeFields DEF Node
<1>2. ASSUME NEW q \in Pkg, q \notin R
      PROVE  h[q] = g[q]
  BY <1>2 DEF AddRequested
<1>3. h \in [Pkg -> Node]
  <2>1. \A q \in Pkg : h[q] \in Node
    BY <1>1, <1>2, NodeType
  <2> QED
    BY <2>1 DEF AddRequested
<1>4. \A q \in Pkg : ~h[q].tracked => h[q] = NoNode
  BY <1>1, <1>2, NodeType
<1>5. h \in Graph
  BY <1>3, <1>4 DEF Graph
<1>6. Nodes(h) = Nodes(g) \cup R
  BY <1>1, <1>2 DEF Nodes
<1>7. Requested(h) = Requested(g) \cup R
  <2>1. ASSUME NEW q \in Pkg, q \in R
        PROVE  q \in Requested(h) <=> q \in Requested(g) \cup R
    BY <2>1, <1>1, <1>6, NodeType, NoNodeType DEF Requested, Nodes
  <2>2. ASSUME NEW q \in Pkg, q \notin R
        PROVE  q \in Requested(h) <=> q \in Requested(g) \cup R
    BY <2>2, <1>2, <1>6 DEF Requested, Nodes
  <2>3. Requested(h) \subseteq Pkg /\ Requested(g) \cup R \subseteq Pkg
    BY DEF Requested, Nodes
  <2> QED
    BY <2>1, <2>2, <2>3
<1> QED
  BY <1>1, <1>2, <1>5, <1>6, <1>7

(* What AddTransitive returns: a graph with the new nodes, the same        *)
(* requested ones and the new edges.                                       *)
LEMMA AddTransitiveType ==
  ASSUME NEW g \in Graph, NEW T \in SUBSET Pkg, NEW deps \in [Pkg -> SUBSET Pkg]
  PROVE  /\ AddTransitive(g, T, deps) \in Graph
         /\ Nodes(AddTransitive(g, T, deps)) = Nodes(g) \cup T
         /\ Requested(AddTransitive(g, T, deps)) = Requested(g)
         /\ \A q \in T : AddTransitive(g, T, deps)[q].deps = deps[q]
         /\ \A q \in Pkg \ T : AddTransitive(g, T, deps)[q] = g[q]
<1> DEFINE h == AddTransitive(g, T, deps)
<1>1. ASSUME NEW q \in Pkg, q \in T
      PROVE  /\ h[q] \in Node /\ h[q].tracked = TRUE /\ h[q].deps = deps[q]
             /\ h[q].requested = g[q].requested
  <2>1. h[q] = [tracked |-> TRUE, requested |-> g[q].requested, deps |-> deps[q]]
    BY <1>1 DEF AddTransitive
  <2> QED
    BY <2>1, NodeType, NodeFields DEF Node
<1>2. ASSUME NEW q \in Pkg, q \notin T
      PROVE  h[q] = g[q]
  BY <1>2 DEF AddTransitive
<1>3. h \in [Pkg -> Node]
  <2>1. \A q \in Pkg : h[q] \in Node
    BY <1>1, <1>2, NodeType
  <2> QED
    BY <2>1 DEF AddTransitive
<1>4. \A q \in Pkg : ~h[q].tracked => h[q] = NoNode
  BY <1>1, <1>2, NodeType
<1>5. h \in Graph
  BY <1>3, <1>4 DEF Graph
<1>6. Nodes(h) = Nodes(g) \cup T
  BY <1>1, <1>2 DEF Nodes
<1>7. Requested(h) = Requested(g)
  <2>1. ASSUME NEW q \in Pkg, q \in T
        PROVE  q \in Requested(h) <=> q \in Requested(g)
    BY <2>1, <1>1, <1>6, NodeType, NoNodeType DEF Requested, Nodes
  <2>2. ASSUME NEW q \in Pkg, q \notin T
        PROVE  q \in Requested(h) <=> q \in Requested(g)
    BY <2>2, <1>2, <1>6 DEF Requested, Nodes
  <2>3. Requested(h) \subseteq Pkg /\ Requested(g) \subseteq Pkg
    BY DEF Requested, Nodes
  <2> QED
    BY <2>1, <2>2, <2>3
<1> QED
  BY <1>1, <1>2, <1>5, <1>6, <1>7

(* Remove drops the nodes it is given and touches no other.                *)
LEMMA RemoveType ==
  ASSUME NEW g \in Graph, NEW R \in SUBSET Pkg
  PROVE  /\ Remove(g, R) \in Graph
         /\ Nodes(Remove(g, R)) = Nodes(g) \ R
         /\ Requested(Remove(g, R)) = Requested(g) \ R
         /\ \A q \in Pkg \ R : Remove(g, R)[q] = g[q]
         /\ Needed(Remove(g, R)) \subseteq Needed(g)
<1> DEFINE h == Remove(g, R)
<1>1. ASSUME NEW q \in Pkg, q \in R
      PROVE  h[q] = NoNode
  BY <1>1 DEF Remove
<1>2. ASSUME NEW q \in Pkg, q \notin R
      PROVE  h[q] = g[q]
  BY <1>2 DEF Remove
<1>3. h \in [Pkg -> Node]
  <2>1. \A q \in Pkg : h[q] \in Node
    BY <1>1, <1>2, NodeType, NoNodeType
  <2> QED
    BY <2>1 DEF Remove
<1>4. h \in Graph
  <2>1. \A q \in Pkg : ~h[q].tracked => h[q] = NoNode
    BY <1>1, <1>2, NodeType
  <2> QED
    BY <1>3, <2>1 DEF Graph
<1>5. Nodes(h) = Nodes(g) \ R
  BY <1>1, <1>2, NoNodeType DEF Nodes
<1>6. Requested(h) = Requested(g) \ R
  BY <1>2, <1>5 DEF Nodes, Requested
<1>7. Needed(h) \subseteq Needed(g)
  BY <1>2, <1>5 DEF Nodes, Needed
<1> QED
  BY <1>2, <1>4, <1>5, <1>6, <1>7

(* Mark changes the flag of nodes and nothing else.                        *)
LEMMA MarkType ==
  ASSUME NEW g \in Graph, NEW R \in SUBSET Pkg, NEW flag \in BOOLEAN
  PROVE  /\ Mark(g, R, flag) \in Graph
         /\ Nodes(Mark(g, R, flag)) = Nodes(g)
         /\ \A q \in Pkg : Mark(g, R, flag)[q].deps = g[q].deps
<1> DEFINE h == Mark(g, R, flag)
<1>1. ASSUME NEW q \in Pkg, q \in R /\ g[q].tracked
      PROVE  h[q] \in Node /\ h[q].tracked = g[q].tracked /\ h[q].deps = g[q].deps
  <2>1. h[q] = [g[q] EXCEPT !.requested = flag]
    BY <1>1 DEF Mark
  <2> QED
    BY <2>1, NodeType DEF Node
<1>2. ASSUME NEW q \in Pkg, ~(q \in R /\ g[q].tracked)
      PROVE  h[q] = g[q]
  BY <1>2 DEF Mark
<1>3. h \in [Pkg -> Node]
  <2>1. \A q \in Pkg : h[q] \in Node
    BY <1>1, <1>2, NodeType
  <2> QED
    BY <2>1 DEF Mark
<1>4. h \in Graph
  <2>1. \A q \in Pkg : ~h[q].tracked => h[q] = NoNode
    BY <1>1, <1>2, NodeType
  <2> QED
    BY <1>3, <2>1 DEF Graph
<1>5. Nodes(h) = Nodes(g)
  BY <1>1, <1>2 DEF Nodes
<1> QED
  BY <1>1, <1>2, <1>4, <1>5

---------------------------------------------------------------------------
(* Orphans and DependentsOf of graph.go agree: an orphan is a transitive   *)
(* node without dependents.                                                *)
THEOREM OrphansHaveNoDependents ==
  ASSUME NEW g \in Graph, NEW q \in Pkg
  PROVE  q \in Orphans(g) <=>
           /\ q \in Nodes(g)
           /\ q \notin Requested(g)
           /\ DependentsOf(g, q) = {}
  BY DEF Orphans, Needed, DependentsOf, Requested, Nodes

(* Taking nodes away from a graph never rescues an orphan: the order in    *)
(* which a round of the clean-up works off its list does not matter.       *)
THEOREM OrphansStayOrphans ==
  ASSUME NEW g \in Graph, NEW R \in SUBSET Pkg
  PROVE  Orphans(g) \ R \subseteq Orphans(Remove(g, R))
<1>1. SUFFICES ASSUME NEW q \in Orphans(g), q \notin R
               PROVE  q \in Orphans(Remove(g, R))
  OBVIOUS
<1>2. q \in Pkg /\ q \in Nodes(g) /\ ~g[q].requested /\ q \notin Needed(g)
  BY DEF Orphans, Nodes
<1>3. Remove(g, R)[q] = g[q] /\ q \in Nodes(Remove(g, R))
  BY <1>1, <1>2, RemoveType
<1>4. q \notin Needed(Remove(g, R))
  BY <1>2, RemoveType
<1> QED
  BY <1>2, <1>3, <1>4 DEF Orphans

(* Adding requested nodes makes nothing an orphan.                         *)
LEMMA RequestingMakesNoOrphans ==
  ASSUME NEW g \in Graph, NEW R \in SUBSET Pkg, R \cap Nodes(g) = {},
         NEW deps \in [Pkg -> SUBSET Pkg]
  PROVE  Orphans(AddRequested(g, R, deps)) \subseteq Orphans(g)
<1> DEFINE h == AddRequested(g, R, deps)
<1>1. /\ Nodes(h) = Nodes(g) \cup R
      /\ Requested(h) = Requested(g) \cup R
      /\ \A q \in Pkg \ R : h[q] = g[q]
  BY AddRequestedType
<1>2. Needed(g) \subseteq Needed(h)
  <2>1. \A r \in Nodes(g) : r \in Nodes(h) /\ h[r] = g[r]
    BY <1>1 DEF Nodes
  <2> QED
    BY <2>1 DEF Needed
<1>3. ASSUME NEW q \in Orphans(h)
      PROVE  q \in Orphans(g)
  <2>1. q \in Pkg /\ q \in Nodes(h) /\ ~h[q].requested /\ q \notin Needed(h)
    BY DEF Orphans, Nodes
  <2>2. q \notin R
    BY <1>1, <2>1 DEF Requested
  <2>3. q \in Nodes(g) /\ h[q] = g[q]
    BY <1>1, <2>1, <2>2
  <2> QED
    BY <1>2, <2>1, <2>3 DEF Orphans
<1> QED
  BY <1>3

(* SyncFromInstalled tracks everything that is installed and never makes a *)
(* package an orphan: what it finds it takes for requested.                *)
THEOREM SyncMakesNoOrphans ==
  ASSUME NEW g \in Graph, NEW installed \in SUBSET Pkg,
         NEW deps \in [Pkg -> SUBSET Pkg]
  PROVE  LET h == SyncFromInstalled(g, installed, deps)
         IN  /\ Nodes(h) = Nodes(g) \cup installed
             /\ Orphans(h) \subseteq Orphans(g)
<1>1. PICK R \in SUBSET Pkg : R = installed \ Nodes(g)
  OBVIOUS
<1>2. SyncFromInstalled(g, installed, deps) = AddRequested(g, R, deps)
  BY <1>1 DEF SyncFromInstalled
<1>3. Nodes(AddRequested(g, R, deps)) = Nodes(g) \cup R
  BY AddRequestedType
<1>4. R \cap Nodes(g) = {} /\ Nodes(g) \cup R = Nodes(g) \cup installed
  BY <1>1
<1>5. Orphans(AddRequested(g, R, deps)) \subseteq Orphans(g)
  BY <1>4, RequestingMakesNoOrphans
<1> QED
  BY <1>2, <1>3, <1>4, <1>5

(* A set of nodes each of which another of the set needs is never cleaned  *)
(* up (graph_test.go:509-537 on circular dependencies).                    *)
THEOREM CyclesKeepThemselves ==
  ASSUME NEW g \in Graph, NEW C \in SUBSET Nodes(g),
         \A q \in C : \E r \in C : q \in g[r].deps
  PROVE  Orphans(g) \cap C = {}
  BY DEF Orphans, Needed, Nodes

---------------------------------------------------------------------------
(* Closure(S, deps) is the least set around S closed under deps.           *)
THEOREM ClosureIsLeast ==
  ASSUME NEW deps \in [Pkg -> SUBSET Pkg], NEW S \in SUBSET Pkg
  PROVE  /\ S \subseteq Closure(S, deps)
         /\ Closure(S, deps) \subseteq Pkg
         /\ ClosedUnder(Closure(S, deps), deps)
         /\ \A C \in SUBSET Pkg :
              S \subseteq C /\ ClosedUnder(C, deps) => Closure(S, deps) \subseteq C
<1>1. S \subseteq Closure(S, deps) /\ Closure(S, deps) \subseteq Pkg
  BY DEF Closure
<1>2. \A C \in SUBSET Pkg :
        S \subseteq C /\ ClosedUnder(C, deps) => Closure(S, deps) \subseteq C
  BY DEF Closure
<1>3. ASSUME NEW q \in Closure(S, deps), NEW r \in deps[q]
      PROVE  r \in Closure(S, deps)
  <2>1. q \in Pkg /\ r \in Pkg
    BY <1>1
  <2>2. ASSUME NEW C \in SUBSET Pkg, S \subseteq C, ClosedUnder(C, deps)
        PROVE  r \in C
    <3>1. q \in C
      BY <1>2, <2>2
    <3> QED
      BY <2>2, <3>1 DEF ClosedUnder
  <2> QED
    BY <2>1, <2>2 DEF Closure
<1>4. ClosedUnder(Closure(S, deps), deps)
  BY <1>3 DEF ClosedUnder
<1> QED
  BY <1>1, <1>2, <1>4

(* excludePackages never leaves for removal what a kept package needs.     *)
THEOREM KeepSetIsClosed ==
  ASSUME NEW g \in Graph, NEW keep \in SUBSET Pkg
  PROVE  /\ keep \subseteq KeepSet(g, keep)
         /\ \A q \in KeepSet(g, keep) : g[q].deps \subseteq KeepSet(g, keep)
<1> DEFINE deps == [q \in Pkg |-> g[q].deps]
<1>1. deps \in [Pkg -> SUBSET Pkg]
  BY NodeType, NodeFields
<1>2. /\ keep \subseteq Closure(keep, deps)
      /\ Closure(keep, deps) \subseteq Pkg
      /\ ClosedUnder(Closure(keep, deps), deps)
  BY <1>1, ClosureIsLeast
<1> QED
  BY <1>2 DEF KeepSet, ClosedUnder

(* With the graph gone, findOrphanDeps spares what the declared packages   *)
(* need through packages fpm manages, and never names a foreign package.   *)
THEOREM FallbackSparesDeclared ==
  ASSUME NEW fpmPkgs \in SUBSET Pkg, NEW named \in SUBSET Pkg,
         NEW metadata \in [Pkg -> SUBSET Pkg], NEW given \in SUBSET Pkg
  PROVE  LET gone == MetadataOrphans(fpmPkgs, named, metadata, given)
         IN  /\ gone \subseteq fpmPkgs
             /\ gone \cap named = {}
             /\ \A q \in fpmPkgs \ gone : metadata[q] \cap gone # {} => q \in given
<1> DEFINE depsOf == [q \in Pkg |-> IF q \in fpmPkgs THEN metadata[q] ELSE {}]
           kept   == Closure(named, depsOf)
<1>1. depsOf \in [Pkg -> SUBSET Pkg]
  OBVIOUS
<1>2. named \subseteq kept /\ ClosedUnder(kept, depsOf)
  BY <1>1, ClosureIsLeast
<1>3. MetadataOrphans(fpmPkgs, named, metadata, given) = (fpmPkgs \ kept) \ given
  BY DEF MetadataOrphans
<1>4. ASSUME NEW q \in fpmPkgs, q \in kept
      PROVE  metadata[q] \subseteq kept
  BY <1>2, <1>4 DEF ClosedUnder
<1> QED
  BY <1>2, <1>3, <1>4

(* The closure grows with what it starts from and with the edges.          *)
LEMMA ClosureMonotone ==
  ASSUME NEW deps \in [Pkg -> SUBSET Pkg], NEW S \in SUBSET Pkg,
         NEW more \in [Pkg -> SUBSET Pkg], NEW T \in SUBSET Pkg,
         S \subseteq T, \A q \in Pkg : deps[q] \subseteq more[q]
  PROVE  Closure(S, deps) \subseteq Closure(T, more)
<1>1. /\ T \subseteq Closure(T, more) /\ Closure(T, more) \in SUBSET Pkg
      /\ ClosedUnder(Closure(T, more), more)
  BY ClosureIsLeast
<1>2. S \subseteq Closure(T, more) /\ ClosedUnder(Closure(T, more), deps)
  BY <1>1 DEF ClosedUnder
<1> QED
  BY <1>1, <1>2, ClosureIsLeast

---------------------------------------------------------------------------
(* A graph without orphans                                                 *)

LEMMA EdgesType ==
  ASSUME NEW g \in Graph
  PROVE  /\ Edges(g) \in [Pkg -> SUBSET Pkg]
         /\ \A q \in Pkg : Edges(g)[q] = g[q].deps
  BY NodeType, NodeFields DEF Edges

(* Among finitely many packages, each needed by another of them, one needs *)
(* itself: the one that the fewest of them reach, since whatever needs it  *)
(* is reached by no others.                                                *)
LEMMA NeededMakesCycle ==
  ASSUME NEW g \in Graph, NEW U \in SUBSET Nodes(g), IsFiniteSet(U), U # {},
         \A q \in U : \E r \in U : q \in g[r].deps
  PROVE  U \cap OnCycle(g) # {}
<1> DEFINE Reached(q) == Closure(g[q].deps, Edges(g))
           Before(q)  == {r \in U : q \in Reached(r)}
           Sizes      == {Cardinality(Before(q)) : q \in U}
<1>1. U \subseteq Pkg /\ \A q \in Pkg : g[q].deps \in SUBSET Pkg
  BY NodeType, NodeFields DEF Nodes
<1>2. ASSUME NEW q \in Pkg
      PROVE  /\ g[q].deps \subseteq Reached(q) /\ Reached(q) \subseteq Pkg
             /\ \A r \in Reached(q) : g[r].deps \subseteq Reached(q)
  <2>1. /\ g[q].deps \subseteq Reached(q) /\ Reached(q) \subseteq Pkg
        /\ ClosedUnder(Reached(q), Edges(g))
    BY <1>1, EdgesType, ClosureIsLeast
  <2> QED
    BY <2>1, EdgesType DEF ClosedUnder
<1>3. \A q \in U : IsFiniteSet(Before(q)) /\ Cardinality(Before(q)) \in Nat
  BY FS_Subset, FS_CardinalityType
<1>4. PICK q \in U : \A r \in U : Cardinality(Before(q)) <= Cardinality(Before(r))
  <2>1. Sizes \in SUBSET Nat /\ Sizes # {}
    BY <1>3
  <2>2. IsWellFoundedOn(OpToRel(<, Nat), Nat)
    BY NatLessThanWellFounded
  <2> HIDE DEF Sizes
  <2>3. PICK x \in Sizes : \A y \in Sizes : ~ (<<y, x>> \in OpToRel(<, Nat))
    BY <2>1, <2>2, WFMin
  <2>4. \A y \in Sizes : y < x => <<y, x>> \in OpToRel(<, Nat)
    BY <2>1 DEF OpToRel
  <2>5. \A y \in Sizes : x <= y
    <3> TAKE y \in Sizes
    <3>1. x \in Nat /\ y \in Nat /\ ~ (y < x)
      BY <2>1, <2>3, <2>4
    <3> QED
      BY <3>1
  <2> HIDE DEF Before
  <2>6. \A r \in U : Cardinality(Before(r)) \in Sizes
    BY DEF Sizes
  <2>7. PICK q \in U : x = Cardinality(Before(q))
    BY DEF Sizes
  <2> QED
    BY <2>5, <2>6, <2>7
<1>5. PICK r \in U : q \in g[r].deps
  OBVIOUS
<1>6. Before(r) \subseteq Before(q)
  <2> SUFFICES ASSUME NEW s \in U, r \in Reached(s) PROVE q \in Reached(s)
    OBVIOUS
  <2> QED
    BY <1>1, <1>2, <1>5
<1>7. r \in Before(q)
  BY <1>1, <1>2, <1>5
<1>8. Before(r) = Before(q)
  <2>1. Cardinality(Before(r)) <= Cardinality(Before(q))
    BY <1>3, <1>6, FS_Subset
  <2>2. Cardinality(Before(q)) <= Cardinality(Before(r))
    BY <1>4
  <2>3. Cardinality(Before(q)) = Cardinality(Before(r))
    <3>1. Cardinality(Before(q)) \in Nat /\ Cardinality(Before(r)) \in Nat
      BY <1>3
    <3> HIDE DEF Before
    <3> QED
      BY <2>1, <2>2, <3>1
  <2> QED
    BY <1>3, <1>6, <2>3, FS_Subset
<1>9. r \in Reached(r)
  BY <1>7, <1>8
<1> QED
  BY <1>9 DEF OnCycle

(* In a finite graph without orphans every node is needed, however far up, *)
(* by a requested one or by a cycle, although Orphans looks at direct      *)
(* dependents only.                                                        *)
THEOREM NoOrphansNoGarbage ==
  ASSUME NEW g \in Graph, IsFiniteSet(Nodes(g)), Orphans(g) = {}
  PROVE  Nodes(g) \subseteq Closure(Requested(g) \cup OnCycle(g), Edges(g))
<1> DEFINE S == Requested(g) \cup OnCycle(g)
           C == Closure(S, Edges(g))
           U == Nodes(g) \ C
<1>1. S \in SUBSET Pkg
  BY DEF Requested, OnCycle, Nodes
<1>2. S \subseteq C /\ ClosedUnder(C, Edges(g))
  <2> HIDE DEF S
  <2> QED
    BY <1>1, EdgesType, ClosureIsLeast
<1>3. ASSUME NEW q \in U PROVE \E r \in U : q \in g[r].deps
  <2>1. q \in Nodes(g) /\ q \notin Requested(g)
    BY <1>2
  <2>2. q \in Needed(g)
    BY <2>1 DEF Orphans, Requested
  <2>3. PICK r \in Nodes(g) : q \in g[r].deps
    BY <2>2 DEF Needed
  <2>4. r \in C => q \in C
    BY <1>2, <2>3, EdgesType DEF ClosedUnder, Nodes
  <2> QED
    BY <2>3, <2>4
<1>4. IsFiniteSet(U) /\ U \in SUBSET Nodes(g)
  BY FS_Subset
<1>5. U \cap OnCycle(g) = {}
  BY <1>2
<1>6. U = {}
  <2> HIDE DEF U
  <2> QED
    BY <1>3, <1>4, <1>5, NeededMakesCycle
<1> QED
  BY <1>6

---------------------------------------------------------------------------
(* Types                                                                   *)

USE EnvAssumption

(* The fields of an idle process are typed.                                *)
LEMMA NoJobType == NoJob \in Job
  BY DEF NoJob, Job

(* What a round of the clean-up proposes is a set of packages, what is     *)
(* confirmed a part of it.                                                 *)
LEMMA RoundShape ==
  ASSUME TypeOK, NEW p \in Proc, PurgeRound(p)
  PROVE  \E t \in SUBSET Pkg :
           /\ t \subseteq Unused(p)
           /\ job' = [job EXCEPT ![p].todo = t]
           /\ pc' = [pc EXCEPT ![p] = IF t = {} THEN "saving" ELSE "removing"]
           /\ pc'[p] = IF t = {} THEN "saving" ELSE "removing"
<1>1. PICK t \in Confirmed(Unused(p)) :
        /\ job' = [job EXCEPT ![p].todo = t]
        /\ pc' = [pc EXCEPT ![p] = IF t = {} THEN "saving" ELSE "removing"]
  BY DEF PurgeRound
<1>2. t \subseteq Unused(p)
  BY DEF Confirmed
<1>3. Unused(p) \in SUBSET Pkg
  BY DEF Unused, MetadataOrphans, FpmManaged, Orphans, Nodes
<1>4. pc'[p] = IF t = {} THEN "saving" ELSE "removing"
  BY <1>1 DEF TypeOK
<1> QED
  BY <1>1, <1>2, <1>3, <1>4

(* A round changes the job of its process in todo only, an orphan's turn   *)
(* in todo and flag.                                                       *)
LEMMA RoundJob ==
  ASSUME TypeOK, NEW p \in Proc, NEW t \in SUBSET Pkg,
         job' = [job EXCEPT ![p].todo = t]
  PROVE  /\ job' \in [Proc -> Job]
         /\ job'[p].op = job[p].op
         /\ job'[p].flag = job[p].flag
         /\ job'[p].args = job[p].args
         /\ job'[p].todo = t
<1>1. job[p] \in Job
  BY DEF TypeOK
<1>2. job' = [job EXCEPT ![p] = [job[p] EXCEPT !.todo = t]]
  OBVIOUS
<1>3. job'[p] = [job[p] EXCEPT !.todo = t]
  BY <1>2 DEF TypeOK
<1>4. [job[p] EXCEPT !.todo = t] \in Job
  BY <1>1 DEF Job
<1>5. job' \in [Proc -> Job]
  BY <1>2, <1>4 DEF TypeOK
<1> QED
  BY <1>1, <1>3, <1>5 DEF Job

(* What a call of uninstallPackage leaves: fpm gets nothing by it, what it *)
(* was asked to remove is not fpm's afterwards, and it takes nothing else  *)
(* when the package it was asked to remove is there.                       *)
LEMMA UninstalledLeaves ==
  ASSUME TypeOK, NEW q \in Pkg, NEW force, NEW gone \in Uninstalled(q, force)
  PROVE  /\ gone \in SUBSET Pkg
         /\ Without(gone) \in [Pkg -> Installer]
         /\ \A r \in Pkg : Without(gone)[r] = "fpm" <=> r \in FpmManaged \ gone
         /\ Without(gone)[q] # "fpm"
         /\ \A r \in Pkg : Without(gone)[r] = "absent" <=> site[r] = "absent" \/ r \in gone
         /\ site[q] # "absent" => gone \subseteq {q}
         /\ q \in FpmManaged => gone = {q}
<1>1. /\ Prefixed[q] \subseteq Pkg
      /\ Removable(q, force) \subseteq Pkg
  BY DEF EnvAssumption, Removable
<1>2. gone \in SUBSET Pkg
  BY <1>1 DEF Uninstalled
<1>3. \A r \in Pkg : Without(gone)[r] = IF r \in gone THEN "absent" ELSE site[r]
  BY DEF Without
<1>4. Without(gone) \in [Pkg -> Installer]
  BY <1>2 DEF Without, TypeOK, Installer
<1>5. site[q] # "absent" => gone \subseteq {q}
  BY DEF Uninstalled, Removable
<1>6. site[q] = "fpm" => gone = {q}
  <2>1. site[q] = "fpm" => Removable(q, force) = {q}
    BY DEF Removable
  <2> QED
    BY <2>1 DEF Uninstalled
<1> QED
  BY <1>2, <1>3, <1>4, <1>5, <1>6 DEF FpmManaged

(* What one removed orphan does to its process, and to the disk.           *)
LEMMA OrphanJob ==
  ASSUME TypeOK, NEW p \in Proc, NEW q \in Pkg, RemoveOrphan(p, q)
  PROVE  /\ job' \in [Proc -> Job]
         /\ job'[p].op = job[p].op
         /\ job'[p].todo = job[p].todo \ {q}
         /\ mem'[p] = mem[p] \/ mem'[p] = Remove(mem[p], {q})
         /\ mem' \in [Proc -> Graph]
         /\ site' \in [Pkg -> Installer]
         /\ \A r \in Pkg : site'[r] = "fpm" => site[r] = "fpm"
         /\ \E gone \in SUBSET Pkg :
              /\ gone \in Uninstalled(q, FALSE)
              /\ site' = Without(gone)
              /\ gone # {} => mem' = [mem EXCEPT ![p] = Remove(mem[p], {q})]
              /\ gone = {} => mem' = mem
              /\ job'[p].flag = (job[p].flag \/ gone # {})
<1>1. PICK gone \in Uninstalled(q, FALSE) :
        /\ site' = Without(gone)
        /\ mem' = IF gone # {} THEN [mem EXCEPT ![p] = Remove(@, {q})] ELSE mem
        /\ job' = [job EXCEPT ![p].todo = job[p].todo \ {q}, ![p].flag = @ \/ gone # {}]
  BY DEF RemoveOrphan
<1> DEFINE t == job[p].todo \ {q}
           f == job[p].flag \/ gone # {}
<1>2. job[p] \in Job /\ t \in SUBSET Pkg /\ f \in BOOLEAN
  BY DEF TypeOK, Job
<1>3. job' = [job EXCEPT ![p] = [job[p] EXCEPT !.todo = t, !.flag = f]]
  BY <1>1
<1>4. job'[p] = [job[p] EXCEPT !.todo = t, !.flag = f]
  BY <1>3 DEF TypeOK
<1>5. gone \in SUBSET Pkg
  <2>1. Prefixed[q] \subseteq Pkg
    BY DEF EnvAssumption
  <2> QED
    BY <2>1 DEF Uninstalled, Removable
<1>9. /\ Without(gone) \in [Pkg -> Installer]
      /\ \A r \in Pkg : Without(gone)[r] = "fpm" => site[r] = "fpm"
  BY <1>5 DEF Without, TypeOK, Installer
<1>10. /\ mem'[p] = mem[p] \/ mem'[p] = Remove(mem[p], {q})
       /\ mem' \in [Proc -> Graph]
  <2>1. Remove(mem[p], {q}) \in Graph
    BY RemoveType DEF TypeOK
  <2> QED
    BY <1>1, <2>1 DEF TypeOK
<1> HIDE DEF t, f
<1>6. [job[p] EXCEPT !.todo = t, !.flag = f] \in Job
  BY <1>2 DEF Job
<1>7. job' \in [Proc -> Job]
  BY <1>3, <1>6 DEF TypeOK
<1>8. job'[p].op = job[p].op /\ job'[p].todo = t /\ job'[p].flag = f
  BY <1>2, <1>4 DEF Job
<1> QED
  BY <1>1, <1>5, <1>7, <1>8, <1>9, <1>10 DEF t, f

(* The same of one argument of a removal: the graph is not touched yet.    *)
LEMMA ArgumentJob ==
  ASSUME TypeOK, NEW p \in Proc, NEW q \in Pkg, RemoveArgument(p, q)
  PROVE  /\ job' \in [Proc -> Job]
         /\ job'[p].op = job[p].op
         /\ job'[p].args = job[p].args
         /\ job'[p].todo = job[p].todo \ {q}
         /\ \E gone \in SUBSET Pkg :
              /\ gone \in Uninstalled(q, job[p].force)
              /\ site' = Without(gone)
<1>1. PICK gone \in Uninstalled(q, job[p].force) :
        /\ site' = Without(gone)
        /\ job' = [job EXCEPT ![p].todo = @ \ {q}, ![p].flag = @ \/ gone # {}]
  BY DEF RemoveArgument
<1> DEFINE t == job[p].todo \ {q}
           f == job[p].flag \/ gone # {}
<1>2. job[p] \in Job /\ t \in SUBSET Pkg /\ f \in BOOLEAN
  BY DEF TypeOK, Job
<1>3. job' = [job EXCEPT ![p] = [job[p] EXCEPT !.todo = t, !.flag = f]]
  BY <1>1
<1>4. job'[p] = [job[p] EXCEPT !.todo = t, !.flag = f]
  BY <1>3 DEF TypeOK
<1>5. gone \in SUBSET Pkg
  BY UninstalledLeaves
<1> HIDE DEF t, f
<1>6. [job[p] EXCEPT !.todo = t, !.flag = f] \in Job
  BY <1>2 DEF Job
<1>7. job' \in [Proc -> Job]
  BY <1>3, <1>6 DEF TypeOK
<1>8. /\ job'[p].op = job[p].op /\ job'[p].todo = t
      /\ job'[p].args = job[p].args
  BY <1>2, <1>4 DEF Job
<1> QED
  BY <1>1, <1>5, <1>7, <1>8 DEF t

(* The swap of p's install ends early.                                     *)
SwapStop(p) ==
  \E linked, marked, gone \in SUBSET Pkg : SwapStops(p, linked, marked, gone)

(* What the resolver read is a dependency function, lost METADATA or not.  *)
LEMMA ReadDepsType ==
  ASSUME NEW lost
  PROVE  [q \in Pkg |-> IF q \in lost THEN {} ELSE Deps[q]] \in [Pkg -> SUBSET Pkg]
  BY DEF EnvAssumption

(* Returning keeps the types of the local state.                           *)
LEMMA ReturnType ==
  ASSUME TypeOK, NEW p \in Proc, Return(p)
  PROVE  pc' \in [Proc -> PC] /\ job' \in [Proc -> Job] /\ mem' \in [Proc -> Graph]
<1>1. pc' \in [Proc -> PC]
  BY DEF TypeOK, Return, PC
<1>2. job' \in [Proc -> Job]
  BY NoJobType DEF TypeOK, Return
<1>3. mem' \in [Proc -> Graph]
  BY EmptyGraphType DEF TypeOK, Return
<1> QED
  BY <1>1, <1>2, <1>3

(* Unlocking keeps the type of the lock.                                   *)
LEMMA UnlockType ==
  ASSUME TypeOK, NEW p \in Proc, Unlock(p)
  PROVE  venvLock' \in Proc \cup {NoProc}
  BY DEF TypeOK, Unlock

(* The graph an install saves.                                             *)
InstalledGraph(g, A, T, deps) == AddTransitive(AddRequested(g, A, deps), T, deps)

(* After an install the nodes are the old ones and the installed ones,     *)
LEMMA InstalledGraphNodes ==
  ASSUME NEW g \in Graph, NEW A \in SUBSET Pkg, NEW T \in SUBSET Pkg,
         NEW deps \in [Pkg -> SUBSET Pkg]
  PROVE  Nodes(InstalledGraph(g, A, T, deps)) = Nodes(g) \cup A \cup T
<1>1. PICK f \in Graph : f = AddRequested(g, A, deps)
  BY AddRequestedType
<1>2. Nodes(AddRequested(g, A, deps)) = Nodes(g) \cup A
  BY AddRequestedType
<1>3. Nodes(AddTransitive(f, T, deps)) = Nodes(f) \cup T
  BY AddTransitiveType
<1> QED
  BY <1>1, <1>2, <1>3 DEF InstalledGraph

(* the requested ones are the old ones and the arguments,                  *)
LEMMA InstalledGraphRequested ==
  ASSUME NEW g \in Graph, NEW A \in SUBSET Pkg, NEW T \in SUBSET Pkg,
         NEW deps \in [Pkg -> SUBSET Pkg]
  PROVE  Requested(InstalledGraph(g, A, T, deps)) = Requested(g) \cup A
<1>1. PICK f \in Graph : f = AddRequested(g, A, deps)
  BY AddRequestedType
<1>2. Requested(AddRequested(g, A, deps)) = Requested(g) \cup A
  BY AddRequestedType
<1>3. Requested(AddTransitive(f, T, deps)) = Requested(f)
  BY AddTransitiveType
<1> QED
  BY <1>1, <1>2, <1>3 DEF InstalledGraph

(* and only the nodes of installed packages have changed.                  *)
LEMMA InstalledGraphAt ==
  ASSUME NEW g \in Graph, NEW A \in SUBSET Pkg, NEW T \in SUBSET Pkg,
         NEW deps \in [Pkg -> SUBSET Pkg], NEW q \in Pkg
  PROVE  /\ q \in A \cup T => InstalledGraph(g, A, T, deps)[q].deps = deps[q]
         /\ q \notin A \cup T => InstalledGraph(g, A, T, deps)[q] = g[q]
  BY DEF InstalledGraph, AddTransitive, AddRequested

(* The types hold at first, and each kind of step keeps them.              *)
LEMMA TypeInit == Init => TypeOK
<1> SUFFICES ASSUME Init PROVE TypeOK
  OBVIOUS
<1>1. site \in [Pkg -> Installer]
  BY DEF Init, Installer
<1>2. graph \in Graph /\ declared \in SUBSET Pkg /\ venvLock \in Proc \cup {NoProc}
  BY EmptyGraphType DEF Init
<1>3. pc \in [Proc -> PC]
  BY DEF Init, PC
<1>4. job \in [Proc -> Job]
  BY NoJobType DEF Init
<1>5. mem \in [Proc -> Graph]
  BY EmptyGraphType DEF Init
<1> QED
  BY <1>1, <1>2, <1>3, <1>4, <1>5 DEF TypeOK

(* An install that starts keeps the types.                                 *)
LEMMA TypeBeginInstall ==
  ASSUME TypeOK, NEW p \in Installers, NEW R \in SUBSET Pkg,
         NEW lost \in SUBSET Unreadable, NEW skipped \in SUBSET Pkg,
         BeginInstall(p, R, lost, skipped)
  PROVE  TypeOK'
<1>1. PICK read \in [Pkg -> SUBSET Pkg] :
        read = [q \in Pkg |-> IF q \in lost THEN {} ELSE Deps[q]]
  BY ReadDepsType
<1>2. job' = [job EXCEPT ![p] = [op |-> "install", args |-> R,
                                 todo |-> Closure(R, read) \ skipped,
                                 deps |-> read, flag |-> FALSE,
                                 force |-> FALSE]]
  BY <1>1 DEF BeginInstall
<1>3. Closure(R, read) \in SUBSET Pkg
  BY DEF Closure
<1>4. [op |-> "install", args |-> R, todo |-> Closure(R, read) \ skipped,
       deps |-> read, flag |-> FALSE, force |-> FALSE] \in Job
  BY <1>3 DEF Job
<1>5. p \in Proc
  BY DEF Proc
<1>6. job' \in [Proc -> Job]
  BY <1>2, <1>4, <1>5 DEF TypeOK
<1>7. pc' \in [Proc -> PC]
  BY <1>5 DEF TypeOK, BeginInstall, PC
<1> QED
  BY <1>5, <1>6, <1>7 DEF TypeOK, BeginInstall

(* So do its steps,                                                        *)
LEMMA TypeInstallStep ==
  ASSUME TypeOK, NEW p \in Proc, InstallStep(p)
  PROVE  TypeOK'
<1>1. CASE AbandonInstall(p)
  BY <1>1, ReturnType, UnlockType DEF AbandonInstall, TypeOK
<1>2. CASE SwapInstall(p)
  <2>1. site' \in [Pkg -> Installer]
    BY <1>2 DEF SwapInstall, TypeOK, Installer
  <2>2. pc' \in [Proc -> PC]
    BY <1>2 DEF SwapInstall, TypeOK, PC
  <2> QED
    BY <1>2, <2>1, <2>2 DEF SwapInstall, TypeOK
<1>3. CASE LoadForInstall(p)
  <2>1. PICK j \in Job : j = job[p]
    BY DEF TypeOK
  <2>2. j.todo \in SUBSET Pkg /\ j.args \in SUBSET Pkg /\ j.deps \in [Pkg -> SUBSET Pkg]
    BY DEF Job
  <2>3. AddRequested(graph, j.todo \cap j.args, j.deps) \in Graph
    BY <2>2, AddRequestedType DEF TypeOK
  <2>4. AddTransitive(AddRequested(graph, j.todo \cap j.args, j.deps),
                      j.todo \ j.args, j.deps) \in Graph
    BY <2>2, <2>3, AddTransitiveType
  <2>5. mem' \in [Proc -> Graph]
    BY <1>3, <2>1, <2>4 DEF LoadForInstall, TypeOK
  <2>6. pc' \in [Proc -> PC]
    BY <1>3 DEF LoadForInstall, TypeOK, PC
  <2> QED
    BY <1>3, <2>5, <2>6 DEF LoadForInstall, TypeOK
<1>4. CASE SaveInstalled(p)
  <2>1. graph' \in Graph /\ pc' \in [Proc -> PC]
    BY <1>4 DEF SaveInstalled, TypeOK, PC
  <2> QED
    BY <1>4, <2>1 DEF SaveInstalled, TypeOK
<1>5. CASE Declare(p)
  <2>1. declared' \in SUBSET Pkg
    BY <1>5 DEF Declare, TypeOK, Job
  <2> QED
    BY <1>5, <2>1, ReturnType, UnlockType DEF Declare, TypeOK
<1> QED
  BY <1>1, <1>2, <1>3, <1>4, <1>5 DEF InstallStep

(* the start of a removal or mark,                                         *)
LEMMA TypeStartEdit ==
  ASSUME TypeOK, NEW p \in Editors, StartEdit(p)
  PROVE  TypeOK'
<1>0. p \in Proc
  BY DEF Proc
<1>1. CASE BeginAutoremove(p)
  <2>1. [NoJob EXCEPT !.op = "autoremove"] \in Job
    BY DEF NoJob, Job
  <2>2. pc' \in [Proc -> PC] /\ mem' \in [Proc -> Graph]
    BY <1>0, <1>1 DEF BeginAutoremove, TypeOK, PC
  <2> QED
    BY <1>0, <1>1, <2>1, <2>2 DEF BeginAutoremove, TypeOK
<1>2. ASSUME NEW R \in SUBSET Pkg, NEW purge \in BOOLEAN, NEW force \in BOOLEAN,
             BeginRemove(p, R, purge, force)
      PROVE  TypeOK'
  <2> DEFINE j == [NoJob EXCEPT !.op = IF purge THEN "purge" ELSE "remove",
                                !.args = R, !.todo = R, !.force = force]
  <2>1. j \in Job
    BY DEF NoJob, Job
  <2>3. pc' \in [Proc -> PC]
    BY <1>0, <1>2 DEF BeginRemove, TypeOK, PC
  <2>4. job' = [job EXCEPT ![p] = j]
    BY <1>2 DEF BeginRemove
  <2>5. job' \in [Proc -> Job]
    BY <1>0, <2>1, <2>4 DEF TypeOK
  <2> QED
    BY <1>2, <2>3, <2>5 DEF BeginRemove, TypeOK
<1>3. ASSUME NEW R \in SUBSET Pkg, NEW flag \in BOOLEAN, BeginMark(p, R, flag)
      PROVE  TypeOK'
  <2>1. [NoJob EXCEPT !.op = "mark", !.args = R, !.flag = flag] \in Job
    BY DEF NoJob, Job
  <2>2. Mark(graph, R, flag) \in Graph
    BY MarkType DEF TypeOK
  <2>3. pc' \in [Proc -> PC] /\ mem' \in [Proc -> Graph]
    BY <1>0, <1>3, <2>2 DEF BeginMark, TypeOK, PC
  <2> QED
    BY <1>0, <1>3, <2>1, <2>3 DEF BeginMark, TypeOK
<1> QED
  BY <1>1, <1>2, <1>3 DEF StartEdit

(* its steps,                                                              *)
LEMMA TypeEditStep ==
  ASSUME TypeOK, NEW p \in Proc, EditStep(p)
  PROVE  TypeOK'
<1>1. CASE LoadForRemove(p)
  <2>1. job[p].args \in SUBSET Pkg
    BY DEF TypeOK, Job
  <2>2. Remove(graph, job[p].args) \in Graph
    BY <2>1, RemoveType DEF TypeOK
  <2>3. pc' \in [Proc -> PC] /\ mem' \in [Proc -> Graph]
    BY <1>1, <2>2 DEF LoadForRemove, TypeOK, PC
  <2> QED
    BY <1>1, <2>3 DEF LoadForRemove, TypeOK
<1>2. CASE PurgeRound(p)
  <2>1. PICK t \in SUBSET Pkg :
          /\ t \subseteq Unused(p)
          /\ job' = [job EXCEPT ![p].todo = t]
          /\ pc' = [pc EXCEPT ![p] = IF t = {} THEN "saving" ELSE "removing"]
          /\ pc'[p] = IF t = {} THEN "saving" ELSE "removing"
    BY <1>2, RoundShape
  <2>4. job' \in [Proc -> Job]
    BY <2>1, RoundJob
  <2>5. pc' \in [Proc -> PC]
    BY <2>1 DEF TypeOK, PC
  <2> QED
    BY <1>2, <2>4, <2>5 DEF PurgeRound, TypeOK
<1>3. ASSUME NEW q \in Pkg, RemoveOrphan(p, q)
      PROVE  TypeOK'
  <2>1. site' \in [Pkg -> Installer]
    BY <1>3, OrphanJob
  <2>3. mem' \in [Proc -> Graph]
    BY <1>3, OrphanJob
  <2>4. job' \in [Proc -> Job]
    BY <1>3, OrphanJob
  <2>5. pc' \in [Proc -> PC]
    BY <1>3 DEF RemoveOrphan, AfterOrphan, TypeOK, PC
  <2> QED
    BY <1>3, <2>1, <2>3, <2>4, <2>5 DEF RemoveOrphan, TypeOK
<1>4. ASSUME NEW q \in Pkg, RemoveArgument(p, q)
      PROVE  TypeOK'
  <2>1. site' \in [Pkg -> Installer]
    BY <1>4, ArgumentJob, UninstalledLeaves
  <2>2. job' \in [Proc -> Job]
    BY <1>4, ArgumentJob
  <2> QED
    BY <1>4, <2>1, <2>2 DEF RemoveArgument, TypeOK
<1>5. CASE Undeclare(p)
  <2>1. declared' \in SUBSET Pkg /\ pc' \in [Proc -> PC]
    BY <1>5 DEF Undeclare, TypeOK, PC
  <2> QED
    BY <1>5, <2>1 DEF Undeclare, TypeOK
<1> QED
  BY <1>1, <1>2, <1>3, <1>4, <1>5 DEF EditStep

(* the save at the end of a command,                                       *)
LEMMA TypeSave ==
  ASSUME TypeOK, NEW p \in Proc, Save(p)
  PROVE  TypeOK'
<1>1. graph' \in Graph
  BY DEF Save, TypeOK
<1> QED
  BY <1>1, ReturnType DEF Save, TypeOK

(* sync and pip,                                                           *)
LEMMA TypeNeighbours ==
  ASSUME TypeOK, Neighbours
  PROVE  TypeOK'
<1>1. ASSUME NEW locked, NEW got, Sync(locked, got)
      PROVE  TypeOK'
  BY <1>1 DEF Sync, TypeOK, Installer
<1>2. ASSUME NEW q \in Pkg, PipInstall(q) \/ PipUninstall(q)
      PROVE  TypeOK'
  BY <1>2 DEF PipInstall, PipUninstall, TypeOK, Installer
<1> QED
  BY <1>1, <1>2 DEF Neighbours

(* and crashes and failed swaps.                                           *)
LEMMA TypeFaults ==
  ASSUME TypeOK, Faults
  PROVE  TypeOK'
<1>1. ASSUME NEW p \in Proc, Crash(p)
      PROVE  TypeOK'
  <2>1. graph' \in Graph
    BY <1>1, EmptyGraphType DEF Crash, TypeOK
  <2> QED
    BY <1>1, <2>1, ReturnType, UnlockType DEF Crash, TypeOK
<1>2. ASSUME NEW p \in Installers, NEW linked, NEW marked, NEW gone,
             SwapStops(p, linked, marked, gone)
      PROVE  TypeOK'
  <2>1. p \in Proc
    BY DEF Proc
  <2>2. site' \in [Pkg -> Installer]
    BY <1>2 DEF SwapStops, TypeOK, Installer
  <2> QED
    BY <1>2, <2>1, <2>2, ReturnType, UnlockType DEF SwapStops, TypeOK
<1> QED
  BY <1>1, <1>2 DEF Faults

(* Every step of the open system keeps the types.                          *)
LEMMA TypeNext ==
  ASSUME TypeOK, [OpenNext]_vars
  PROVE  TypeOK'
<1>1. ASSUME NEW p \in Installers, StartInstall(p)
      PROVE  TypeOK'
  BY <1>1, TypeBeginInstall DEF StartInstall
<1>2. ASSUME NEW p \in Editors, StartEdit(p)
      PROVE  TypeOK'
  BY <1>2, TypeStartEdit
<1>3. ASSUME NEW p \in Proc, Continue(p)
      PROVE  TypeOK'
  BY <1>3, TypeInstallStep, TypeEditStep, TypeSave DEF Continue
<1>4. CASE Neighbours
  BY <1>4, TypeNeighbours
<1>5. CASE Faults
  BY <1>5, TypeFaults
<1>6. CASE UNCHANGED vars
  BY <1>6 DEF vars, TypeOK, FpmManaged
<1> QED
  BY <1>1, <1>2, <1>3, <1>4, <1>5, <1>6 DEF OpenNext, Next

(* Every variable keeps its type, whoever else changes the environment.    *)
THEOREM TypeCorrect == OpenSpec => []TypeOK
<1>1. TypeOK /\ [OpenNext]_vars => TypeOK'
  BY TypeNext
<1> QED
  BY TypeInit, <1>1, PTL DEF OpenSpec

(* What fpm does alone is part of that.                                    *)
LEMMA SpecIsOpen == Spec => OpenSpec
<1>1. [Next]_vars => [OpenNext]_vars
  BY DEF OpenNext
<1> QED
  BY <1>1, PTL DEF Spec, OpenSpec

---------------------------------------------------------------------------
(* Commands and the environment lock                                       *)

(* The command a process runs agrees with where it is.                     *)
JobInv ==
  \A p \in Proc :
    /\ pc[p] \in {"staged", "swapped", "declaring"} => job[p].op = "install"
    /\ pc[p] \in {"uninstalling", "uninstalled"} => job[p].op \in {"remove", "purge"}
    /\ pc[p] \in {"purging", "removing"} => job[p].op \in {"purge", "autoremove"}
    /\ pc[p] = "saving" => job[p].op # "none"
    /\ job[p].op \in {"remove", "purge", "autoremove", "mark"} => p \in Editors

LockInv == JobInv /\ InstallExclusive

(* A clean-up, a removal or a mark starts at an idle process and leaves    *)
(* the others alone.                                                       *)
LEMMA StartShape ==
  ASSUME TypeOK, NEW p \in Editors, StartEdit(p)
  PROVE  /\ pc[p] = "idle"
         /\ \/ pc'[p] = "purging" /\ job'[p].op = "autoremove"
            \/ pc'[p] = "uninstalling" /\ job'[p].op \in {"remove", "purge"}
            \/ pc'[p] = "saving" /\ job'[p].op = "mark"
<1> p \in Proc
  BY DEF Proc
<1>1. CASE BeginAutoremove(p)
  <2>1. job'[p] = [NoJob EXCEPT !.op = "autoremove"]
    BY <1>1 DEF BeginAutoremove, TypeOK
  <2> QED
    BY <1>1, <2>1 DEF BeginAutoremove, TypeOK, NoJob
<1>2. ASSUME NEW R \in SUBSET Pkg, NEW purge \in BOOLEAN, NEW force \in BOOLEAN,
             BeginRemove(p, R, purge, force)
      PROVE  /\ pc[p] = "idle"
             /\ pc'[p] = "uninstalling" /\ job'[p].op \in {"remove", "purge"}
  <2>1. job'[p] = [NoJob EXCEPT !.op = IF purge THEN "purge" ELSE "remove",
                                !.args = R, !.todo = R, !.force = force]
    BY <1>2 DEF BeginRemove, TypeOK
  <2> QED
    BY <1>2, <2>1 DEF BeginRemove, TypeOK, NoJob
<1>3. ASSUME NEW R \in SUBSET Pkg, NEW flag \in BOOLEAN, BeginMark(p, R, flag)
      PROVE  pc[p] = "idle" /\ pc'[p] = "saving" /\ job'[p].op = "mark"
  <2>1. job'[p] = [NoJob EXCEPT !.op = "mark", !.args = R, !.flag = flag]
    BY <1>3 DEF BeginMark, TypeOK
  <2> QED
    BY <1>3, <2>1 DEF BeginMark, TypeOK, NoJob
<1> QED
  BY <1>1, <1>2, <1>3 DEF StartEdit

(* The lock invariant holds at first.                                      *)
LEMMA LockInit == Init => LockInv
  BY DEF Init, LockInv, JobInv, InstallExclusive, InInstall, NoJob, Proc

(* A process that returns leaves the lock to whoever else holds it.        *)
LEMMA LockReturn ==
  ASSUME TypeOK, LockInv, NEW p \in Proc, Return(p),
         Unlock(p) \/ (venvLock' = venvLock /\ venvLock # p)
  PROVE  LockInv'
<1>1. JobInv'
  BY DEF TypeOK, LockInv, JobInv, Return, NoJob
<1>2. InstallExclusive'
  BY DEF TypeOK, LockInv, InstallExclusive, InInstall, Return, Unlock, NoJob
<1> QED
  BY <1>1, <1>2 DEF LockInv

(* It is inductive in the open system.                                     *)
LEMMA LockNext ==
  ASSUME TypeOK, LockInv, [OpenNext]_vars
  PROVE  LockInv'
<1>1. ASSUME NEW p \in Installers, NEW R \in SUBSET Pkg,
             NEW lost \in SUBSET Unreadable, NEW skipped \in SUBSET Pkg,
             BeginInstall(p, R, lost, skipped)
      PROVE  LockInv'
  <2>1. p \in Proc /\ job'[p].op = "install" /\ pc'[p] = "staged"
    BY <1>1 DEF Proc, BeginInstall, TypeOK
  <2>2. \A q \in Proc \ {p} : job'[q] = job[q] /\ pc'[q] = pc[q]
    BY <1>1 DEF BeginInstall, TypeOK
  <2>3. venvLock = NoProc /\ venvLock' = p
    BY <1>1 DEF BeginInstall, LockFree
  <2>4. JobInv'
    BY <2>1, <2>2 DEF LockInv, JobInv
  <2>5. InstallExclusive'
    BY <2>1, <2>2, <2>3, EnvAssumption DEF EnvAssumption, LockInv, InstallExclusive, InInstall
  <2> QED
    BY <2>4, <2>5 DEF LockInv
<1>2. ASSUME NEW p \in Proc, AbandonInstall(p) \/ Declare(p) \/ Save(p) \/ Crash(p)
      PROVE  LockInv'
  <2>1. Save(p) => venvLock' = venvLock /\ venvLock # p
    BY EnvAssumption DEF EnvAssumption, Save, LockInv, InstallExclusive, InInstall
  <2> QED
    BY <1>2, <2>1, LockReturn DEF AbandonInstall, Declare, Save, Crash
<1>3. ASSUME NEW p \in Installers, SwapStop(p)
      PROVE  LockInv'
  BY <1>3, LockReturn DEF SwapStop, SwapStops, Proc
<1>4. ASSUME NEW p \in Proc, SwapInstall(p) \/ LoadForInstall(p) \/ SaveInstalled(p)
      PROVE  LockInv'
  <2>1. /\ job' = job /\ venvLock' = venvLock /\ InInstall(p) /\ InInstall(p)'
        /\ pc'[p] \in {"swapped", "saving", "declaring"} /\ job[p].op = "install"
    BY <1>4 DEF LockInv, JobInv, InInstall, SwapInstall, LoadForInstall, SaveInstalled, TypeOK
  <2>2. \A q \in Proc \ {p} : pc'[q] = pc[q]
    BY <1>4 DEF SwapInstall, LoadForInstall, SaveInstalled, TypeOK
  <2>3. JobInv'
    BY <2>1, <2>2 DEF LockInv, JobInv
  <2>4. InstallExclusive'
    BY <2>1, <2>2 DEF LockInv, InstallExclusive, InInstall
  <2> QED
    BY <2>3, <2>4 DEF LockInv
<1>5. ASSUME NEW p \in Proc,
             \/ p \in Editors /\ StartEdit(p)
             \/ EditStep(p)
      PROVE  LockInv'
  <2>1. /\ venvLock' = venvLock
        /\ \A q \in Proc \ {p} : job'[q] = job[q] /\ pc'[q] = pc[q]
    BY <1>5 DEF StartEdit, EditStep, BeginAutoremove, BeginRemove, BeginMark,
                RemoveArgument, Undeclare, LoadForRemove, PurgeRound, RemoveOrphan, TypeOK
  <2>2. /\ ~InInstall(p)
        /\ ~InInstall(p)'
        /\ pc'[p] \in {"uninstalling", "uninstalled", "purging", "removing", "saving"}
        /\ pc'[p] \in {"uninstalling", "uninstalled"} => job'[p].op \in {"remove", "purge"}
        /\ pc'[p] \in {"purging", "removing"} => job'[p].op \in {"purge", "autoremove"}
        /\ job'[p].op \in {"remove", "purge", "autoremove", "mark"}
        /\ p \in Editors
    <3>1. CASE p \in Editors /\ StartEdit(p)
      BY <3>1, StartShape DEF InInstall
    <3>2. CASE LoadForRemove(p)
      BY <3>2 DEF LockInv, JobInv, LoadForRemove, InInstall, TypeOK
    <3>3. CASE PurgeRound(p)
      <4>1. PICK t \in SUBSET Pkg :
              /\ t \subseteq Unused(p)
              /\ job' = [job EXCEPT ![p].todo = t]
              /\ pc' = [pc EXCEPT ![p] = IF t = {} THEN "saving" ELSE "removing"]
              /\ pc'[p] = IF t = {} THEN "saving" ELSE "removing"
        BY <3>3, RoundShape
      <4>2. job'[p].op = job[p].op /\ pc'[p] \in {"saving", "removing"}
        BY <4>1, RoundJob
      <4>3. pc[p] = "purging"
        BY <3>3 DEF PurgeRound
      <4> QED
        BY <4>2, <4>3 DEF LockInv, JobInv, InInstall
    <3>4. CASE \E q \in Pkg : RemoveOrphan(p, q)
      <4>1. PICK q \in Pkg : RemoveOrphan(p, q)
        BY <3>4
      <4>2. job'[p].op = job[p].op
        BY <4>1, OrphanJob
      <4>3. pc[p] = "removing" /\ pc'[p] \in {"purging", "removing"}
        BY <4>1 DEF RemoveOrphan, AfterOrphan, TypeOK
      <4> QED
        BY <4>2, <4>3 DEF LockInv, JobInv, InInstall
    <3>5. CASE \E q \in Pkg : RemoveArgument(p, q)
      <4>1. PICK q \in Pkg : RemoveArgument(p, q)
        BY <3>5
      <4>2. job'[p].op = job[p].op
        BY <4>1, ArgumentJob
      <4>3. pc[p] = "uninstalling" /\ pc'[p] = "uninstalling"
        BY <4>1 DEF RemoveArgument
      <4> QED
        BY <4>2, <4>3 DEF LockInv, JobInv, InInstall
    <3>6. CASE Undeclare(p)
      BY <3>6 DEF LockInv, JobInv, Undeclare, InInstall, TypeOK
    <3> QED
      BY <1>5, <3>1, <3>2, <3>3, <3>4, <3>5, <3>6 DEF EditStep
  <2>3. JobInv'
    BY <2>1, <2>2 DEF LockInv, JobInv
  <2>4. \A q \in Proc : q # p => (InInstall(q)' <=> InInstall(q))
    BY <2>1 DEF InInstall
  <2>5. InstallExclusive'
    BY <2>1, <2>2, <2>4, EnvAssumption DEF EnvAssumption, LockInv, InstallExclusive, TypeOK
  <2> QED
    BY <2>3, <2>5 DEF LockInv
<1>6. CASE Neighbours \/ UNCHANGED vars
  <2>1. pc' = pc /\ job' = job /\ venvLock' = venvLock
    BY <1>6 DEF Neighbours, Sync, PipInstall, PipUninstall, vars
  <2> QED
    BY <2>1 DEF LockInv, JobInv, InstallExclusive, InInstall
<1> QED
  BY <1>1, <1>2, <1>3, <1>4, <1>5, <1>6
  DEF OpenNext, Next, Faults, StartInstall, Continue, InstallStep, Proc, SwapStop

(* At any time at most one install is between its lock and its unlock, and *)
(* nobody else holds the lock, whatever fails or dies.                     *)
THEOREM InstallsExclude == OpenSpec => []InstallExclusive
<1>1. TypeOK /\ LockInv /\ [OpenNext]_vars => LockInv'
  BY LockNext
<1>2. LockInv => InstallExclusive
  BY DEF LockInv
<1> QED
  BY LockInit, TypeCorrect, <1>1, <1>2, PTL DEF OpenSpec

---------------------------------------------------------------------------
(* Commands one after another                                              *)

(* How an environment has to be used for what follows: there is only one   *)
(* process, or nobody but install is run (install waits for its lock;      *)
(* remove, autoremove and mark take none).                                 *)
Disciplined == Editors = {} \/ (\A p, q \in Proc : p = q)

OneActive == \A p, q \in Proc : pc[p] # "idle" /\ pc[q] # "idle" => p = q

(* An idle process becomes active only when no other is.                   *)
LEMMA ActiveNext ==
  ASSUME Disciplined, TypeOK, LockInv, OneActive, [Next]_vars
  PROVE  OneActive'
<1>1. CASE \A p, q \in Proc : p = q
  BY <1>1 DEF OneActive
<1>2. CASE Editors = {}
  <2>1. ASSUME NEW p \in Installers, NEW R, NEW lost, NEW skipped,
               BeginInstall(p, R, lost, skipped)
        PROVE  OneActive'
    <3>1. \A q \in Proc : pc[q] = "idle"
      <4>1. venvLock = NoProc
        BY <2>1 DEF BeginInstall, LockFree
      <4>2. \A q \in Proc : ~InInstall(q)
        BY <4>1, EnvAssumption DEF EnvAssumption, LockInv, InstallExclusive
      <4>3. \A q \in Proc : pc[q] \in PC /\ job[q].op \in
              {"none", "install", "remove", "purge", "autoremove", "mark"}
        BY DEF TypeOK, Job
      <4> QED
        BY <1>2, <4>2, <4>3 DEF LockInv, JobInv, InInstall, PC
    <3>2. \A q \in Proc \ {p} : pc'[q] = pc[q]
      BY <2>1 DEF BeginInstall, TypeOK
    <3> QED
      BY <3>1, <3>2 DEF OneActive
  <2>2. ASSUME NEW p \in Proc, Continue(p)
        PROVE  OneActive'
    <3>1. \A q \in Proc \ {p} : pc'[q] = pc[q]
      BY <2>2 DEF Continue, InstallStep, EditStep, Save, AbandonInstall, SwapInstall,
                  LoadForInstall, SaveInstalled, Declare, RemoveArgument,
                  Undeclare, LoadForRemove, PurgeRound, RemoveOrphan, Return,
                  TypeOK
    <3>2. pc[p] # "idle"
      BY <2>2 DEF Continue, InstallStep, EditStep, Save, AbandonInstall, SwapInstall,
                  LoadForInstall, SaveInstalled, Declare, RemoveArgument,
                  Undeclare, LoadForRemove, PurgeRound, RemoveOrphan
    <3> QED
      BY <3>1, <3>2 DEF OneActive
  <2>3. CASE UNCHANGED vars
    BY <2>3 DEF vars, OneActive
  <2> QED
    BY <1>2, <2>1, <2>2, <2>3 DEF Next, StartInstall
<1> QED
  BY <1>1, <1>2 DEF Disciplined

(* Where every fpm-managed package is recorded, by the point the active    *)
(* command has reached.                                                    *)
RecordInv ==
  /\ (\A p \in Proc : pc[p] \in {"idle", "staged"}) => FpmManaged \subseteq Nodes(graph)
  /\ \A p \in Proc :
       /\ pc[p] = "swapped" => FpmManaged \subseteq Nodes(graph) \cup job[p].todo
       /\ pc[p] = "uninstalling" =>
            FpmManaged \subseteq Nodes(graph) \ (job[p].args \ job[p].todo)
       /\ pc[p] = "uninstalled" => FpmManaged \subseteq Nodes(graph) \ job[p].args
       /\ pc[p] = "declaring" => FpmManaged \subseteq Nodes(graph)
       /\ pc[p] \in {"purging", "removing", "saving"} =>
            /\ FpmManaged \subseteq Nodes(mem[p])
            /\ job[p].op = "autoremove" /\ ~job[p].flag => mem[p] = graph

(* Requested packages a command has not removed are requested in its copy  *)
(* of the graph, and what a clean-up is about to remove is an orphan of    *)
(* that copy.                                                              *)
KeepInv ==
  \A p \in Proc :
    /\ pc[p] \in {"purging", "removing", "saving"} /\ job[p].op # "mark" =>
         Requested(graph) \cap Nodes(mem[p]) \subseteq Requested(mem[p])
    /\ pc[p] = "removing" =>
         /\ job[p].todo \subseteq Nodes(mem[p])
         /\ job[p].todo \cap (Requested(mem[p]) \cup Needed(mem[p])) = {}

SerialInv == TypeOK /\ LockInv /\ OneActive /\ RecordInv /\ KeepInv

(* The invariant of the discipline holds at first.                         *)
LEMMA SerialInit == Init => SerialInv
<1> SUFFICES ASSUME Init PROVE SerialInv
  OBVIOUS
<1>1. FpmManaged = {}
  BY DEF Init, FpmManaged
<1>2. \A p \in Proc : pc[p] = "idle"
  BY DEF Init
<1>3. OneActive /\ RecordInv /\ KeepInv
  BY <1>1, <1>2 DEF OneActive, RecordInv, KeepInv
<1> QED
  BY <1>3, TypeInit, LockInit DEF SerialInv

(* Under the discipline the process that steps is alone: the others are    *)
(* idle before and after.                                                  *)
LEMMA OthersIdle ==
  ASSUME Disciplined, TypeOK, LockInv, OneActive, NEW p \in Proc,
         \/ p \in Installers /\ StartInstall(p)
         \/ p \in Editors /\ StartEdit(p)
         \/ Continue(p)
  PROVE  \A q \in Proc \ {p} : pc[q] = "idle" /\ pc'[q] = "idle"
<1>1. OneActive'
  BY ActiveNext DEF Next
<1>2. \A q \in Proc \ {p} : pc'[q] = pc[q]
  BY DEF StartInstall, BeginInstall, StartEdit, BeginAutoremove, BeginRemove,
         BeginMark, Continue, InstallStep, EditStep, Save, AbandonInstall, SwapInstall,
         LoadForInstall, SaveInstalled, Declare, RemoveArgument,
         Undeclare, LoadForRemove, PurgeRound, RemoveOrphan, Return, TypeOK
<1>3. pc[p] # "idle" \/ pc'[p] # "idle"
  <2>1. CASE Continue(p)
    BY <2>1 DEF Continue, InstallStep, EditStep, Save, AbandonInstall, SwapInstall,
                LoadForInstall, SaveInstalled, Declare, RemoveArgument,
                Undeclare, LoadForRemove, PurgeRound, RemoveOrphan
  <2>2. CASE p \in Installers /\ StartInstall(p)
    BY <2>2 DEF StartInstall, BeginInstall, TypeOK
  <2>3. CASE p \in Editors /\ StartEdit(p)
    BY <2>3, StartShape
  <2> QED
    BY <2>1, <2>2, <2>3
<1> QED
  BY <1>1, <1>2, <1>3 DEF OneActive

(* The start of an install keeps what the graph records,                   *)
LEMMA SerialStartInstall ==
  ASSUME Disciplined, SerialInv, NEW p \in Installers, StartInstall(p)
  PROVE  RecordInv' /\ KeepInv'
<1>1. p \in Proc
  BY DEF Proc
<1>2. \A q \in Proc \ {p} : pc[q] = "idle" /\ pc'[q] = "idle"
  BY <1>1, OthersIdle DEF SerialInv
<1>3. pc[p] = "idle" /\ pc'[p] = "staged" /\ graph' = graph /\ site' = site
  BY <1>1 DEF StartInstall, BeginInstall, SerialInv, TypeOK
<1>4. FpmManaged' = FpmManaged
  BY <1>3 DEF FpmManaged
<1>5. FpmManaged \subseteq Nodes(graph)
  BY <1>2, <1>3 DEF SerialInv, RecordInv
<1> QED
  BY <1>2, <1>3, <1>4, <1>5 DEF RecordInv, KeepInv

(* and so do its steps,                                                    *)
LEMMA SerialInstallStep ==
  ASSUME Disciplined, SerialInv, NEW p \in Proc, InstallStep(p)
  PROVE  RecordInv' /\ KeepInv'
<1>1. \A q \in Proc \ {p} : pc[q] = "idle" /\ pc'[q] = "idle"
  BY OthersIdle DEF SerialInv, Continue
<1>2. CASE AbandonInstall(p)
  <2>1. pc[p] = "staged" /\ pc'[p] = "idle" /\ graph' = graph /\ site' = site
    BY <1>2 DEF AbandonInstall, Return, SerialInv, TypeOK
  <2>2. FpmManaged \subseteq Nodes(graph) /\ FpmManaged' = FpmManaged
    BY <1>1, <2>1 DEF SerialInv, RecordInv, FpmManaged
  <2> QED
    BY <1>1, <2>1, <2>2 DEF RecordInv, KeepInv
<1>3. CASE SwapInstall(p)
  <2>1. pc[p] = "staged" /\ pc'[p] = "swapped" /\ graph' = graph /\ job' = job
    BY <1>3 DEF SwapInstall, SerialInv, TypeOK
  <2>2. FpmManaged \subseteq Nodes(graph)
    BY <1>1, <2>1 DEF SerialInv, RecordInv
  <2>3. FpmManaged' \subseteq FpmManaged \cup job[p].todo
    BY <1>3 DEF SwapInstall, FpmManaged
  <2> QED
    BY <1>1, <2>1, <2>2, <2>3 DEF RecordInv, KeepInv
<1>4. CASE LoadForInstall(p)
  <2>1. /\ pc[p] = "swapped" /\ pc'[p] = "saving" /\ graph' = graph
        /\ job' = job /\ site' = site /\ FpmManaged' = FpmManaged
    BY <1>4 DEF LoadForInstall, SerialInv, TypeOK, FpmManaged
  <2>2. PICK j \in Job : j = job[p]
    BY DEF SerialInv, TypeOK
  <2>3. /\ j.todo \cap j.args \in SUBSET Pkg /\ j.todo \ j.args \in SUBSET Pkg
        /\ j.deps \in [Pkg -> SUBSET Pkg]
    BY DEF Job
  <2>4. PICK A \in SUBSET Pkg, T \in SUBSET Pkg, deps \in [Pkg -> SUBSET Pkg] :
          A = j.todo \cap j.args /\ T = j.todo \ j.args /\ deps = j.deps
    BY <2>3
  <2>5. mem'[p] = InstalledGraph(graph, A, T, deps)
    BY <1>4, <2>2, <2>4 DEF LoadForInstall, InstalledGraph, SerialInv, TypeOK
  <2>6. graph \in Graph
    BY DEF SerialInv, TypeOK
  <2>7. /\ Nodes(InstalledGraph(graph, A, T, deps)) = Nodes(graph) \cup A \cup T
        /\ Requested(InstalledGraph(graph, A, T, deps)) = Requested(graph) \cup A
    BY <2>6, InstalledGraphNodes, InstalledGraphRequested
  <2>8. /\ Nodes(mem'[p]) = Nodes(graph) \cup job[p].todo
        /\ Requested(graph) \subseteq Requested(mem'[p])
    BY <2>2, <2>4, <2>5, <2>7
  <2>9. job[p].op = "install" /\ FpmManaged \subseteq Nodes(graph) \cup job[p].todo
    BY <2>1 DEF SerialInv, LockInv, JobInv, RecordInv
  <2>10. RecordInv'
    BY <1>1, <2>1, <2>8, <2>9 DEF RecordInv
  <2>11. KeepInv'
    BY <1>1, <2>1, <2>8 DEF KeepInv
  <2> QED
    BY <2>10, <2>11
<1>5. CASE SaveInstalled(p)
  <2>1. pc[p] = "saving" /\ pc'[p] = "declaring" /\ graph' = mem[p] /\ FpmManaged' = FpmManaged
    BY <1>5 DEF SaveInstalled, SerialInv, TypeOK, FpmManaged
  <2>2. FpmManaged \subseteq Nodes(mem[p])
    BY <2>1 DEF SerialInv, RecordInv
  <2> QED
    BY <1>1, <2>1, <2>2 DEF RecordInv, KeepInv
<1>6. CASE Declare(p)
  <2>1. /\ pc[p] = "declaring" /\ pc'[p] = "idle" /\ graph' = graph
        /\ FpmManaged' = FpmManaged
    BY <1>6 DEF Declare, Return, SerialInv, TypeOK, FpmManaged
  <2>2. FpmManaged \subseteq Nodes(graph)
    BY <2>1 DEF SerialInv, RecordInv
  <2> QED
    BY <1>1, <2>1, <2>2 DEF RecordInv, KeepInv
<1> QED
  BY <1>2, <1>3, <1>4, <1>5, <1>6 DEF InstallStep

(* the start of a removal or mark,                                         *)
LEMMA SerialStartEdit ==
  ASSUME Disciplined, SerialInv, NEW p \in Editors, StartEdit(p)
  PROVE  RecordInv' /\ KeepInv'
<1>1. p \in Proc
  BY DEF Proc
<1>2. \A q \in Proc \ {p} : pc[q] = "idle" /\ pc'[q] = "idle"
  BY <1>1, OthersIdle DEF SerialInv
<1>3. pc[p] = "idle" /\ FpmManaged \subseteq Nodes(graph)
  BY <1>1, <1>2, StartShape DEF SerialInv, RecordInv
<1>4. CASE BeginAutoremove(p)
  <2>1. pc'[p] = "purging" /\ mem'[p] = graph /\ graph' = graph /\ FpmManaged' = FpmManaged
    BY <1>1, <1>4 DEF BeginAutoremove, SerialInv, TypeOK, FpmManaged
  <2> QED
    BY <1>2, <1>3, <2>1 DEF RecordInv, KeepInv, Requested
<1>5. ASSUME NEW R \in SUBSET Pkg, NEW purge \in BOOLEAN, NEW force \in BOOLEAN,
             BeginRemove(p, R, purge, force)
      PROVE  RecordInv' /\ KeepInv'
  <2>1. /\ pc'[p] = "uninstalling" /\ graph' = graph
        /\ job'[p].args = R /\ job'[p].todo = R
    <3>1. job'[p] = [NoJob EXCEPT !.op = IF purge THEN "purge" ELSE "remove",
                                  !.args = R, !.todo = R, !.force = force]
      BY <1>1, <1>5 DEF BeginRemove, SerialInv, TypeOK
    <3> QED
      BY <1>1, <1>5, <3>1 DEF BeginRemove, SerialInv, TypeOK, NoJob
  <2>2. FpmManaged' = FpmManaged
    BY <1>5 DEF BeginRemove, FpmManaged
  <2> QED
    BY <1>2, <1>3, <2>1, <2>2 DEF RecordInv, KeepInv
<1>6. ASSUME NEW R \in SUBSET Pkg, NEW flag \in BOOLEAN, BeginMark(p, R, flag)
      PROVE  RecordInv' /\ KeepInv'
  <2>1. job'[p] = [NoJob EXCEPT !.op = "mark", !.args = R, !.flag = flag]
    BY <1>1, <1>6 DEF BeginMark, SerialInv, TypeOK
  <2>2. /\ pc'[p] = "saving" /\ graph' = graph /\ FpmManaged' = FpmManaged
        /\ mem'[p] = Mark(graph, R, flag) /\ job'[p].op = "mark"
    BY <1>1, <1>6, <2>1 DEF BeginMark, SerialInv, TypeOK, FpmManaged, NoJob
  <2>3. Nodes(mem'[p]) = Nodes(graph)
    <3>1. graph \in Graph
      BY DEF SerialInv, TypeOK
    <3>2. Nodes(Mark(graph, R, flag)) = Nodes(graph)
      BY <3>1, MarkType
    <3> QED
      BY <2>2, <3>2
  <2> QED
    BY <1>2, <1>3, <2>2, <2>3 DEF RecordInv, KeepInv
<1> QED
  BY <1>4, <1>5, <1>6 DEF StartEdit

(* the rounds of a clean-up,                                               *)
LEMMA SerialEditStep ==
  ASSUME Disciplined, SerialInv, NEW p \in Proc, EditStep(p)
  PROVE  RecordInv' /\ KeepInv'
<1>1. \A q \in Proc \ {p} : pc[q] = "idle" /\ pc'[q] = "idle"
  BY OthersIdle DEF SerialInv, Continue
<1>2. CASE LoadForRemove(p)
  <2>1. /\ pc[p] = "uninstalled" /\ pc'[p] \in {"purging", "saving"}
        /\ graph' = graph /\ job' = job /\ FpmManaged' = FpmManaged
        /\ mem'[p] = Remove(graph, job[p].args)
    BY <1>2 DEF LoadForRemove, SerialInv, TypeOK, FpmManaged
  <2>2. job[p].args \in SUBSET Pkg
    BY DEF SerialInv, TypeOK, Job
  <2>3. /\ Nodes(mem'[p]) = Nodes(graph) \ job[p].args
        /\ Requested(mem'[p]) = Requested(graph) \ job[p].args
    BY <2>1, <2>2, RemoveType DEF SerialInv, TypeOK
  <2>4. /\ FpmManaged \subseteq Nodes(graph) \ job[p].args
        /\ job[p].op \in {"remove", "purge"}
    BY <2>1 DEF SerialInv, LockInv, JobInv, RecordInv
  <2> QED
    BY <1>1, <2>1, <2>3, <2>4 DEF RecordInv, KeepInv
<1>3. CASE PurgeRound(p)
  <2>1. PICK t \in SUBSET Pkg :
          /\ t \subseteq Unused(p)
          /\ job' = [job EXCEPT ![p].todo = t]
          /\ pc' = [pc EXCEPT ![p] = IF t = {} THEN "saving" ELSE "removing"]
          /\ pc'[p] = IF t = {} THEN "saving" ELSE "removing"
    BY <1>3, RoundShape DEF SerialInv
  <2>2. /\ job'[p].op = job[p].op /\ job'[p].flag = job[p].flag /\ job'[p].todo = t
    BY <2>1, RoundJob DEF SerialInv
  <2>3. /\ pc[p] = "purging" /\ mem' = mem /\ graph' = graph /\ FpmManaged' = FpmManaged
    BY <1>3 DEF PurgeRound, FpmManaged
  <2>4. FpmManaged \subseteq Nodes(mem[p])
    BY <2>3 DEF SerialInv, RecordInv
  <2>5. t \subseteq Orphans(mem[p])
    <3>1. CASE Nodes(mem[p]) = {}
      BY <2>1, <2>4, <3>1 DEF Unused, MetadataOrphans
    <3>2. CASE Nodes(mem[p]) # {}
      BY <2>1, <3>2 DEF Unused
    <3> QED
      BY <3>1, <3>2
  <2>6. /\ t \subseteq Nodes(mem[p])
        /\ t \cap (Requested(mem[p]) \cup Needed(mem[p])) = {}
    BY <2>5 DEF Orphans, Requested
  <2>7. RecordInv'
    BY <1>1, <2>1, <2>2, <2>3 DEF SerialInv, RecordInv
  <2>8. KeepInv'
    BY <1>1, <2>1, <2>2, <2>3, <2>6 DEF SerialInv, KeepInv
  <2> QED
    BY <2>7, <2>8
<1>4. ASSUME NEW q \in Pkg, RemoveOrphan(p, q)
      PROVE  RecordInv' /\ KeepInv'
  <2>1. /\ job'[p].op = job[p].op
        /\ job'[p].todo = job[p].todo \ {q}
    BY <1>4, OrphanJob DEF SerialInv
  <2>2. /\ pc[p] = "removing" /\ pc'[p] \in {"purging", "removing"} /\ graph' = graph
    BY <1>4 DEF RemoveOrphan, AfterOrphan, SerialInv, TypeOK
  <2>3. PICK gone \in SUBSET Pkg :
          /\ gone \in Uninstalled(q, FALSE)
          /\ site' = Without(gone)
          /\ gone # {} => mem' = [mem EXCEPT ![p] = Remove(mem[p], {q})]
          /\ gone = {} => mem' = mem
          /\ job'[p].flag = (job[p].flag \/ gone # {})
    BY <1>4, OrphanJob DEF SerialInv
  <2>4. FpmManaged' \subseteq FpmManaged \ {q}
    BY <2>3, UninstalledLeaves DEF FpmManaged, SerialInv
  <2>5. CASE gone # {}
    <3>1. mem'[p] = Remove(mem[p], {q})
      BY <2>3, <2>5 DEF SerialInv, TypeOK
    <3>2. /\ Nodes(mem'[p]) = Nodes(mem[p]) \ {q}
          /\ Requested(mem'[p]) = Requested(mem[p]) \ {q}
          /\ Needed(mem'[p]) \subseteq Needed(mem[p])
      BY <3>1, RemoveType DEF SerialInv, TypeOK
    <3>3. job'[p].flag = TRUE
      BY <2>3, <2>5
    <3>4. RecordInv'
      BY <1>1, <2>1, <2>2, <2>4, <3>2, <3>3 DEF SerialInv, RecordInv
    <3>5. KeepInv'
      BY <1>1, <2>1, <2>2, <3>2 DEF SerialInv, KeepInv
    <3> QED
      BY <3>4, <3>5
  <2>6. CASE gone = {}
    <3>1. mem' = mem /\ job'[p].flag = job[p].flag
      <4>1. job[p].flag \in BOOLEAN
        BY DEF SerialInv, TypeOK, Job
      <4> QED
        BY <2>3, <2>6, <4>1
    <3>2. RecordInv'
      BY <1>1, <2>1, <2>2, <2>4, <3>1 DEF SerialInv, RecordInv
    <3>3. KeepInv'
      BY <1>1, <2>1, <2>2, <3>1 DEF SerialInv, KeepInv
    <3> QED
      BY <3>2, <3>3
  <2> QED
    BY <2>5, <2>6
<1>5. ASSUME NEW q \in Pkg, RemoveArgument(p, q)
      PROVE  RecordInv' /\ KeepInv'
  <2>1. /\ job'[p].op = job[p].op /\ job'[p].args = job[p].args
        /\ job'[p].todo = job[p].todo \ {q}
    BY <1>5, ArgumentJob DEF SerialInv
  <2>2. pc[p] = "uninstalling" /\ pc'[p] = "uninstalling" /\ graph' = graph
    BY <1>5 DEF RemoveArgument
  <2>3. PICK gone \in SUBSET Pkg :
          gone \in Uninstalled(q, job[p].force) /\ site' = Without(gone)
    BY <1>5, ArgumentJob DEF SerialInv
  <2>4. FpmManaged' \subseteq FpmManaged \ {q}
    BY <2>3, UninstalledLeaves DEF FpmManaged, SerialInv
  <2>5. FpmManaged \subseteq Nodes(graph) \ (job[p].args \ job[p].todo)
    BY <2>2 DEF SerialInv, RecordInv
  <2>6. RecordInv'
    BY <1>1, <2>1, <2>2, <2>4, <2>5 DEF RecordInv
  <2>7. KeepInv'
    BY <1>1, <2>2 DEF KeepInv
  <2> QED
    BY <2>6, <2>7
<1>6. CASE Undeclare(p)
  <2>1. /\ pc[p] = "uninstalling" /\ pc'[p] = "uninstalled" /\ graph' = graph
        /\ job' = job /\ job[p].todo = {} /\ FpmManaged' = FpmManaged
    BY <1>6 DEF Undeclare, SerialInv, TypeOK, FpmManaged
  <2>2. FpmManaged \subseteq Nodes(graph) \ (job[p].args \ job[p].todo)
    BY <2>1 DEF SerialInv, RecordInv
  <2> QED
    BY <1>1, <2>1, <2>2 DEF RecordInv, KeepInv
<1> QED
  BY <1>2, <1>3, <1>4, <1>5, <1>6 DEF EditStep

(* and the save at the end.                                                *)
LEMMA SerialSave ==
  ASSUME Disciplined, SerialInv, NEW p \in Proc, Save(p)
  PROVE  RecordInv' /\ KeepInv'
<1>1. \A q \in Proc \ {p} : pc[q] = "idle" /\ pc'[q] = "idle"
  BY OthersIdle DEF SerialInv, Continue
<1>2. pc[p] = "saving" /\ pc'[p] = "idle" /\ FpmManaged' = FpmManaged
  BY DEF Save, Return, SerialInv, TypeOK, FpmManaged
<1>3. graph' = mem[p]
  BY <1>2 DEF Save, SerialInv, RecordInv
<1>4. FpmManaged \subseteq Nodes(mem[p])
  BY <1>2 DEF SerialInv, RecordInv
<1> QED
  BY <1>1, <1>2, <1>3, <1>4 DEF RecordInv, KeepInv

(* The invariant of the discipline is inductive.                           *)
LEMMA SerialNext ==
  ASSUME Disciplined, SerialInv, [Next]_vars
  PROVE  SerialInv'
<1>1. TypeOK' /\ LockInv'
  BY TypeNext, LockNext DEF SerialInv, OpenNext
<1>2. OneActive'
  BY ActiveNext DEF SerialInv
<1>3. RecordInv' /\ KeepInv'
  <2>1. CASE UNCHANGED vars
    <3>1. FpmManaged' = FpmManaged /\ graph' = graph /\ mem' = mem /\ pc' = pc /\ job' = job
      BY <2>1 DEF vars, FpmManaged
    <3> QED
      BY <3>1 DEF SerialInv, RecordInv, KeepInv
  <2> QED
    BY <2>1, SerialStartInstall, SerialInstallStep, SerialStartEdit, SerialEditStep,
       SerialSave DEF Next, Continue
<1> QED
  BY <1>1, <1>2, <1>3 DEF SerialInv

(* Hence it holds throughout.                                              *)
LEMMA SerialInvariant == ASSUME Disciplined PROVE Spec => []SerialInv
<1>1. SerialInv /\ [Next]_vars => SerialInv'
  BY SerialNext
<1> QED
  BY SerialInit, <1>1, PTL DEF Spec

(* Under that discipline every fpm-managed package is in the graph between *)
(* commands.                                                               *)
THEOREM DisciplineTracks == ASSUME Disciplined PROVE Spec => []Tracked
<1>1. SerialInv => Tracked
  BY DEF SerialInv, RecordInv, Tracked
<1> QED
  BY <1>1, SerialInvariant, PTL

---------------------------------------------------------------------------
(* The graph has no ghosts, and so no clean-up is in vain                  *)

(* What every recorded package stands for, by the point the active command *)
(* has reached: the nodes of the graph it works on are on disk, but for    *)
(* the arguments that a removal has uninstalled and not yet dropped.       *)
GhostInv ==
  /\ (\A p \in Proc : pc[p] \in {"idle", "staged"}) => Nodes(graph) \subseteq FpmManaged
  /\ \A p \in Proc :
       /\ pc[p] = "swapped" => Nodes(graph) \cup job[p].todo \subseteq FpmManaged
       /\ pc[p] = "uninstalling" =>
            /\ Nodes(graph) \ (job[p].args \ job[p].todo) \subseteq FpmManaged
            /\ job[p].todo \subseteq job[p].args
            /\ \A q \in job[p].todo : site[q] # "absent"
       /\ pc[p] = "uninstalled" => Nodes(graph) \ job[p].args \subseteq FpmManaged
       /\ pc[p] = "declaring" => Nodes(graph) \subseteq FpmManaged
       /\ pc[p] \in {"purging", "removing", "saving"} => Nodes(mem[p]) \subseteq FpmManaged

(* It holds at first.                                                      *)
LEMMA GhostInit == Init => GhostInv
  BY EmptyGraphType DEF Init, GhostInv

(* The start of a command keeps it,                                        *)
LEMMA GhostStart ==
  ASSUME Disciplined, Exact, SerialInv, GhostInv, NEW p \in Proc,
         \/ p \in Installers /\ StartInstall(p)
         \/ p \in Editors /\ StartEdit(p)
  PROVE  GhostInv'
<1>1. \A q \in Proc \ {p} : pc[q] = "idle" /\ pc'[q] = "idle"
  BY OthersIdle DEF SerialInv
<1>2. pc[p] = "idle"
  BY StartShape DEF StartInstall, BeginInstall, SerialInv
<1>3. Nodes(graph) \subseteq FpmManaged
  BY <1>1, <1>2 DEF GhostInv
<1>4. ASSUME NEW R \in SUBSET Pkg, NEW lost, NEW skipped, BeginInstall(p, R, lost, skipped)
      PROVE  GhostInv'
  <2>1. pc'[p] = "staged" /\ graph' = graph /\ FpmManaged' = FpmManaged
    BY <1>4 DEF BeginInstall, SerialInv, TypeOK, FpmManaged
  <2> QED
    BY <1>1, <1>3, <2>1 DEF GhostInv
<1>5. CASE BeginAutoremove(p)
  <2>1. pc'[p] = "purging" /\ mem'[p] = graph /\ graph' = graph /\ FpmManaged' = FpmManaged
    BY <1>5 DEF BeginAutoremove, SerialInv, TypeOK, FpmManaged
  <2> QED
    BY <1>1, <1>3, <2>1 DEF GhostInv
<1>6. ASSUME NEW R \in SUBSET Pkg, NEW purge \in BOOLEAN, NEW force \in BOOLEAN,
             BeginRemove(p, R, purge, force)
      PROVE  GhostInv'
  <2>1. /\ pc'[p] = "uninstalling" /\ graph' = graph
        /\ job'[p].args = R /\ job'[p].todo = R
    <3>1. job'[p] = [NoJob EXCEPT !.op = IF purge THEN "purge" ELSE "remove",
                                  !.args = R, !.todo = R, !.force = force]
      BY <1>6 DEF BeginRemove, SerialInv, TypeOK
    <3> QED
      BY <1>6, <3>1 DEF BeginRemove, SerialInv, TypeOK, NoJob
  <2>2. site' = site /\ FpmManaged' = FpmManaged /\ \A q \in R : site[q] # "absent"
    BY <1>6 DEF BeginRemove, FpmManaged
  <2> QED
    BY <1>1, <1>3, <2>1, <2>2 DEF GhostInv
<1>7. ASSUME NEW R \in SUBSET Pkg, NEW flag \in BOOLEAN, BeginMark(p, R, flag)
      PROVE  GhostInv'
  <2>1. /\ pc'[p] = "saving" /\ graph' = graph /\ FpmManaged' = FpmManaged
        /\ mem'[p] = Mark(graph, R, flag)
    BY <1>7 DEF BeginMark, SerialInv, TypeOK, FpmManaged
  <2>2. Nodes(Mark(graph, R, flag)) = Nodes(graph)
    BY MarkType DEF SerialInv, TypeOK
  <2> QED
    BY <1>1, <1>3, <2>1, <2>2 DEF GhostInv
<1> QED
  BY <1>4, <1>5, <1>6, <1>7 DEF StartInstall, StartEdit

(* so do the steps of an install: what was swapped in is fpm's,            *)
LEMMA GhostInstallStep ==
  ASSUME Disciplined, SerialInv, GhostInv, NEW p \in Proc, InstallStep(p)
  PROVE  GhostInv'
<1>1. \A q \in Proc \ {p} : pc[q] = "idle" /\ pc'[q] = "idle"
  BY OthersIdle DEF SerialInv, Continue
<1>2. CASE AbandonInstall(p)
  <2>1. /\ pc[p] = "staged" /\ pc'[p] = "idle" /\ graph' = graph
        /\ FpmManaged' = FpmManaged
    BY <1>2 DEF AbandonInstall, Return, SerialInv, TypeOK, FpmManaged
  <2> QED
    BY <1>1, <2>1 DEF GhostInv
<1>3. CASE SwapInstall(p)
  <2>1. pc[p] = "staged" /\ pc'[p] = "swapped" /\ graph' = graph /\ job' = job
    BY <1>3 DEF SwapInstall, SerialInv, TypeOK
  <2>2. job[p].todo \subseteq Pkg
    BY DEF SerialInv, TypeOK, Job
  <2>3. FpmManaged \cup job[p].todo \subseteq FpmManaged'
    BY <1>3, <2>2 DEF SwapInstall, FpmManaged
  <2>4. Nodes(graph) \subseteq FpmManaged
    BY <1>1, <2>1 DEF GhostInv
  <2> QED
    BY <1>1, <2>1, <2>3, <2>4 DEF GhostInv
<1>4. CASE LoadForInstall(p)
  <2>1. /\ pc[p] = "swapped" /\ pc'[p] = "saving" /\ graph' = graph
        /\ FpmManaged' = FpmManaged
    BY <1>4 DEF LoadForInstall, SerialInv, TypeOK, FpmManaged
  <2>2. PICK j \in Job : j = job[p]
    BY DEF SerialInv, TypeOK
  <2>3. PICK A \in SUBSET Pkg, T \in SUBSET Pkg, deps \in [Pkg -> SUBSET Pkg] :
          A = j.todo \cap j.args /\ T = j.todo \ j.args /\ deps = j.deps
    BY DEF Job
  <2>4. mem'[p] = InstalledGraph(graph, A, T, deps)
    BY <1>4, <2>2, <2>3 DEF LoadForInstall, InstalledGraph, SerialInv, TypeOK
  <2>5. graph \in Graph
    BY DEF SerialInv, TypeOK
  <2>6. Nodes(InstalledGraph(graph, A, T, deps)) = Nodes(graph) \cup A \cup T
    BY <2>5, InstalledGraphNodes
  <2>7. Nodes(mem'[p]) = Nodes(graph) \cup job[p].todo
    BY <2>2, <2>3, <2>4, <2>6
  <2> QED
    BY <1>1, <2>1, <2>7 DEF GhostInv
<1>5. CASE SaveInstalled(p)
  <2>1. pc[p] = "saving" /\ pc'[p] = "declaring" /\ graph' = mem[p] /\ FpmManaged' = FpmManaged
    BY <1>5 DEF SaveInstalled, SerialInv, TypeOK, FpmManaged
  <2> QED
    BY <1>1, <2>1 DEF GhostInv
<1>6. CASE Declare(p)
  <2>1. /\ pc[p] = "declaring" /\ pc'[p] = "idle" /\ graph' = graph
        /\ FpmManaged' = FpmManaged
    BY <1>6 DEF Declare, Return, SerialInv, TypeOK, FpmManaged
  <2> QED
    BY <1>1, <2>1 DEF GhostInv
<1> QED
  BY <1>2, <1>3, <1>4, <1>5, <1>6 DEF InstallStep

(* An orphan's turn takes it, and nothing else, from the disk and from the *)
(* graph: it is there and fpm's, so that uninstallPackage neither refuses  *)
(* it nor finds another package for its name.                              *)
LEMMA OrphanGoes ==
  ASSUME SerialInv, GhostInv, NEW p \in Proc, NEW q \in Pkg, RemoveOrphan(p, q)
  PROVE  /\ q \in Nodes(mem[p])
         /\ Nodes(mem'[p]) = Nodes(mem[p]) \ {q}
         /\ FpmManaged \ {q} \subseteq FpmManaged'
         /\ site[q] = "fpm"
         /\ \A r \in Pkg \ {q} : site'[r] = "absent" => site[r] = "absent"
         /\ graph' = graph /\ pc[p] = "removing" /\ pc'[p] \in {"purging", "removing"}
<1>1. /\ pc[p] = "removing" /\ pc'[p] \in {"purging", "removing"}
      /\ graph' = graph /\ q \in job[p].todo
  BY DEF RemoveOrphan, AfterOrphan, SerialInv, TypeOK
<1>2. q \in Nodes(mem[p]) /\ q \in FpmManaged
  BY <1>1 DEF SerialInv, KeepInv, GhostInv
<1>3. PICK gone \in SUBSET Pkg :
        /\ gone \in Uninstalled(q, FALSE)
        /\ site' = Without(gone)
        /\ gone # {} => mem' = [mem EXCEPT ![p] = Remove(mem[p], {q})]
  BY OrphanJob DEF SerialInv
<1>4. /\ gone = {q}
      /\ \A r \in Pkg : Without(gone)[r] = "fpm" <=> r \in FpmManaged \ gone
      /\ \A r \in Pkg : Without(gone)[r] = "absent" <=> site[r] = "absent" \/ r \in gone
  BY <1>2, <1>3, UninstalledLeaves DEF SerialInv
<1>5. mem'[p] = Remove(mem[p], {q})
  BY <1>3, <1>4 DEF SerialInv, TypeOK
<1>6. Nodes(Remove(mem[p], {q})) = Nodes(mem[p]) \ {q}
  BY RemoveType DEF SerialInv, TypeOK
<1>7. FpmManaged \ {q} \subseteq FpmManaged'
  BY <1>3, <1>4 DEF FpmManaged
<1> QED
  BY <1>1, <1>2, <1>3, <1>4, <1>5, <1>6, <1>7 DEF FpmManaged

(* The steps of a removal keep the invariant,                              *)
LEMMA GhostEditStep ==
  ASSUME Disciplined, SerialInv, GhostInv, NEW p \in Proc, EditStep(p)
  PROVE  GhostInv'
<1>1. \A q \in Proc \ {p} : pc[q] = "idle" /\ pc'[q] = "idle"
  BY OthersIdle DEF SerialInv, Continue
<1>2. CASE LoadForRemove(p)
  <2>1. /\ pc[p] = "uninstalled" /\ pc'[p] \in {"purging", "saving"}
        /\ FpmManaged' = FpmManaged /\ mem'[p] = Remove(graph, job[p].args)
    BY <1>2 DEF LoadForRemove, SerialInv, TypeOK, FpmManaged
  <2>2. job[p].args \in SUBSET Pkg
    BY DEF SerialInv, TypeOK, Job
  <2>3. Nodes(mem'[p]) = Nodes(graph) \ job[p].args
    BY <2>1, <2>2, RemoveType DEF SerialInv, TypeOK
  <2> QED
    BY <1>1, <2>1, <2>3 DEF GhostInv
<1>3. CASE PurgeRound(p)
  <2>1. pc[p] = "purging" /\ mem' = mem /\ FpmManaged' = FpmManaged
    BY <1>3 DEF PurgeRound, FpmManaged
  <2>2. pc'[p] \in {"saving", "removing"}
    BY <1>3, RoundShape DEF SerialInv
  <2> QED
    BY <1>1, <2>1, <2>2 DEF GhostInv
<1>4. ASSUME NEW q \in Pkg, RemoveOrphan(p, q)
      PROVE  GhostInv'
  <2>1. Nodes(mem[p]) \subseteq FpmManaged
    BY <1>4, OrphanGoes DEF GhostInv
  <2>2. /\ Nodes(mem'[p]) \subseteq FpmManaged'
        /\ pc'[p] \in {"purging", "removing"}
    BY <1>4, <2>1, OrphanGoes
  <2> QED
    BY <1>1, <2>2 DEF GhostInv
<1>5. ASSUME NEW q \in Pkg, RemoveArgument(p, q)
      PROVE  GhostInv'
  <2>1. /\ job'[p].args = job[p].args
        /\ job'[p].todo = job[p].todo \ {q}
    BY <1>5, ArgumentJob DEF SerialInv
  <2>2. /\ pc[p] = "uninstalling" /\ pc'[p] = "uninstalling" /\ graph' = graph
        /\ q \in job[p].todo
    BY <1>5 DEF RemoveArgument
  <2>3. PICK gone \in SUBSET Pkg :
          gone \in Uninstalled(q, job[p].force) /\ site' = Without(gone)
    BY <1>5, ArgumentJob DEF SerialInv
  <2>4. /\ Nodes(graph) \ (job[p].args \ job[p].todo) \subseteq FpmManaged
        /\ job[p].todo \subseteq job[p].args
        /\ \A r \in job[p].todo : site[r] # "absent"
    BY <2>2 DEF GhostInv
  <2>5. job[p].todo \subseteq Pkg /\ job[p].args \subseteq Pkg
    BY DEF SerialInv, TypeOK, Job
  <2>6. gone \subseteq {q}
    BY <2>2, <2>3, <2>4, UninstalledLeaves DEF SerialInv
  <2>7. /\ FpmManaged \ {q} \subseteq FpmManaged'
        /\ \A r \in Pkg : site'[r] = "absent" <=> site[r] = "absent" \/ r \in gone
    BY <2>3, <2>6, UninstalledLeaves DEF SerialInv, FpmManaged
  <2>8. \A r \in job'[p].todo : site'[r] # "absent"
    BY <2>1, <2>4, <2>5, <2>6, <2>7
  <2>9. Nodes(graph) \ (job'[p].args \ job'[p].todo) \subseteq FpmManaged'
    BY <2>1, <2>2, <2>4, <2>7
  <2>10. job'[p].todo \subseteq job'[p].args
    BY <2>1, <2>4
  <2> QED
    BY <1>1, <2>2, <2>8, <2>9, <2>10 DEF GhostInv
<1>6. CASE Undeclare(p)
  <2>1. /\ pc[p] = "uninstalling" /\ pc'[p] = "uninstalled" /\ graph' = graph
        /\ job' = job /\ job[p].todo = {} /\ FpmManaged' = FpmManaged
    BY <1>6 DEF Undeclare, SerialInv, TypeOK, FpmManaged
  <2> QED
    BY <1>1, <2>1 DEF GhostInv
<1> QED
  BY <1>2, <1>3, <1>4, <1>5, <1>6 DEF EditStep

(* and so does the save.                                                   *)
LEMMA GhostSave ==
  ASSUME Disciplined, SerialInv, GhostInv, NEW p \in Proc, Save(p)
  PROVE  GhostInv'
<1>1. \A q \in Proc \ {p} : pc[q] = "idle" /\ pc'[q] = "idle"
  BY OthersIdle DEF SerialInv, Continue
<1>2. pc[p] = "saving" /\ pc'[p] = "idle" /\ FpmManaged' = FpmManaged
  BY DEF Save, Return, SerialInv, TypeOK, FpmManaged
<1>3. graph' = mem[p]
  BY <1>2 DEF Save, SerialInv, RecordInv
<1> QED
  BY <1>1, <1>2, <1>3 DEF GhostInv

(* Hence it holds throughout.                                              *)
LEMMA GhostInvariant == ASSUME Disciplined, Exact PROVE Spec => [](SerialInv /\ GhostInv)
<1>1. ASSUME SerialInv, GhostInv, [Next]_vars
      PROVE  GhostInv'
  <2>1. CASE UNCHANGED vars
    <3>1. /\ FpmManaged' = FpmManaged /\ site' = site /\ graph' = graph
          /\ mem' = mem /\ pc' = pc /\ job' = job
      BY <2>1 DEF vars, FpmManaged
    <3> QED
      BY <1>1, <3>1 DEF GhostInv
  <2> QED
    BY <1>1, <2>1, GhostStart, GhostInstallStep, GhostEditStep, GhostSave
       DEF Next, Continue, Proc
<1>2. SerialInv /\ GhostInv /\ [Next]_vars => GhostInv'
  BY <1>1
<1> QED
  BY <1>2, GhostInit, SerialInvariant, PTL DEF Spec

(* Under the discipline, and when people remove only what is installed (or *)
(* `fpm remove foo` takes foo_bar from disk and leaves it in the graph),   *)
(* every node of the graph stands, between commands, for a package fpm has *)
(* installed: with DisciplineTracks the graph and the fpm-managed part of  *)
(* site-packages are the same set.                                         *)
THEOREM DisciplineLeavesNoGhosts == ASSUME Disciplined, Exact PROVE Spec => []NoGhosts
<1>1. GhostInv => NoGhosts
  BY DEF GhostInv, NoGhosts
<1> QED
  BY <1>1, GhostInvariant, PTL

(* A step in which p's clean-up moves is p's own.                          *)
LEMMA CleanUpStep ==
  ASSUME TypeOK, [Next]_vars, NEW p \in Editors, InPurge(p),
         pc'[p] # pc[p] \/ job'[p] # job[p]
  PROVE  PurgeRound(p) \/ \E q \in Pkg : RemoveOrphan(p, q)
<1>1. p \in Proc /\ pc[p] \in {"purging", "removing"}
  BY DEF Proc, InPurge
<1>2. ASSUME NEW o \in Proc, o # p,
             \/ o \in Installers /\ StartInstall(o)
             \/ o \in Editors /\ StartEdit(o)
             \/ Continue(o)
      PROVE  pc'[p] = pc[p] /\ job'[p] = job[p]
  <2>1. CASE StartInstall(o)
    BY <1>1, <1>2, <2>1 DEF StartInstall, BeginInstall, TypeOK
  <2>2. CASE StartEdit(o)
    <3>1. CASE BeginAutoremove(o)
      BY <1>1, <1>2, <3>1 DEF BeginAutoremove, TypeOK
    <3>2. ASSUME NEW R \in SUBSET Pkg, NEW purge \in BOOLEAN, NEW force \in BOOLEAN,
                 BeginRemove(o, R, purge, force)
          PROVE  pc'[p] = pc[p] /\ job'[p] = job[p]
      BY <1>1, <1>2, <3>2 DEF BeginRemove, TypeOK
    <3>3. ASSUME NEW R \in SUBSET Pkg, NEW flag \in BOOLEAN, BeginMark(o, R, flag)
          PROVE  pc'[p] = pc[p] /\ job'[p] = job[p]
      BY <1>1, <1>2, <3>3 DEF BeginMark, TypeOK
    <3> QED
      BY <2>2, <3>1, <3>2, <3>3 DEF StartEdit
  <2>3. CASE Continue(o)
    BY <1>1, <1>2, <2>3 DEF Continue, InstallStep, EditStep, Save, AbandonInstall,
       SwapInstall, LoadForInstall, SaveInstalled, Declare, RemoveArgument, Undeclare, LoadForRemove, PurgeRound, RemoveOrphan, Return, TypeOK
  <2> QED
    BY <1>2, <2>1, <2>2, <2>3
<1>3. ~StartInstall(p) /\ ~StartEdit(p)
  <2>1. ~StartInstall(p)
    BY <1>1 DEF StartInstall, BeginInstall
  <2> QED
    BY <1>1, <2>1, StartShape
<1>4. /\ ~InstallStep(p) /\ ~Save(p) /\ ~LoadForRemove(p) /\ ~Undeclare(p)
      /\ \A q \in Pkg : ~RemoveArgument(p, q)
  BY <1>1 DEF InstallStep, AbandonInstall, SwapInstall, LoadForInstall, SaveInstalled,
     Declare, Save, LoadForRemove, Undeclare, RemoveArgument
<1>5. ~(UNCHANGED vars)
  BY DEF vars
<1> QED
  BY <1>2, <1>3, <1>4, <1>5 DEF Next, Continue, EditStep, Proc

(* Under the discipline no step of a clean-up is in vain, for any number   *)
(* of packages, any cycle among them and whatever the person keeps: what   *)
(* the endless loop of run env_loop needs is a package that is in the      *)
(* graph and not on disk.                                                  *)
THEOREM DisciplinedCleanUpAdvances == ASSUME Disciplined, Exact PROVE Spec => CleanUpAdvances
<1>1. ASSUME SerialInv, GhostInv, [Next]_vars, NEW p \in Editors, InPurge(p),
             pc'[p] # pc[p] \/ job'[p] # job[p]
      PROVE  ~InPurge(p)' \/ PurgeNearer(p)
  <2>1. p \in Proc
    BY DEF Proc
  <2>2. CASE PurgeRound(p)
    <3>1. pc[p] = "purging" /\ mem' = mem
      BY <2>2 DEF PurgeRound
    <3>2. pc'[p] \in {"saving", "removing"}
      BY <1>1, <2>1, <2>2, RoundShape DEF SerialInv
    <3> QED
      BY <3>1, <3>2 DEF InPurge, PurgeNearer
  <2>3. ASSUME NEW q \in Pkg, RemoveOrphan(p, q)
        PROVE  PurgeNearer(p)
    <3>1. q \in Nodes(mem[p]) /\ Nodes(mem'[p]) = Nodes(mem[p]) \ {q}
      BY <1>1, <2>1, <2>3, OrphanGoes
    <3> QED
      BY <3>1 DEF PurgeNearer
  <2> QED
    BY <1>1, <2>2, <2>3, CleanUpStep DEF SerialInv
<1>2. SerialInv /\ GhostInv /\ [Next]_vars
        => [\A p \in Editors :
              InPurge(p) /\ (pc'[p] # pc[p] \/ job'[p] # job[p]) =>
                ~InPurge(p)' \/ PurgeNearer(p)]_vars
  BY <1>1
<1> QED
  BY <1>2, GhostInvariant, PTL DEF Spec, CleanUpAdvances

---------------------------------------------------------------------------
(* What a clean-up takes away                                              *)

(* Only the turn of an orphan takes a package away, and under the          *)
(* discipline only that orphan.                                            *)
LEMMA TakesAwayIsRemoval ==
  ASSUME SerialInv, GhostInv, [Next]_vars, NEW p \in Editors, NEW r \in Pkg,
         TakesAway(p, r)
  PROVE  /\ p \in Proc /\ pc[p] = "removing"
         /\ RemoveOrphan(p, r) /\ r \in job[p].todo
         /\ site[r] = "fpm" /\ site'[r] = "absent"
<1>1. /\ p \in Proc /\ pc[p] = "removing" /\ InPurge(p) /\ job'[p] # job[p]
      /\ site[r] # "absent" /\ site'[r] = "absent"
  BY DEF TakesAway, Proc, InPurge
<1>2. ~PurgeRound(p)
  BY <1>1 DEF PurgeRound
<1>3. PICK q \in Pkg : RemoveOrphan(p, q)
  BY <1>1, <1>2, CleanUpStep DEF SerialInv
<1>4. /\ site[q] = "fpm"
      /\ \A k \in Pkg \ {q} : site'[k] = "absent" => site[k] = "absent"
  BY <1>1, <1>3, OrphanGoes
<1>5. r = q
  BY <1>1, <1>4
<1> QED
  BY <1>1, <1>3, <1>4, <1>5 DEF RemoveOrphan

(* No clean-up takes away a package that a process marked or requested.    *)
THEOREM DisciplineProtectsRequested == ASSUME Disciplined, Exact PROVE Spec => MarkProtects
<1>1. ASSUME SerialInv, GhostInv, [Next]_vars, NEW p \in Editors, NEW r \in Pkg,
             TakesAway(p, r)
      PROVE  ~graph[r].requested
  <2>1. p \in Proc /\ r \in job[p].todo /\ pc[p] = "removing"
    BY <1>1, TakesAwayIsRemoval
  <2>2. r \in Nodes(mem[p]) /\ r \notin Requested(mem[p])
    BY <1>1, <2>1 DEF SerialInv, KeepInv
  <2>3. job[p].op # "mark"
    BY <1>1, <2>1 DEF SerialInv, LockInv, JobInv
  <2>4. r \notin Requested(graph)
    BY <1>1, <2>1, <2>2, <2>3 DEF SerialInv, KeepInv
  <2>5. graph \in Graph
    BY <1>1 DEF SerialInv, TypeOK
  <2>6. ~graph[r].tracked => ~graph[r].requested
    BY <2>5, NodeType, NoNodeType
  <2> QED
    BY <2>4, <2>6 DEF Requested, Nodes
<1>2. SerialInv /\ GhostInv /\ [Next]_vars
        => [\A p \in Editors, r \in Pkg : TakesAway(p, r) => ~graph[r].requested]_vars
  BY <1>1
<1> QED
  BY <1>2, GhostInvariant, PTL DEF Spec, MarkProtects

(* No clean-up takes away what another manager installed, for any names    *)
(* that begin one another: uninstallPackage looks at whose package it is   *)
(* only when one of the very name is there, and it always is, because the  *)
(* graph has no ghosts.  Without the discipline it is not so: after pip or *)
(* sync has taken an orphan away, its turn takes pip's package whose name  *)
(* begins with the orphan's.                                               *)
THEOREM DisciplineKeepsForeign == ASSUME Disciplined, Exact PROVE Spec => ForeignKept
<1>1. ASSUME SerialInv, GhostInv, [Next]_vars, NEW p \in Editors, NEW r \in Pkg,
             TakesAway(p, r)
      PROVE  site[r] # "pip"
  BY <1>1, TakesAwayIsRemoval
<1>2. SerialInv /\ GhostInv /\ [Next]_vars
        => [\A p \in Editors, r \in Pkg : TakesAway(p, r) => site[r] # "pip"]_vars
  BY <1>1
<1> QED
  BY <1>2, GhostInvariant, PTL DEF Spec, ForeignKept

(* Nothing but mark and its own removal takes a package out of the         *)
(* requested ones.                                                         *)
THEOREM DisciplineNeverDemotes == ASSUME Disciplined PROVE Spec => NeverDemoted
<1> DEFINE Kept == \A q \in Requested(graph) :
                     \/ q \notin Nodes(graph')
                     \/ q \in Requested(graph')
                     \/ \E p \in Editors : job[p].op = "mark" /\ pc[p] = "saving"
<1>1. ASSUME SerialInv, [Next]_vars
      PROVE  Kept
  <2>1. ASSUME NEW p \in Proc, Save(p)
        PROVE  Kept
    <3>1. pc[p] = "saving"
      BY <2>1 DEF Save
    <3>2. graph' = mem[p]
      BY <1>1, <2>1, <3>1 DEF Save, SerialInv, RecordInv
    <3>3. CASE job[p].op = "mark"
      BY <1>1, <3>1, <3>3 DEF SerialInv, LockInv, JobInv
    <3>4. CASE job[p].op # "mark"
      <4>1. Requested(graph) \cap Nodes(mem[p]) \subseteq Requested(mem[p])
        BY <1>1, <3>1, <3>4 DEF SerialInv, KeepInv
      <4> QED
        BY <3>2, <4>1
    <3> QED
      BY <3>3, <3>4
  <2>4. ASSUME NEW p \in Proc, SaveInstalled(p)
        PROVE  Kept
    <3>1. pc[p] = "saving" /\ job[p].op # "mark" /\ graph' = mem[p]
      BY <2>4 DEF SaveInstalled
    <3>2. Requested(graph) \cap Nodes(mem[p]) \subseteq Requested(mem[p])
      BY <1>1, <3>1 DEF SerialInv, KeepInv
    <3> QED
      BY <3>1, <3>2
  <2>2. CASE graph' = graph
    BY <2>2
  <2>3. graph' = graph \/ \E p \in Proc : Save(p) \/ SaveInstalled(p)
    BY <1>1 DEF Next, StartInstall, BeginInstall, StartEdit, BeginAutoremove, BeginRemove,
         BeginMark, Continue, InstallStep, EditStep, AbandonInstall, SwapInstall,
         LoadForInstall, Declare, RemoveArgument,
         Undeclare, LoadForRemove, PurgeRound, RemoveOrphan, vars
  <2> QED
    BY <2>1, <2>2, <2>3, <2>4
<1>2. SerialInv /\ [Next]_vars => [Kept]_vars
  BY <1>1
<1> QED
  BY <1>2, SerialInvariant, PTL DEF Spec, NeverDemoted

(* When every METADATA can be read, the graphs hold the true dependencies. *)
GraphTrue(g) == \A q \in Nodes(g) : g[q].deps = Deps[q]

DepsInv ==
  /\ GraphTrue(graph)
  /\ \A p \in Proc :
       /\ GraphTrue(mem[p])
       /\ pc[p] \in {"staged", "swapped"} => job[p].deps = Deps

(* A process that returns leaves true edges behind if the file has them.   *)
LEMMA DepsReturn ==
  ASSUME TypeOK, DepsInv, NEW p \in Proc, Return(p), GraphTrue(graph')
  PROVE  DepsInv'
<1>1. mem'[p] = EmptyGraph /\ pc'[p] = "idle"
  BY DEF TypeOK, Return
<1>2. \A q \in Proc \ {p} : mem'[q] = mem[q] /\ pc'[q] = pc[q] /\ job'[q] = job[q]
  BY DEF TypeOK, Return
<1>3. GraphTrue(mem'[p])
  BY <1>1, EmptyGraphType DEF GraphTrue
<1> QED
  BY <1>1, <1>2, <1>3 DEF DepsInv, GraphTrue

(* An install records the dependencies METADATA declares.                  *)
LEMMA InstalledGraphTrue ==
  ASSUME NEW g \in Graph, GraphTrue(g), NEW A \in SUBSET Pkg, NEW T \in SUBSET Pkg
  PROVE  GraphTrue(InstalledGraph(g, A, T, Deps))
<1>1. PICK deps \in [Pkg -> SUBSET Pkg] : deps = Deps
  BY EnvAssumption DEF EnvAssumption
<1>2. Nodes(InstalledGraph(g, A, T, deps)) = Nodes(g) \cup A \cup T
  BY InstalledGraphNodes
<1>3. ASSUME NEW q \in Nodes(g) \cup A \cup T
      PROVE  InstalledGraph(g, A, T, deps)[q].deps = deps[q]
  <2>1. q \in Pkg
    BY DEF Nodes
  <2> QED
    BY <1>1, <2>1, InstalledGraphAt DEF GraphTrue
<1> QED
  BY <1>1, <1>2, <1>3 DEF GraphTrue

(* With every METADATA readable, the edges of every graph stay true.       *)
LEMMA DepsNext ==
  ASSUME Unreadable = {}, TypeOK, DepsInv, [Next]_vars
  PROVE  DepsInv'
<1>1. ASSUME NEW p \in Installers, StartInstall(p)
      PROVE  DepsInv'
  <2>1. PICK R \in SUBSET Pkg, skipped \in SUBSET Pkg : BeginInstall(p, R, {}, skipped)
    BY <1>1 DEF StartInstall
  <2>2. [q \in Pkg |-> IF q \in {} THEN {} ELSE Deps[q]] = Deps
    BY EnvAssumption DEF EnvAssumption
  <2>3. p \in Proc
    BY DEF Proc
  <2>4. job'[p].deps = Deps
    BY <2>1, <2>2, <2>3 DEF BeginInstall, TypeOK
  <2>5. /\ graph' = graph /\ mem' = mem
        /\ \A q \in Proc \ {p} : pc'[q] = pc[q] /\ job'[q] = job[q]
    BY <2>1 DEF BeginInstall, TypeOK
  <2> QED
    BY <2>4, <2>5 DEF DepsInv, GraphTrue
<1>2. ASSUME NEW p \in Proc, AbandonInstall(p) \/ Declare(p) \/ Save(p)
      PROVE  DepsInv'
  <2>1. GraphTrue(graph')
    BY <1>2 DEF AbandonInstall, Declare, Save, DepsInv
  <2> QED
    BY <1>2, <2>1, DepsReturn DEF AbandonInstall, Declare, Save
<1>7. ASSUME NEW p \in Proc, SaveInstalled(p)
      PROVE  DepsInv'
  <2>1. /\ graph' = mem[p] /\ mem' = mem /\ job' = job /\ pc'[p] = "declaring"
        /\ \A q \in Proc \ {p} : pc'[q] = pc[q]
    BY <1>7 DEF SaveInstalled, TypeOK
  <2> QED
    BY <2>1 DEF DepsInv, GraphTrue
<1>3. ASSUME NEW p \in Proc, SwapInstall(p)
      PROVE  DepsInv'
  <2>1. /\ graph' = graph /\ mem' = mem /\ job' = job /\ pc[p] = "staged"
        /\ \A q \in Proc \ {p} : pc'[q] = pc[q]
    BY <1>3 DEF SwapInstall, TypeOK
  <2> QED
    BY <2>1 DEF DepsInv, GraphTrue
<1>4. ASSUME NEW p \in Proc, LoadForInstall(p)
      PROVE  DepsInv'
  <2>1. PICK j \in Job : j = job[p]
    BY DEF TypeOK
  <2>2. j.todo \in SUBSET Pkg /\ j.args \in SUBSET Pkg
    BY DEF Job
  <2>3. PICK A \in SUBSET Pkg, T \in SUBSET Pkg : A = j.todo \cap j.args /\ T = j.todo \ j.args
    BY <2>2
  <2>4. pc[p] = "swapped" /\ j.deps = Deps /\ graph' = graph /\ job' = job
    BY <1>4, <2>1 DEF LoadForInstall, DepsInv
  <2>5. mem'[p] = InstalledGraph(graph, A, T, Deps)
    BY <1>4, <2>1, <2>3, <2>4 DEF LoadForInstall, InstalledGraph, TypeOK
  <2>6. graph \in Graph /\ GraphTrue(graph)
    BY DEF TypeOK, DepsInv
  <2>8. GraphTrue(mem'[p])
    BY <2>3, <2>5, <2>6, InstalledGraphTrue
  <2>9. /\ \A q \in Proc \ {p} : pc'[q] = pc[q] /\ mem'[q] = mem[q]
        /\ pc'[p] = "saving"
    BY <1>4 DEF LoadForInstall, TypeOK
  <2> QED
    BY <2>4, <2>8, <2>9 DEF DepsInv, GraphTrue
<1>5. ASSUME NEW p \in Proc, (p \in Editors /\ StartEdit(p)) \/ EditStep(p)
      PROVE  DepsInv'
  <2>1. /\ graph' = graph
        /\ \A q \in Proc \ {p} : pc'[q] = pc[q] /\ mem'[q] = mem[q] /\ job'[q] = job[q]
    BY <1>5 DEF StartEdit, EditStep, BeginAutoremove, BeginRemove, BeginMark,
                RemoveArgument, Undeclare, LoadForRemove, PurgeRound, RemoveOrphan, TypeOK
  <2>2. pc'[p] \notin {"staged", "swapped"}
    <3>1. CASE p \in Editors /\ StartEdit(p)
      BY <3>1, StartShape
    <3>2. CASE PurgeRound(p)
      BY <3>2, RoundShape
    <3>3. CASE \/ LoadForRemove(p) \/ Undeclare(p)
               \/ \E q \in Pkg : RemoveOrphan(p, q) \/ RemoveArgument(p, q)
      BY <3>3 DEF LoadForRemove, Undeclare, RemoveOrphan, RemoveArgument, AfterOrphan, TypeOK
    <3> QED
      BY <1>5, <3>1, <3>2, <3>3 DEF EditStep
  <2>3. GraphTrue(mem'[p])
    <3>1. CASE mem'[p] \in {graph, mem[p]}
      BY <3>1 DEF DepsInv
    <3>2. ASSUME NEW R \in SUBSET Pkg, NEW g \in Graph, GraphTrue(g),
                 mem'[p] = Remove(g, R)
          PROVE  GraphTrue(mem'[p])
      <4>1. /\ Nodes(Remove(g, R)) = Nodes(g) \ R
            /\ \A q \in Pkg \ R : Remove(g, R)[q] = g[q]
        BY RemoveType
      <4>2. Nodes(g) \subseteq Pkg
        BY DEF Nodes
      <4> QED
        BY <3>2, <4>1, <4>2 DEF GraphTrue
    <3>3. ASSUME NEW R \in SUBSET Pkg, NEW flag \in BOOLEAN, BeginMark(p, R, flag)
          PROVE  GraphTrue(mem'[p])
      <4>1. graph \in Graph /\ mem'[p] = Mark(graph, R, flag)
        BY <3>3 DEF TypeOK, BeginMark
      <4>2. /\ Nodes(Mark(graph, R, flag)) = Nodes(graph)
            /\ \A q \in Pkg : Mark(graph, R, flag)[q].deps = graph[q].deps
        BY <4>1, MarkType
      <4>3. Nodes(graph) \subseteq Pkg
        BY DEF Nodes
      <4> QED
        BY <4>1, <4>2, <4>3 DEF GraphTrue, DepsInv
    <3>4. CASE BeginAutoremove(p) \/ PurgeRound(p) \/ Undeclare(p)
               \/ (\E q \in Pkg : RemoveArgument(p, q))
               \/ \E R \in SUBSET Pkg, purge, force \in BOOLEAN : BeginRemove(p, R, purge, force)
      <4>1. mem'[p] \in {graph, mem[p]}
        BY <3>4 DEF BeginAutoremove, PurgeRound, BeginRemove, Undeclare, RemoveArgument, TypeOK
      <4> QED
        BY <3>1, <4>1
    <3>5. CASE LoadForRemove(p)
      <4>1. job[p].args \in SUBSET Pkg /\ graph \in Graph /\ GraphTrue(graph)
        BY DEF TypeOK, Job, DepsInv
      <4>2. mem'[p] = Remove(graph, job[p].args)
        BY <3>5 DEF LoadForRemove, TypeOK
      <4> QED
        BY <3>2, <4>1, <4>2
    <3>6. ASSUME NEW q \in Pkg, RemoveOrphan(p, q)
          PROVE  GraphTrue(mem'[p])
      <4>1. mem[p] \in Graph /\ GraphTrue(mem[p]) /\ {q} \in SUBSET Pkg
        BY DEF TypeOK, DepsInv
      <4>2. mem'[p] = mem[p] \/ mem'[p] = Remove(mem[p], {q})
        BY <3>6, OrphanJob
      <4> QED
        BY <3>1, <3>2, <4>1, <4>2
    <3> QED
      BY <1>5, <3>3, <3>4, <3>5, <3>6 DEF StartEdit, EditStep
  <2> QED
    BY <2>1, <2>2, <2>3 DEF DepsInv, GraphTrue
<1>6. CASE UNCHANGED vars
  BY <1>6 DEF vars, DepsInv, GraphTrue
<1> QED
  BY <1>1, <1>2, <1>3, <1>4, <1>5, <1>6, <1>7 DEF Next, Continue, InstallStep, Proc

(* A clean-up never takes away what an fpm-managed package needs, provided *)
(* the resolver could read every METADATA.                                 *)
THEOREM DisciplineAutoremoveSafe ==
  ASSUME Disciplined, Exact, Unreadable = {}
  PROVE  Spec => AutoremoveSafe
<1> DEFINE Safe == \A p \in Editors, r \in Pkg :
       TakesAway(p, r) => \A k \in Pkg : site'[k] = "fpm" => r \notin Deps[k]
<1>1. Init => DepsInv
  <2>1. ASSUME Init PROVE DepsInv
    <3>1. graph = EmptyGraph /\ \A p \in Proc : mem[p] = EmptyGraph /\ pc[p] = "idle"
      BY <2>1 DEF Init
    <3>2. GraphTrue(EmptyGraph)
      BY EmptyGraphType DEF GraphTrue
    <3> QED
      BY <3>1, <3>2 DEF DepsInv
  <2> QED
    BY <2>1
<1>2. SerialInv /\ DepsInv /\ [Next]_vars => DepsInv'
  BY DepsNext DEF SerialInv
<1>3. ASSUME SerialInv, GhostInv, DepsInv, [Next]_vars, NEW p \in Editors, NEW r \in Pkg,
             TakesAway(p, r), NEW k \in Pkg, site'[k] = "fpm"
      PROVE  r \notin Deps[k]
  <2>1. /\ p \in Proc /\ r \in job[p].todo /\ pc[p] = "removing"
        /\ RemoveOrphan(p, r) /\ site'[r] = "absent"
    BY <1>3, TakesAwayIsRemoval
  <2>2. site[k] = "fpm"
    BY <1>3, <2>1, OrphanJob DEF SerialInv
  <2>3. k \in Nodes(mem[p])
    BY <1>3, <2>1, <2>2 DEF SerialInv, RecordInv, FpmManaged
  <2>4. mem[p][k].deps = Deps[k]
    BY <1>3, <2>1, <2>3 DEF DepsInv, GraphTrue
  <2>5. r \notin Needed(mem[p])
    BY <1>3, <2>1 DEF SerialInv, KeepInv
  <2> QED
    BY <2>3, <2>4, <2>5 DEF Needed
<1>4. SerialInv /\ GhostInv /\ DepsInv /\ [Next]_vars => [Safe]_vars
  BY <1>3
<1> QED
  BY <1>1, <1>2, <1>4, GhostInvariant, PTL DEF Spec, AutoremoveSafe

---------------------------------------------------------------------------
(* What a finished clean-up leaves                                         *)

(* Only a round that proposed nothing ends a clean-up nobody is asked      *)
(* about.                                                                  *)
PurgedInv ==
  \A p \in Proc :
    /\ pc[p] = "saving" /\ ~Interactive
    /\ job[p].op = "autoremove" \/ (job[p].op = "purge" /\ job[p].flag)
    => Orphans(mem[p]) = {}

LEMMA PurgedInit == Init => PurgedInv
  BY DEF Init, PurgedInv

(* The steps of the other processes leave a process's own state alone.     *)
LEMMA OthersKeep ==
  ASSUME TypeOK, NEW p \in Proc, NEW o \in Proc \ {p},
         \/ o \in Installers /\ StartInstall(o)
         \/ o \in Editors /\ StartEdit(o)
         \/ Continue(o)
         \/ Crash(o)
         \/ SwapStop(o)
  PROVE  pc'[p] = pc[p] /\ job'[p] = job[p] /\ mem'[p] = mem[p]
  BY DEF StartInstall, BeginInstall, StartEdit, BeginAutoremove, BeginRemove,
         BeginMark, Continue, InstallStep, EditStep, Save, AbandonInstall,
         SwapInstall, LoadForInstall, SaveInstalled, Declare, RemoveArgument, Undeclare, LoadForRemove, PurgeRound, RemoveOrphan,
         Return, Crash, SwapStop, SwapStops, TypeOK

(* Every step of the open system is one of some process, of a neighbour,   *)
(* or none.                                                                *)
LEMMA OpenSteps ==
  ASSUME [OpenNext]_vars
  PROVE  \/ \E o \in Proc :
              \/ o \in Installers /\ StartInstall(o)
              \/ o \in Editors /\ StartEdit(o)
              \/ Continue(o)
              \/ Crash(o)
              \/ o \in Installers /\ SwapStop(o)
         \/ Neighbours
         \/ UNCHANGED vars
  BY DEF OpenNext, Next, Faults, Proc, SwapStop

LEMMA PurgedNext ==
  ASSUME TypeOK, LockInv, PurgedInv, [OpenNext]_vars
  PROVE  PurgedInv'
<1> DEFINE Purged(p) ==
      /\ pc[p] = "saving" /\ ~Interactive
      /\ job[p].op = "autoremove" \/ (job[p].op = "purge" /\ job[p].flag)
      => Orphans(mem[p]) = {}
<1>1. ASSUME NEW p \in Proc, pc'[p] = pc[p], job'[p] = job[p], mem'[p] = mem[p]
      PROVE  Purged(p)'
  BY <1>1 DEF PurgedInv
<1>2. ASSUME NEW p \in Proc, pc'[p] # "saving" PROVE Purged(p)'
  BY <1>2
<1>3. ASSUME NEW p \in Proc,
             job'[p].op \notin {"autoremove", "purge"} \/
             (job'[p].op = "purge" /\ ~job'[p].flag)
      PROVE  Purged(p)'
  BY <1>3
<1>4. ASSUME NEW p \in Proc, StartInstall(p) \/ SwapInstall(p) \/ Return(p)
      PROVE  Purged(p)'
  BY <1>2, <1>4 DEF StartInstall, BeginInstall, SwapInstall, Return, TypeOK
<1>5. ASSUME NEW p \in Proc, LoadForInstall(p) PROVE Purged(p)'
  <2>1. job'[p].op = "install"
    BY <1>5 DEF LoadForInstall, LockInv, JobInv
  <2> QED
    BY <1>3, <2>1
<1>6. ASSUME NEW p \in Proc, p \in Editors, StartEdit(p) PROVE Purged(p)'
  BY <1>2, <1>3, <1>6, StartShape
<1>7. ASSUME NEW p \in Proc, LoadForRemove(p) PROVE Purged(p)'
  <2>1. /\ pc[p] = "uninstalled" /\ job'[p] = job[p]
        /\ pc'[p] = IF job[p].op = "purge" /\ job[p].flag THEN "purging" ELSE "saving"
    BY <1>7 DEF LoadForRemove, TypeOK
  <2>2. job[p].op \in {"remove", "purge"}
    BY <2>1 DEF LockInv, JobInv
  <2> QED
    BY <1>2, <1>3, <2>1, <2>2
<1>8. ASSUME NEW p \in Proc, PurgeRound(p) PROVE Purged(p)'
  <2>1. PICK t \in Confirmed(Unused(p)) :
          /\ job' = [job EXCEPT ![p].todo = t]
          /\ pc' = [pc EXCEPT ![p] = IF t = {} THEN "saving" ELSE "removing"]
          /\ mem' = mem
    BY <1>8 DEF PurgeRound
  <2>2. CASE t # {}
    BY <1>2, <2>1, <2>2 DEF TypeOK
  <2>3. CASE t = {} /\ ~Interactive
    <3>1. Unused(p) = {}
      BY <2>3 DEF Confirmed
    <3>2. Orphans(mem[p]) = {}
      BY <3>1 DEF Unused, Orphans
    <3> QED
      BY <2>1, <3>2
  <2> QED
    BY <2>2, <2>3
<1>9. ASSUME NEW p \in Proc, NEW q \in Pkg, RemoveOrphan(p, q) PROVE Purged(p)'
  BY <1>2, <1>9 DEF RemoveOrphan, AfterOrphan, TypeOK
<1>12. ASSUME NEW p \in Proc,
              SaveInstalled(p) \/ Undeclare(p) \/ \E q \in Pkg : RemoveArgument(p, q)
       PROVE  Purged(p)'
  BY <1>2, <1>12 DEF SaveInstalled, Undeclare, RemoveArgument, TypeOK
<1>10. ASSUME NEW p \in Proc,
              \/ p \in Installers /\ StartInstall(p)
              \/ p \in Editors /\ StartEdit(p)
              \/ Continue(p)
              \/ Crash(p)
              \/ SwapStop(p)
       PROVE  Purged(p)'
  BY <1>4, <1>5, <1>6, <1>7, <1>8, <1>9, <1>10, <1>12
  DEF Continue, InstallStep, EditStep, AbandonInstall, Declare, Save, Crash, SwapStop, SwapStops
<1>11. ASSUME NEW p \in Proc PROVE Purged(p)'
  <2>1. CASE Neighbours \/ UNCHANGED vars
    <3>1. pc' = pc /\ job' = job /\ mem' = mem
      BY <2>1 DEF Neighbours, Sync, PipInstall, PipUninstall, vars
    <3> QED
      BY <1>1, <3>1
  <2>2. ASSUME NEW o \in Proc \ {p},
               \/ o \in Installers /\ StartInstall(o)
               \/ o \in Editors /\ StartEdit(o)
               \/ Continue(o)
               \/ Crash(o)
               \/ SwapStop(o)
        PROVE  Purged(p)'
    BY <1>1, <2>2, OthersKeep
  <2> HIDE DEF Purged
  <2> QED
    BY <1>10, <2>1, <2>2, OpenSteps
<1> QED
  BY <1>11 DEF PurgedInv

(* A clean-up that was not told to keep anything leaves a graph without    *)
(* garbage, in an environment others change too.                           *)
THEOREM CleanUpLeavesNoGarbage ==
  ASSUME IsFiniteSet(Pkg)
  PROVE  OpenSpec => []NoGarbage
<1>1. TypeOK /\ LockInv /\ [OpenNext]_vars => LockInv'
  BY LockNext
<1>2. TypeOK /\ LockInv /\ PurgedInv /\ [OpenNext]_vars => PurgedInv'
  BY PurgedNext
<1>3. ASSUME TypeOK, PurgedInv PROVE NoGarbage
  <2> SUFFICES ASSUME NEW p \in Editors, pc[p] = "saving",
                      job[p].op = "autoremove" \/ (job[p].op = "purge" /\ job[p].flag),
                      Interactive => Orphans(mem[p]) = {}
               PROVE  Nodes(mem[p]) \subseteq
                        Closure(Requested(mem[p]) \cup OnCycle(mem[p]), Edges(mem[p]))
    BY DEF NoGarbage
  <2>1. p \in Proc /\ mem[p] \in Graph
    BY <1>3 DEF TypeOK, Proc
  <2>2. Orphans(mem[p]) = {}
    BY <1>3, <2>1 DEF PurgedInv
  <2>3. IsFiniteSet(Nodes(mem[p]))
    BY FS_Subset DEF Nodes
  <2> QED
    BY <2>1, <2>2, <2>3, NoOrphansNoGarbage
<1>4. TypeOK /\ PurgedInv => NoGarbage
  BY <1>3
<1> QED
  BY LockInit, PurgedInit, TypeCorrect, <1>1, <1>2, <1>4, PTL DEF OpenSpec

---------------------------------------------------------------------------
(* The clean-up without a graph                                            *)

(* No install runs next to a clean-up: there is one process, or there are  *)
(* only removals.                                                          *)
NoInstallBeside == \A p \in Installers, q \in Editors : p = q

(* What fpm-managed packages need, by their METADATA.                      *)
FpmDeps == [q \in Pkg |-> IF q \in FpmManaged THEN Deps[q] ELSE {}]

(* What a clean-up is about to remove is a node of its graph, or nothing   *)
(* the declared packages need; only installers install.                    *)
FallbackInv ==
  \A p \in Proc :
    /\ job[p].op = "install" => p \in Installers
    /\ pc[p] = "removing" => \/ job[p].todo \subseteq Nodes(mem[p])
                             \/ job[p].todo \cap Closure(declared, FpmDeps) = {}

LEMMA FallbackInit == Init => FallbackInv
  BY DEF Init, FallbackInv, NoJob

(* Less is needed when less is declared and less is fpm's.                 *)
LEMMA NeedsShrink ==
  ASSUME TypeOK, TypeOK', declared' \subseteq declared, FpmManaged' \subseteq FpmManaged
  PROVE  Closure(declared, FpmDeps)' \subseteq Closure(declared, FpmDeps)
<1>1. /\ FpmDeps \in [Pkg -> SUBSET Pkg] /\ FpmDeps' \in [Pkg -> SUBSET Pkg]
      /\ \A q \in Pkg : FpmDeps'[q] \subseteq FpmDeps[q]
  BY DEF FpmDeps
<1>2. declared \in SUBSET Pkg /\ declared' \in SUBSET Pkg
  BY DEF TypeOK
<1>3. Closure(declared', FpmDeps') \subseteq Closure(declared, FpmDeps)
  BY <1>1, <1>2, ClosureMonotone
<1>4. Closure(declared, FpmDeps)' = Closure(declared', FpmDeps')
  BY DEF Closure, ClosedUnder
<1> QED
  BY <1>3, <1>4

(* While a clean-up removes, nothing is declared and fpm gets no package.  *)
LEMMA RemovingShrinks ==
  ASSUME NoInstallBeside, TypeOK, LockInv, FallbackInv, [OpenNext]_vars,
         NEW p \in Proc, pc[p] = "removing"
  PROVE  declared' \subseteq declared /\ FpmManaged' \subseteq FpmManaged
<1>1. p \in Editors
  BY DEF LockInv, JobInv
<1>2. \A o \in Installers : o = p
  BY <1>1 DEF NoInstallBeside
<1>3. CASE Neighbours \/ UNCHANGED vars
  <2>1. declared' = declared /\ \A q \in Pkg : site'[q] = "fpm" => site[q] = "fpm"
    BY <1>3 DEF Neighbours, Sync, PipInstall, PipUninstall, vars, TypeOK
  <2> QED
    BY <2>1 DEF FpmManaged
<1>4. ASSUME NEW o \in Proc,
             SwapInstall(o) \/ SwapStop(o) \/ SaveInstalled(o) \/ Declare(o)
      PROVE  FALSE
  <2>1. pc[o] \in {"staged", "declaring"} \/ (pc[o] = "saving" /\ job[o].op = "install")
    BY <1>4 DEF SwapInstall, SwapStop, SwapStops, SaveInstalled, Declare
  <2>2. o \in Installers
    BY <2>1 DEF LockInv, JobInv, FallbackInv
  <2> QED
    BY <1>2, <2>1, <2>2
<1>6. ASSUME NEW o \in Proc,
             \/ o \in Installers /\ StartInstall(o)
             \/ StartEdit(o)
             \/ AbandonInstall(o) \/ LoadForInstall(o) \/ LoadForRemove(o)
             \/ PurgeRound(o) \/ Save(o) \/ Crash(o)
      PROVE  declared' = declared /\ site' = site
  BY <1>6 DEF StartInstall, BeginInstall, StartEdit, BeginAutoremove, BeginRemove,
              BeginMark, AbandonInstall, LoadForInstall, LoadForRemove, PurgeRound,
              Save, Crash
<1>7. ASSUME NEW o \in Proc,
             \/ Undeclare(o)
             \/ \E q \in Pkg : RemoveOrphan(o, q) \/ RemoveArgument(o, q)
      PROVE  /\ declared' \subseteq declared
             /\ \A q \in Pkg : site'[q] = "fpm" => site[q] = "fpm"
  <2>1. CASE Undeclare(o)
    BY <2>1 DEF Undeclare
  <2>2. ASSUME NEW q \in Pkg, RemoveOrphan(o, q)
        PROVE  declared' = declared /\ \A r \in Pkg : site'[r] = "fpm" => site[r] = "fpm"
    BY <2>2, OrphanJob DEF RemoveOrphan
  <2>3. ASSUME NEW q \in Pkg, RemoveArgument(o, q)
        PROVE  declared' = declared /\ \A r \in Pkg : site'[r] = "fpm" => site[r] = "fpm"
    BY <2>3, ArgumentJob, UninstalledLeaves DEF RemoveArgument, FpmManaged
  <2> QED
    BY <1>7, <2>1, <2>2, <2>3
<1>8. CASE declared' = declared /\ site' = site
  BY <1>8 DEF FpmManaged
<1>9. CASE /\ declared' \subseteq declared
           /\ \A q \in Pkg : site'[q] = "fpm" => site[q] = "fpm"
  BY <1>9 DEF FpmManaged
<1> QED
  BY <1>3, <1>4, <1>6, <1>7, <1>8, <1>9, OpenSteps
  DEF Continue, InstallStep, EditStep

LEMMA FallbackNext ==
  ASSUME NoInstallBeside, TypeOK, LockInv, FallbackInv, [OpenNext]_vars
  PROVE  FallbackInv'
<1>t. TypeOK'
  BY TypeNext
<1> DEFINE Inv(p) ==
      /\ job[p].op = "install" => p \in Installers
      /\ pc[p] = "removing" => \/ job[p].todo \subseteq Nodes(mem[p])
                               \/ job[p].todo \cap Closure(declared, FpmDeps) = {}
<1>1. ASSUME NEW p \in Proc, pc'[p] = pc[p], job'[p] = job[p], mem'[p] = mem[p]
      PROVE  Inv(p)'
  <2>1. CASE pc[p] # "removing"
    BY <1>1, <2>1 DEF FallbackInv
  <2>2. CASE pc[p] = "removing"
    <3>1. Closure(declared, FpmDeps)' \subseteq Closure(declared, FpmDeps)
      BY <1>t, <2>2, RemovingShrinks, NeedsShrink
    <3>2. Inv(p)
      BY DEF FallbackInv
    <3>3. Nodes(mem[p])' = Nodes(mem[p])
      BY <1>1 DEF Nodes
    <3> QED
      BY <1>1, <3>1, <3>2, <3>3
  <2> QED
    BY <2>1, <2>2
<1>2. ASSUME NEW p \in Proc, pc'[p] # "removing",
             job'[p].op # "install" \/ p \in Installers \/ job'[p].op = job[p].op
      PROVE  Inv(p)'
  BY <1>2 DEF FallbackInv
<1>3. ASSUME NEW p \in Proc, p \in Installers, StartInstall(p) PROVE Inv(p)'
  BY <1>2, <1>3 DEF StartInstall, BeginInstall, TypeOK
<1>4. ASSUME NEW p \in Proc, Return(p) PROVE Inv(p)'
  <2>1. pc'[p] = "idle" /\ job'[p].op = "none"
    BY <1>4 DEF Return, TypeOK, NoJob
  <2> QED
    BY <1>2, <2>1
<1>5. ASSUME NEW p \in Proc,
             \/ SwapInstall(p) \/ LoadForInstall(p) \/ SaveInstalled(p)
             \/ Undeclare(p) \/ LoadForRemove(p)
      PROVE  Inv(p)'
  <2>1. job'[p] = job[p] /\ pc'[p] # "removing"
    BY <1>5 DEF SwapInstall, LoadForInstall, SaveInstalled, Undeclare, LoadForRemove, TypeOK
  <2> QED
    BY <1>2, <2>1
<1>11. ASSUME NEW p \in Proc, NEW q \in Pkg, RemoveArgument(p, q) PROVE Inv(p)'
  <2>1. job'[p].op = job[p].op /\ pc'[p] # "removing"
    BY <1>11, ArgumentJob DEF RemoveArgument
  <2> QED
    BY <1>2, <2>1
<1>6. ASSUME NEW p \in Proc, p \in Editors, StartEdit(p) PROVE Inv(p)'
  BY <1>2, <1>6, StartShape
<1>7. ASSUME NEW p \in Proc, PurgeRound(p) PROVE Inv(p)'
  <2>1. PICK t \in SUBSET Pkg :
          /\ t \subseteq Unused(p)
          /\ job' = [job EXCEPT ![p].todo = t]
          /\ pc' = [pc EXCEPT ![p] = IF t = {} THEN "saving" ELSE "removing"]
          /\ pc'[p] = IF t = {} THEN "saving" ELSE "removing"
    BY <1>7, RoundShape
  <2>2. job'[p].op = job[p].op /\ job'[p].todo = t
    BY <2>1, RoundJob
  <2>3. UNCHANGED <<site, declared, mem>>
    BY <1>7 DEF PurgeRound
  <2>4. Closure(declared, FpmDeps)' = Closure(declared, FpmDeps)
    BY <2>3 DEF Closure, ClosedUnder, FpmDeps, FpmManaged
  <2>5. t \subseteq Nodes(mem[p]) \/ t \cap Closure(declared, FpmDeps) = {}
    BY <2>1 DEF Unused, Orphans, MetadataOrphans, FpmDeps
  <2>6. job'[p].todo \subseteq Nodes(mem'[p]) \/
        job'[p].todo \cap Closure(declared, FpmDeps)' = {}
    BY <2>2, <2>3, <2>4, <2>5
  <2>7. job[p].op = "install" => p \in Installers
    BY DEF FallbackInv
  <2> QED
    BY <2>2, <2>6, <2>7
<1>8. ASSUME NEW p \in Proc, NEW q \in Pkg, RemoveOrphan(p, q) PROVE Inv(p)'
  <2>1. pc[p] = "removing" /\ (mem'[p] = mem[p] \/ mem'[p] = Remove(mem[p], {q}))
    BY <1>8, OrphanJob DEF RemoveOrphan, TypeOK
  <2>2. job'[p].op = job[p].op /\ job'[p].todo = job[p].todo \ {q}
    BY <1>8, OrphanJob
  <2>3. Nodes(mem[p]) \ {q} \subseteq Nodes(mem'[p])
    BY <2>1, RemoveType DEF TypeOK
  <2>4. Closure(declared, FpmDeps)' \subseteq Closure(declared, FpmDeps)
    BY <1>t, <2>1, RemovingShrinks, NeedsShrink
  <2>5. Inv(p)
    BY DEF FallbackInv
  <2>6. \/ job'[p].todo \subseteq Nodes(mem'[p])
        \/ job'[p].todo \cap Closure(declared, FpmDeps)' = {}
    BY <2>1, <2>2, <2>3, <2>4, <2>5
  <2> QED
    BY <2>2, <2>5, <2>6
<1>9. ASSUME NEW p \in Proc,
             \/ p \in Installers /\ StartInstall(p)
             \/ p \in Editors /\ StartEdit(p)
             \/ Continue(p)
             \/ Crash(p)
             \/ SwapStop(p)
      PROVE  Inv(p)'
  BY <1>3, <1>4, <1>5, <1>6, <1>7, <1>8, <1>9, <1>11
  DEF Continue, InstallStep, EditStep, AbandonInstall, Declare, Save, Crash, SwapStop, SwapStops
<1>10. ASSUME NEW p \in Proc PROVE Inv(p)'
  <2>1. CASE Neighbours \/ UNCHANGED vars
    <3>1. pc' = pc /\ job' = job /\ mem' = mem
      BY <2>1 DEF Neighbours, Sync, PipInstall, PipUninstall, vars
    <3> QED
      BY <1>1, <3>1
  <2>2. ASSUME NEW o \in Proc \ {p},
               \/ o \in Installers /\ StartInstall(o)
               \/ o \in Editors /\ StartEdit(o)
               \/ Continue(o)
               \/ Crash(o)
               \/ SwapStop(o)
        PROVE  Inv(p)'
    BY <1>1, <2>2, OthersKeep
  <2> HIDE DEF Inv
  <2> QED
    BY <1>9, <2>1, <2>2, OpenSteps
<1> QED
  BY <1>10 DEF FallbackInv

(* With the graph gone, and no install beside it, a clean-up spares what   *)
(* the declared packages need, whatever pip, sync and other removals do    *)
(* between the question and the removal.                                   *)
THEOREM FallbackSparesNeeded ==
  ASSUME NoInstallBeside
  PROVE  OpenSpec => FallbackKeepsDeclared
<1> DEFINE A == \A p \in Editors, q \in Pkg :
                  /\ TakesAway(p, q)
                  /\ q \in job[p].todo \ job'[p].todo
                  /\ Nodes(mem[p]) = {}
                  => q \notin Closure(declared,
                       [r \in Pkg |-> IF r \in FpmManaged THEN Deps[r] ELSE {}])
<1>1. ASSUME TypeOK, FallbackInv, [OpenNext]_vars, NEW p \in Editors, NEW q \in Pkg,
             TakesAway(p, q), q \in job[p].todo, Nodes(mem[p]) = {}
      PROVE  q \notin Closure(declared, FpmDeps)
  <2>1. p \in Proc /\ pc[p] = "removing" /\ q \in job[p].todo
    BY <1>1 DEF Proc, TakesAway
  <2> QED
    BY <1>1, <2>1 DEF FallbackInv
<1>2. ASSUME TypeOK, FallbackInv, [OpenNext]_vars PROVE A
  BY <1>1, <1>2 DEF FpmDeps
<1>3. TypeOK /\ FallbackInv /\ [OpenNext]_vars => [A]_vars
  BY <1>2
<1>4. TypeOK /\ LockInv /\ [OpenNext]_vars => LockInv'
  BY LockNext
<1>5. TypeOK /\ LockInv /\ FallbackInv /\ [OpenNext]_vars => FallbackInv'
  BY FallbackNext
<1> QED
  BY LockInit, FallbackInit, TypeCorrect, <1>3, <1>4, <1>5, PTL
  DEF OpenSpec, FallbackKeepsDeclared
=============================================================================
