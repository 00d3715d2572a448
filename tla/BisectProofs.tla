------------------------------ MODULE BisectProofs ------------------------------
(***************************************************************************)
(* Theorems about Bisect for histories of any length.                      *)
(***************************************************************************)
EXTENDS Bisect, FiniteSetTheorems, TLAPS

(* What lies between two boundaries of the history in order.               *)
LEMMA CandidatesBetween ==
  ASSUME NEW g \in History, NEW b \in History, g <= b, NEW t
  PROVE  Candidates(g, b, t) = ((g + 1)..(b - 1)) \ t
  BY BisectAssumption DEF BisectAssumption, Candidates, History

(* Nothing lies between neighbours, and what lies between is between.      *)
LEMMA NothingBetween ==
  ASSUME NEW g \in Int, NEW b \in Int, (g + 1)..(b - 1) = {}
  PROVE  b <= g + 1
<1>1. g + 1 \notin (g + 1)..(b - 1)
  OBVIOUS
<1> QED
  BY <1>1

(* The arithmetic of an empty search: between adjacent boundaries the      *)
(* upper one is the first bad snapshot.                                    *)
LEMMA Neighbours ==
  ASSUME NEW g \in Int, NEW b \in Int, NEW f \in Int, g < f, f <= b, b <= g + 1
  PROVE  b = f
  OBVIOUS

(* What lies between the boundaries is within them.                        *)
LEMMA Between ==
  ASSUME NEW g \in Int, NEW b \in Int, NEW m \in (g + 1)..(b - 1)
  PROVE  g <= m /\ m <= b
  OBVIOUS

(* Only snapshots of the history are ever proposed.                        *)
LEMMA CandidatesInHistory ==
  ASSUME NEW g, NEW b, NEW t
  PROVE  Candidates(g, b, t) \subseteq History
  BY DEF Candidates

(* Every command sets a boundary, restarts the session, or ends it.        *)
LEMMA StepType ==
  ASSUME TypeOK, NEW g, NEW b \in Ids \cup {None}, NEW t, MaybeStep(g, b, t)
  PROVE  /\ current' \in History \cup {None}
         /\ found' \in History \cup {None}
<1>1. CASE UNCHANGED <<current, found>>
  BY <1>1 DEF TypeOK
<1>2. CASE Step(g, b, t)
  BY <1>2, CandidatesInHistory DEF Step, TypeOK
<1> QED
  BY <1>1, <1>2 DEF MaybeStep

(* A step keeps the types.                                                 *)
LEMMA TypeNext ==
  ASSUME TypeOK, [Next]_vars
  PROVE  TypeOK'
<1>1. ASSUME Start \/ Reset PROVE TypeOK'
  BY <1>1 DEF TypeOK, Start, Reset, Fresh
<1>2. ASSUME NEW x \in Ids, NameGood(x) PROVE TypeOK'
  <2>1. current' \in History \cup {None} /\ found' \in History \cup {None}
    BY <1>2, StepType DEF NameGood, TypeOK
  <2> QED
    BY <1>2, <2>1 DEF TypeOK, NameGood
<1>3. ASSUME NEW x \in Ids, NameBad(x) PROVE TypeOK'
  <2>1. current' \in History \cup {None} /\ found' \in History \cup {None}
    BY <1>3, StepType DEF NameBad, TypeOK
  <2> QED
    BY <1>3, <2>1 DEF TypeOK, NameBad
<1>4. ASSUME AnswerGood PROVE TypeOK'
  <2>1. current' \in History \cup {None} /\ found' \in History \cup {None}
    BY <1>4, StepType DEF AnswerGood, TypeOK
  <2> QED
    BY <1>4, <2>1 DEF TypeOK, AnswerGood, Asked, Ids
<1>5. ASSUME AnswerBad PROVE TypeOK'
  <2>1. current \in History
    BY <1>5 DEF AnswerBad, Asked, TypeOK
  <2>2. current' \in History \cup {None} /\ found' \in History \cup {None}
    BY <1>5, <2>1, StepType DEF AnswerBad, Ids
  <2> QED
    BY <1>5, <2>1, <2>2 DEF TypeOK, AnswerBad, Ids
<1>6. ASSUME UNCHANGED vars PROVE TypeOK'
  BY <1>6 DEF vars, session, TypeOK
<1> QED
  BY <1>1, <1>2, <1>3, <1>4, <1>5, <1>6 DEF Next

(* The session file never holds anything but snapshots of its history, but *)
(* for a boundary that was named.                                          *)
THEOREM TypeCorrect == Spec => []TypeOK
<1>1. Init => TypeOK
  BY DEF Init, TypeOK
<1> QED
  BY <1>1, TypeNext, PTL DEF Spec

---------------------------------------------------------------------------
(* The boundaries enclose the first bad snapshot, and everything tested    *)
(* lies outside of them.                                                   *)
BoundsInv ==
  /\ good # None => good \in History /\ ~IsBad(good)
  /\ bad # None => IsBad(bad)

TestedInv ==
  /\ \A t \in tested : t <= good \/ t >= bad
  /\ tested # {} => current # None

CurrentInv ==
  current # None => /\ good # None /\ bad \in History
                    /\ good <= current /\ current <= bad

MiddleInv ==
  current \in Candidates(good, bad, tested) =>
    Middle(Candidates(good, bad, tested), current)

SearchInv ==
  TypeOK /\ BoundsInv /\ TestedInv /\ CurrentInv /\ MiddleInv /\ FoundFirstBad

(* The invariant of the search holds at first.                             *)
LEMMA SearchInit == Init => SearchInv
<1> SUFFICES ASSUME Init PROVE SearchInv
  OBVIOUS
<1>1. TypeOK
  BY DEF Init, TypeOK
<1>2. None \notin History
  BY DEF None, History
<1>3. current \notin Candidates(good, bad, tested)
  BY <1>2, CandidatesInHistory DEF Init
<1> QED
  BY <1>1, <1>3 DEF Init, SearchInv, BoundsInv, TestedInv, CurrentInv, MiddleInv, FoundFirstBad

(* What bisectStep does with boundaries that enclose the first bad         *)
(* snapshot: it asks for one between them, or the upper one is the answer. *)
LEMMA StepKeeps ==
  ASSUME TypeOK, TypeOK', BoundsInv', firstBad' = firstBad, FoundFirstBad,
         \A t \in tested' : t <= good' \/ t >= bad',
         tested' # {} => current # None,
         current # None => /\ good' # None /\ bad' \in History
                           /\ good' <= current /\ current <= bad',
         current \notin Candidates(good', bad', tested'),
         MaybeStep(good', bad', tested')
  PROVE  SearchInv'
<1> DEFINE C == Candidates(good', bad', tested')
<1>1. CASE UNCHANGED <<current, found>>
  BY <1>1 DEF SearchInv, TestedInv, CurrentInv, MiddleInv, FoundFirstBad
<1>2. CASE Step(good', bad', tested') /\ ~UNCHANGED <<current, found>>
  <2>1. good' \in History /\ bad' \in History
    BY <1>2 DEF Step
  <2>2. ~(good' >= firstBad) /\ bad' >= firstBad
    BY <2>1 DEF BoundsInv, History, None, IsBad
  <2>3. good' < firstBad /\ firstBad <= bad' /\ firstBad \in Int
    BY <2>1, <2>2, BisectAssumption DEF BisectAssumption, TypeOK, Ids, History, Stranger
  <2>4. C = ((good' + 1)..(bad' - 1)) \ tested'
    BY <2>1, <2>3, CandidatesBetween DEF History
  <2>11. good' \in Int /\ bad' \in Int
    BY <2>1, BisectAssumption DEF BisectAssumption, History
  <2>5. \A t \in tested' : t \in Int
    BY DEF TypeOK, History
  <2>6. C = (good' + 1)..(bad' - 1)
    BY <2>1, <2>4, <2>5 DEF History
  <2>7. CASE C = {}
    <3>1. found' = bad' /\ current' = current
      BY <1>2, <2>1, <2>7 DEF Step
    <3>2. bad' = firstBad
      <4>1. bad' <= good' + 1
        BY <2>6, <2>7, <2>11, NothingBetween
      <4> QED
        BY <2>3, <2>11, <4>1, Neighbours
    <3> QED
      BY <3>1, <3>2 DEF SearchInv, TestedInv, CurrentInv, MiddleInv, FoundFirstBad
  <2>8. CASE C # {}
    <3>1. PICK m \in C : Middle(C, m) /\ current' = m /\ found' = found
      BY <1>2, <2>1, <2>8 DEF Step
    <3>2. current' \in History /\ good' <= current' /\ current' <= bad'
      <4>1. m \in (good' + 1)..(bad' - 1)
        BY <2>6
      <4>2. m \in History
        BY CandidatesInHistory
      <4>3. good' <= m /\ m <= bad'
        BY <2>11, <4>1, Between
      <4> QED
        BY <3>1, <4>2, <4>3
    <3>3. Middle(C, current')
      BY <3>1
    <3>4. MiddleInv'
      BY <3>3 DEF MiddleInv
    <3>5. current' # None
      BY <3>2 DEF History, None
    <3>6. good' # None
      BY <2>1 DEF History, None
    <3>7. FoundFirstBad'
      BY <3>1 DEF FoundFirstBad
    <3> QED
      BY <2>1, <3>2, <3>4, <3>5, <3>6, <3>7 DEF SearchInv, TestedInv, CurrentInv
  <2> QED
    BY <2>7, <2>8
<1> QED
  BY <1>1, <1>2 DEF MaybeStep

(* A boundary is named only before anything was asked.                     *)
LEMMA NamedFirst ==
  ASSUME SearchInv, Restate = FALSE
  PROVE  /\ Nameable(good) => current = None /\ tested = {} /\ good = None
         /\ Nameable(bad) => current = None /\ tested = {}
  BY DEF SearchInv, BoundsInv, TestedInv, CurrentInv, Nameable

(* The unset boundary is not a snapshot.                                   *)
LEMMA NoneIsNoCandidate ==
  ASSUME NEW g, NEW b, NEW t
  PROVE  None \notin Candidates(g, b, t)
  BY CandidatesInHistory DEF None, History

(* The invariant of the search is inductive while boundaries are named     *)
(* once.                                                                   *)
LEMMA SearchNext ==
  ASSUME SearchInv, Restate = FALSE, [Next]_vars
  PROVE  SearchInv'
<1>1. TypeOK /\ TypeOK' /\ FoundFirstBad
  BY TypeNext DEF SearchInv
<1>2. ASSUME NEW a \in BOOLEAN, Fresh(a) PROVE SearchInv'
  <2>1. current' \notin Candidates(good', bad', tested')
    BY <1>2, NoneIsNoCandidate DEF Fresh
  <2> QED
    BY <1>1, <1>2, <2>1 DEF Fresh, SearchInv, BoundsInv, TestedInv, CurrentInv, MiddleInv,
                            FoundFirstBad
<1>3. ASSUME NEW x \in Ids, NameGood(x) PROVE SearchInv'
  <2>1. current = None /\ tested' = {}
    BY <1>3, NamedFirst DEF NameGood
  <2>2. x \in History
    BY <1>1, <1>3, BisectAssumption
    DEF BisectAssumption, NameGood, IsBad, TypeOK, Ids, History, Stranger
  <2>3. BoundsInv'
    BY <1>3, <2>2 DEF NameGood, SearchInv, BoundsInv, IsBad
  <2>4. current \notin Candidates(good', bad', tested')
    BY <2>1, NoneIsNoCandidate
  <2>5. firstBad' = firstBad /\ MaybeStep(good', bad', tested')
    BY <1>3 DEF NameGood
  <2> QED
    BY <1>1, <2>1, <2>3, <2>4, <2>5, StepKeeps
<1>4. ASSUME NEW x \in Ids, NameBad(x) PROVE SearchInv'
  <2>1. current = None /\ tested' = {}
    BY <1>4, NamedFirst DEF NameBad
  <2>2. BoundsInv'
    BY <1>4 DEF NameBad, SearchInv, BoundsInv, IsBad
  <2>3. current \notin Candidates(good', bad', tested')
    BY <2>1, NoneIsNoCandidate
  <2>4. firstBad' = firstBad /\ MaybeStep(good', bad', tested')
    BY <1>4 DEF NameBad
  <2> QED
    BY <1>1, <2>1, <2>2, <2>3, <2>4, StepKeeps
<1>5. ASSUME AnswerGood \/ AnswerBad PROVE SearchInv'
  <2>1. /\ current \in History /\ tested' = tested \cup {current}
        /\ good # None /\ good \in History /\ bad \in History
        /\ good <= current /\ current <= bad
        /\ firstBad' = firstBad
    BY <1>1, <1>5 DEF AnswerGood, AnswerBad, Asked, TypeOK, SearchInv, CurrentInv, BoundsInv
  <2>2. \/ ~IsBad(current) /\ good' = current /\ bad' = bad
        \/ IsBad(current) /\ good' = good /\ bad' = current
    BY <1>5 DEF AnswerGood, AnswerBad
  <2>3. BoundsInv'
    BY <2>1, <2>2 DEF SearchInv, BoundsInv, IsBad
  <2>4. \A t \in tested' : t <= good' \/ t >= bad'
    <3>1. \A t \in tested : t \in Int /\ (t <= good \/ t >= bad)
      BY DEF SearchInv, TestedInv, TypeOK, History
    <3> QED
      BY <2>1, <2>2, <3>1 DEF History
  <2>5. current \notin Candidates(good', bad', tested')
    BY <2>1 DEF Candidates
  <2>6. /\ current # None /\ good' # None /\ bad' \in History
        /\ good' <= current /\ current <= bad'
    BY <2>1, <2>2 DEF History, None
  <2>7. MaybeStep(good', bad', tested')
    BY <1>5 DEF AnswerGood, AnswerBad
  <2> QED
    BY <1>1, <2>1, <2>3, <2>4, <2>5, <2>6, <2>7, StepKeeps
<1>6. ASSUME UNCHANGED vars PROVE SearchInv'
  BY <1>1, <1>6 DEF vars, session, SearchInv, BoundsInv, TestedInv, CurrentInv, MiddleInv,
                    FoundFirstBad, IsBad
<1> QED
  BY <1>2, <1>3, <1>4, <1>5, <1>6 DEF Next, Start, Reset

(* bisect is right: with truthful answers to what it asks, whatever is     *)
(* killed or answered twice, the snapshot it reports is the first bad one. *)
THEOREM BisectIsRight ==
  ASSUME Restate = FALSE
  PROVE  Spec => []FoundFirstBad
<1>1. SearchInv /\ [Next]_vars => SearchInv'
  BY SearchNext
<1>2. SearchInv => FoundFirstBad
  BY DEF SearchInv
<1> QED
  BY SearchInit, <1>1, <1>2, PTL DEF Spec

---------------------------------------------------------------------------
(* An answer to what was asked leaves at most half of the candidates.      *)
LEMMA AnswerHalves ==
  ASSUME SearchInv, Restate = FALSE, [Next]_vars,
         current \in Candidates(good, bad, tested), tested' # tested
  PROVE  2 * Cardinality(Candidates(good', bad', tested'))
           <= Cardinality(Candidates(good, bad, tested))
<1> DEFINE C == Candidates(good, bad, tested)
           D == Candidates(good', bad', tested')
<1>1. /\ current \in History /\ current # None
      /\ good \in History /\ bad \in History /\ good <= current /\ current <= bad
  BY CandidatesInHistory DEF SearchInv, CurrentInv, BoundsInv, History, None
<1>2. /\ good \in Nat /\ bad \in Nat /\ current \in Nat
      /\ \A t \in tested : t \in Nat /\ (t <= good \/ t >= bad)
  BY <1>1 DEF SearchInv, TestedInv, TypeOK, History
<1>3. C = (good + 1)..(bad - 1)
  <2>1. C = ((good + 1)..(bad - 1)) \ tested
    BY <1>1, <1>2, CandidatesBetween
  <2> QED
    BY <1>2, <2>1
<1>4. good < current /\ current < bad
  BY <1>2, <1>3
<1>5. Cardinality(C) = bad - good - 1
  BY <1>2, <1>3, <1>4, FS_Interval
<1>6. current - good - 1 = (bad - good - 1) \div 2
  <2>1. Cardinality({i \in C : i < current}) = Cardinality(C) \div 2
    BY DEF SearchInv, MiddleInv, Middle
  <2>2. {i \in C : i < current} = (good + 1)..(current - 1)
    BY <1>2, <1>3, <1>4
  <2>3. Cardinality((good + 1)..(current - 1)) = current - good - 1
    BY <1>2, <1>4, FS_Interval
  <2> QED
    BY <1>5, <2>1, <2>2, <2>3
<1>7. CASE AnswerGood
  <2>1. good' = current /\ bad' = bad /\ tested' = tested \cup {current}
    BY <1>7 DEF AnswerGood
  <2>2. D = ((current + 1)..(bad - 1)) \ (tested \cup {current})
    BY <1>1, <1>2, <2>1, CandidatesBetween
  <2>3. D = (current + 1)..(bad - 1)
    BY <1>2, <1>4, <2>2
  <2>4. Cardinality(D) = bad - current - 1
    BY <1>2, <1>4, <2>3, FS_Interval
  <2> QED
    BY <1>2, <1>4, <1>5, <1>6, <2>4
<1>8. CASE AnswerBad
  <2>1. good' = good /\ bad' = current /\ tested' = tested \cup {current}
    BY <1>8 DEF AnswerBad
  <2>2. D = ((good + 1)..(current - 1)) \ (tested \cup {current})
    BY <1>1, <1>2, <2>1, CandidatesBetween
  <2>3. D = (good + 1)..(current - 1)
    BY <1>2, <1>4, <2>2
  <2>4. Cardinality(D) = current - good - 1
    BY <1>2, <1>4, <2>3, FS_Interval
  <2> QED
    BY <1>2, <1>4, <1>5, <1>6, <2>4
<1>9. CASE Start \/ Reset
  <2>1. D = {}
    BY <1>9 DEF Start, Reset, Fresh, Candidates, None, History
  <2>2. Cardinality(D) = 0
    BY <2>1, FS_EmptySet
  <2> QED
    BY <1>2, <1>4, <1>5, <2>2
<1>10. tested' = tested \/ AnswerGood \/ AnswerBad \/ Start \/ Reset
  BY DEF Next, NameGood, NameBad, vars, session
<1> QED
  BY <1>7, <1>8, <1>9, <1>10

(* The search is logarithmic in the length of the history.                 *)
THEOREM BisectHalves ==
  ASSUME Restate = FALSE
  PROVE  Spec => Halves
<1>1. SearchInv /\ [Next]_vars => SearchInv'
  BY SearchNext
<1>2. SearchInv /\ [Next]_vars =>
        (current \in Candidates(good, bad, tested) /\ tested' # tested =>
           2 * Cardinality(Candidates(good', bad', tested'))
             <= Cardinality(Candidates(good, bad, tested)))
  BY AnswerHalves
<1> QED
  BY SearchInit, <1>1, <1>2, PTL DEF Spec, Halves
=============================================================================
