--------------------------------- MODULE Bisect ---------------------------------
(***************************************************************************)
(* fpm bisect (internal/cli/bisect.go): binary search through the          *)
(* snapshots of an environment.  The session lives in .fpm-bisect.json     *)
(* between commands: one command marks a snapshot, saves, and asks for the *)
(* next one to test, saving again.  Snapshots are numbered oldest first,   *)
(* as bisect start lists them; the person who tests them tells the truth.  *)
(***************************************************************************)
EXTENDS Integers, FiniteSets

CONSTANTS
  N,        \* snapshots in the history when the session starts
  Restate   \* the person may name a snapshot for a boundary that is set

ASSUME BisectAssumption == N \in Nat /\ N >= 2 /\ Restate \in BOOLEAN

VARIABLES
  firstBad,  \* the truth: the first broken snapshot
  active, good, bad, current, tested,   \* the session file
  found      \* the snapshot last reported as the first bad one

session == <<active, good, bad, current, tested>>
vars == <<firstBad, session, found>>

None == 0                  \* the empty string of the session file
History == 1..N            \* what the session file lists
Stranger == N + 1          \* a snapshot taken since
Ids == History \cup {Stranger}

IsBad(x) == x >= firstBad

TypeOK ==
  /\ firstBad \in Ids
  /\ active \in BOOLEAN
  /\ good \in Ids \cup {None} /\ bad \in Ids \cup {None}
  /\ current \in History \cup {None}
  /\ tested \in SUBSET History
  /\ found \in History \cup {None}

Init ==
  /\ firstBad \in Ids
  /\ active = FALSE
  /\ good = None /\ bad = None /\ current = None /\ tested = {}
  /\ found = None

(* bisect start writes a new session file, bisect reset removes it.        *)
Fresh(a) ==
  /\ active' = a
  /\ good' = None /\ bad' = None /\ current' = None /\ tested' = {}
  /\ found' = None
  /\ UNCHANGED firstBad

Start == Fresh(TRUE)

Reset == Fresh(FALSE)

---------------------------------------------------------------------------
(* One below the upper boundary is never tested (a mutant).                *)
CandidatesShort(g, b, t) ==
  LET lo == IF g > b THEN b ELSE g
      hi == IF g > b THEN g ELSE b
  IN  {i \in History : lo < i /\ i < hi - 1} \ (t \cup {g, b})

(* The untested snapshots strictly between the boundaries, whichever way   *)
(* round these are.                                                        *)
Candidates(g, b, t) ==
  LET lo == IF g > b THEN b ELSE g
      hi == IF g > b THEN g ELSE b
  IN  {i \in History : lo < i /\ i < hi} \ (t \cup {g, b})

(* A search that goes through the candidates one by one (a mutant).        *)
First(C, m) == \A i \in C : i >= m

(* candidates[len(candidates)/2]                                           *)
Middle(C, m) == Cardinality({i \in C : i < m}) = Cardinality(C) \div 2

(* bisectStep on the boundaries just saved: nothing with one of them       *)
(* missing, an error with one of them outside the history, else the answer *)
(* or the next snapshot to test.                                           *)
Step(g, b, t) ==
  LET C == Candidates(g, b, t)
  IN  IF ~({g, b} \subseteq History) THEN UNCHANGED <<current, found>>
      ELSE IF C = {} THEN found' = b /\ UNCHANGED current
      ELSE /\ \E m \in C : Middle(C, m) /\ current' = m
           /\ UNCHANGED found

(* The command may be killed between its two saves.                        *)
MaybeStep(g, b, t) == Step(g, b, t) \/ UNCHANGED <<current, found>>

(* A boundary is named when it is not known, or again if Restate.          *)
Nameable(boundary) == boundary \notin History \/ Restate

NameGood(x) ==
  /\ active
  /\ ~IsBad(x)
  /\ Nameable(good)
  /\ good' = x
  /\ MaybeStep(x, bad, tested)
  /\ UNCHANGED <<firstBad, active, bad, tested>>

NameBad(x) ==
  /\ active
  /\ IsBad(x)
  /\ Nameable(bad)
  /\ bad' = x
  /\ MaybeStep(good, x, tested)
  /\ UNCHANGED <<firstBad, active, good, tested>>

(* A mutant without the error for a session that has asked for nothing.    *)
AskedAnything == active

(* Without an argument the commands speak of the snapshot asked for.       *)
Asked == active /\ current # None

AnswerGood ==
  /\ Asked
  /\ ~IsBad(current)
  /\ good' = current
  /\ tested' = tested \cup {current}
  /\ MaybeStep(current, bad, tested')
  /\ UNCHANGED <<firstBad, active, bad>>

AnswerBad ==
  /\ Asked
  /\ IsBad(current)
  /\ bad' = current
  /\ tested' = tested \cup {current}
  /\ MaybeStep(good, current, tested')
  /\ UNCHANGED <<firstBad, active, good>>

Next ==
  \/ Start \/ Reset
  \/ \E x \in Ids : NameGood(x) \/ NameBad(x)
  \/ AnswerGood \/ AnswerBad

Spec == Init /\ [][Next]_vars

---------------------------------------------------------------------------
(* Whoever answers truthfully what bisect asks is told the first bad       *)
(* snapshot (bisect.go:217, "First bad snapshot"), killed commands and     *)
(* repeated answers included.                                              *)
FoundFirstBad == found # None => found = firstBad

(* Every answer at least halves what is left to test ("Binary search       *)
(* through snapshots"): the search is logarithmic.                         *)
Halves ==
  [][LET before == Candidates(good, bad, tested)
         after == Candidates(good', bad', tested')
     IN  current \in before /\ tested' # tested =>
           2 * Cardinality(after) <= Cardinality(before)]_vars
=============================================================================
