-------------------------------- MODULE Pep508 --------------------------------
(***************************************************************************)
(* The marker of a requirement (internal/pep508): how the tokens after the *)
(* ";" are parsed, and whether the marker holds in an environment.         *)
(***************************************************************************)
EXTENDS Pep440

(* A text as the comparisons see it: the version Parse makes of it, if     *)
(* any, and its place in the alphabet; the empty text comes first.         *)
Text == [ver : AtMostOne(Version), rank : Nat]

EmptyText == [ver |-> <<>>, rank |-> 0]

(* evaluateOp.  No text here is a proper part of another one.              *)
EvaluateOp(x, op, y) ==
  LET order == IF x.ver # <<>> /\ y.ver # <<>> THEN Compare(x.ver[1], y.ver[1])
               ELSE Sign(x.rank, y.rank)
  IN  CASE op = "in" -> x = EmptyText \/ x = y
        [] op = "not in" -> ~(x = EmptyText \/ x = y)
        [] op = "==" -> x = y
        [] op = "!=" -> x # y
        [] op = "<" -> order < 0
        [] op = "<=" -> order <= 0
        [] op = ">" -> order > 0
        [] op = ">=" -> order >= 0

(* A variable nobody knows is empty.                                       *)
Lookup(var, env) == IF var \in DOMAIN env THEN env[var] ELSE EmptyText

(* A token: a comparison of a variable with a quoted text, in which either *)
(* may be written first, or a word or parenthesis.                         *)
Comparison(var, op, text) == [kind |-> "comparison", var |-> var, op |-> op,
                              text |-> text, valueFirst |-> FALSE]
ValueFirst(text, op, var) == [Comparison(var, op, text) EXCEPT !.valueFirst = TRUE]
Word(kind) == [kind |-> kind, var |-> "", op |-> "", text |-> EmptyText,
               valueFirst |-> FALSE]

(* The MarkerExpr parseMarkerAtom makes of a comparison, evaluated: when   *)
(* the text was written first the operands change places, and the operator *)
(* stays as it was written.                                                *)
Holds(c, env) == EvaluateOp(Lookup(c.var, env), c.op, c.text)

Broken == [ok |-> FALSE, holds |-> FALSE, next |-> 0]

(* Mutant: "or" binds tighter than "and".                                  *)
Swapped(level) == IF level = 1 THEN "and" ELSE "or"

(* What joins the operands of a level: parseMarkerOr is level 1,           *)
(* parseMarkerAnd level 2, parseMarkerAtom level 3.                        *)
Joins(level) == IF level = 1 THEN "or" ELSE "and"

(* What is read at a token by the parser of a level.  A missing ")" is     *)
(* forgiven, what follows the marker is not looked at.  The tree is        *)
(* evaluated while it is parsed.                                           *)
Parse(tokens, env) ==
  LET kind(i) == IF i \in DOMAIN tokens THEN tokens[i].kind ELSE "end"
      parsed[at \in (1..3) \X Nat] ==
        LET level == at[1]
            i     == at[2]
        IN  IF level = 3
            THEN CASE kind(i) = "(" ->
                        LET inner == parsed[<<1, i + 1>>]
                        IN  IF inner.ok /\ kind(inner.next) = ")"
                            THEN [inner EXCEPT !.next = @ + 1] ELSE inner
                   [] kind(i) = "comparison" ->
                        [ok |-> TRUE, next |-> i + 1, holds |-> Holds(tokens[i], env)]
                   [] OTHER -> Broken
            ELSE LET left == parsed[<<level + 1, i>>]
                 IN  IF ~left.ok \/ kind(left.next) # Joins(level) THEN left
                     ELSE LET right == parsed[<<level, left.next + 1>>]
                          IN  [ok |-> right.ok, next |-> right.next,
                               holds |-> IF Joins(level) = "or"
                                         THEN left.holds \/ right.holds
                                         ELSE left.holds /\ right.holds]
  IN  parsed[<<1, 1>>]

(* A marker m of three comparisons m.parts, the words m.words between them *)
(* and m.group, what stands in parentheses: nothing, the first two, the    *)
(* last two.                                                               *)
Marker ==
  [parts : [1..3 -> [kind : {"comparison"}, var : STRING, text : Text,
                     valueFirst : BOOLEAN,
                     op : {"in", "not in", "==", "!=", "<", "<=", ">", ">="}]],
   words : [1..2 -> {"and", "or"}], group : {"none", "first", "last"}]

(* ParseRequirement of a line [name, extras, url, specs, marker], in a     *)
(* sequence: a requirement with a URL has no specifiers, and nobody asks   *)
(* for the URL or the extras later.                                        *)
ParseRequirement(line) ==
  LET specs == IF line.url THEN <<{}>> ELSE ParseSpecifiers(line.specs)
  IN  IF specs = <<>> THEN <<>>
      ELSE <<[name |-> line.name, specs |-> specs[1], marker |-> line.marker]>>

---------------------------------------------------------------------------
(* How a marker is written, and what it means.                             *)

Written(m) ==
  LET word(i) == <<Word(m.words[i])>>
      p(i) == <<m.parts[i]>>
      open == <<Word("(")>>
      close == <<Word(")")>>
  IN  CASE m.group = "none" -> p(1) \o word(1) \o p(2) \o word(2) \o p(3)
        [] m.group = "first" ->
             open \o p(1) \o word(1) \o p(2) \o close \o word(2) \o p(3)
        [] m.group = "last" ->
             p(1) \o word(1) \o open \o p(2) \o word(2) \o p(3) \o close

(* What a comparison says: left of the operator is what was written left.  *)
Says(c, env) ==
  IF c.valueFirst THEN EvaluateOp(c.text, c.op, Lookup(c.var, env))
  ELSE EvaluateOp(Lookup(c.var, env), c.op, c.text)

(* Where the text comes first, the operator does not mind the order.       *)
Straight(m) ==
  \A i \in 1..3 : m.parts[i].valueFirst => m.parts[i].op \in {"==", "!="}

Meaning(m, env) ==
  LET p(i) == Says(m.parts[i], env)
      join(word, a, b) == IF word = "and" THEN (a /\ b) ELSE (a \/ b)
      lastFirst == \/ m.group = "last"
                   \/ m.group = "none" /\ m.words[1] = "or" /\ m.words[2] = "and"
  IN  IF lastFirst
      THEN join(m.words[1], p(1), join(m.words[2], p(2), p(3)))
      ELSE join(m.words[2], join(m.words[1], p(1), p(2)), p(3))
=============================================================================
