-------------------------------- MODULE Pep440 --------------------------------
(***************************************************************************)
(* Versions and version specifiers (internal/pep440), as values: what      *)
(* Parse makes of a text, how Compare orders two of them and which of them *)
(* a specifier contains; and next to it the order PEP 440 defines.         *)
(***************************************************************************)
EXTENDS Integers, Sequences

AtMostOne(S) == {s \in Seq(S) : Len(s) <= 1}

(* Parse's Version: an optional part is a sequence of at most one element; *)
(* a pre-release is a kind (0, 1, 2 for a, b, rc) and a number; a local    *)
(* segment is <<0, n>> for a number and <<1, k>> for the k-th other text.  *)
VersionOf(release, pre, post, dev, local) ==
  [epoch |-> 0, release |-> release, pre |-> pre, post |-> post,
   dev |-> dev, local |-> local]

Version ==
  [epoch : Nat, release : Seq(Nat) \ {<<>>}, pre : AtMostOne((0..2) \X Nat),
   post : AtMostOne(Nat), dev : AtMostOne(Nat), local : Seq((0..1) \X Nat)]

(* A text, as the groups of versionRegex: epoch is a sequence of at most   *)
(* one number, pre, post and dev one of at most one [label, digits], and   *)
(* digits one of at most one number; a text without a release is not a     *)
(* version.                                                                *)
TextOf(release, pre, post, dev) ==
  [epoch |-> <<>>, release |-> release, pre |-> pre, post |-> post,
   dev |-> dev, local |-> <<>>]

(* A label without a number has the number 0.                              *)
OrZero(digits) == IF digits = <<>> THEN 0 ELSE digits[1]

Kinds == [alpha |-> 0, a |-> 0, beta |-> 1, b |-> 1,
          preview |-> 2, rc |-> 2, c |-> 2]

Suffix(labels) == AtMostOne([label : labels, digits : AtMostOne(Nat)])

VersionText ==
  [epoch : AtMostOne(Nat), release : Seq(Nat), pre : Suffix(DOMAIN Kinds),
   post : Suffix({"post", "rev", "r", "-"}), dev : Suffix({"dev"}),
   local : Seq((0..1) \X Nat)]

ParsePre(pre) == <<Kinds[pre.label], OrZero(pre.digits)>>

(* "post", "rev", "r", or "-" in front of a number alone.                  *)
ParsePost(post) == OrZero(post.digits)

ParseDev(dev) == OrZero(dev.digits)

(* Parse: the version in a sequence, which is empty for an error.          *)
Parse440(t) ==
  IF t.release = <<>> THEN <<>>
  ELSE <<[epoch |-> OrZero(t.epoch), release |-> t.release,
          pre |-> [i \in DOMAIN t.pre |-> ParsePre(t.pre[i])],
          post |-> [i \in DOMAIN t.post |-> ParsePost(t.post[i])],
          dev |-> [i \in DOMAIN t.dev |-> ParseDev(t.dev[i])],
          local |-> t.local]>>

(* A copied case (a mutant).                                               *)
BetaTwice(kind) == <<"a", "b", "b">>[kind + 1]

KindLabel(kind) == <<"a", "b", "rc">>[kind + 1]

(* Version.String.                                                         *)
VersionString(v) ==
  LET suffix(label, n) == [label |-> label, digits |-> <<n>>]
  IN  [epoch |-> IF v.epoch = 0 THEN <<>> ELSE <<v.epoch>>, release |-> v.release,
       pre |-> [i \in DOMAIN v.pre |-> suffix(KindLabel(v.pre[i][1]), v.pre[i][2])],
       post |-> [i \in DOMAIN v.post |-> suffix("post", v.post[i])],
       dev |-> [i \in DOMAIN v.dev |-> suffix("dev", v.dev[i])],
       local |-> v.local]

Sign(a, b) == IF a < b THEN -1 ELSE IF a > b THEN 1 ELSE 0

(* The first comparison that tells two things apart.                       *)
Decided(signs) ==
  LET told == {i \in DOMAIN signs : signs[i] # 0}
  IN  IF told = {} THEN 0
      ELSE signs[CHOOSE i \in told : \A j \in told : i <= j]

Both(a, b, sign) == IF a # <<>> /\ b # <<>> THEN sign ELSE 0

Longest(a, b) == IF Len(a) < Len(b) THEN Len(b) ELSE Len(a)

Padded(s, i, zero) == IF i <= Len(s) THEN s[i] ELSE zero

CompareRelease(a, b) ==
  Decided([i \in 1..Longest(a, b) |-> Sign(Padded(a, i, 0), Padded(b, i, 0))])

(* A text after a number, a missing segment like an empty text.            *)
CompareLocal(a, b) ==
  IF a = <<>> \/ b = <<>> THEN Sign(Len(a), Len(b))
  ELSE Decided([i \in 1..(2 * Longest(a, b)) |->
         LET k == (i + 1) \div 2
             part == IF i % 2 = 1 THEN 1 ELSE 2
         IN  Sign(Padded(a, k, <<1, 0>>)[part], Padded(b, k, <<1, 0>>)[part])])

(* versionPhase: the first case that applies.                              *)
Phase(v) ==
  CASE v.pre = <<>> /\ v.post = <<>> /\ v.dev # <<>> -> 0
    [] v.pre # <<>> /\ v.dev # <<>> -> 1
    [] v.pre # <<>> /\ v.dev = <<>> -> 2
    [] v.pre = <<>> /\ v.post = <<>> /\ v.dev = <<>> -> 3
    [] v.pre = <<>> /\ v.post # <<>> /\ v.dev # <<>> -> 4
    [] OTHER -> 5

(* Compare: a post-release of a pre-release is told from another one only, *)
(* and the development release of any pre-release comes before all of them.*)
Compare(v, w) ==
  Decided(<<Sign(v.epoch, w.epoch),
            CompareRelease(v.release, w.release),
            Sign(Phase(v), Phase(w)),
            Both(v.pre, w.pre, Sign(v.pre[1][1], w.pre[1][1])),
            Both(v.pre, w.pre, Sign(v.pre[1][2], w.pre[1][2])),
            Both(v.post, w.post, Sign(v.post[1], w.post[1])),
            Both(v.dev, w.dev, Sign(v.dev[1], w.dev[1])),
            CompareLocal(v.local, w.local)>>)

---------------------------------------------------------------------------
(* Specifiers: an operator, a version and whether it ends in ".*"          *)

Operator == {"==", "!=", "<", "<=", ">", ">=", "~=", "==="}

SpecifierText == [op : Operator, text : VersionText, wild : BOOLEAN]

Specifier == [op : Operator, ver : Version, wild : BOOLEAN]

(* ParseSpecifier of an operator and a text, in a sequence; "===" takes    *)
(* any text, and one that is no version for the version 0.                 *)
ParseSpecifier(s) ==
  LET read == Parse440(s.text)
      specifier(ver) == <<[op |-> s.op, ver |-> ver, wild |-> s.wild]>>
  IN  IF read # <<>> THEN specifier(read[1])
      ELSE IF s.op = "===" THEN specifier(VersionOf(<<0>>, <<>>, <<>>, <<>>, <<>>))
      ELSE <<>>

(* ParseSpecifiers: all of them, or an error.                              *)
ParseSpecifiers(S) ==
  IF \E s \in S : ParseSpecifier(s) = <<>> THEN <<>>
  ELSE <<{ParseSpecifier(s)[1] : s \in S}>>

Public(v) == [v EXCEPT !.local = <<>>]

(* The segments of the prefix, without padding.                            *)
HasPrefix(v, epoch, prefix) ==
  /\ v.epoch = epoch
  /\ Len(v.release) >= Len(prefix)
  /\ \A i \in DOMAIN prefix : v.release[i] = prefix[i]

MatchEqual(s, v) ==
  IF s.wild THEN HasPrefix(v, s.ver.epoch, s.ver.release)
  ELSE Compare(IF s.ver.local = <<>> THEN Public(v) ELSE v, s.ver) = 0

MatchCompatible(s, v) ==
  /\ Compare(v, s.ver) >= 0
  /\ \/ Len(s.ver.release) < 2
     \/ HasPrefix(v, s.ver.epoch,
                  SubSeq(s.ver.release, 1, Len(s.ver.release) - 1))

(* Specifier.Contains.                                                     *)
Within(s, v) ==
  LET order == Compare(Public(v), Public(s.ver))
  IN  CASE s.op = "==" -> MatchEqual(s, v)
        [] s.op = "!=" -> ~MatchEqual(s, v)
        [] s.op = "<" -> order < 0
        [] s.op = "<=" -> order <= 0
        [] s.op = ">" -> order > 0
        [] s.op = ">=" -> order >= 0
        [] s.op = "~=" -> MatchCompatible(s, v)
        [] s.op = "===" -> v = s.ver

(* VersionSpecifiers.Contains, of a set of specifiers.                     *)
Admits(specs, v) == \A s \in specs : Within(s, v)

---------------------------------------------------------------------------
(* PEP 440's order, as a sort key of its own: minus and plus infinity are  *)
(* -1 and 9, the numbers in between stand for themselves.  Of a version    *)
(* that is not Plain, with a development number, the number must be below 9.*)

PreKey(v) ==
  IF v.pre # <<>> THEN v.pre[1]
  ELSE IF v.post = <<>> /\ v.dev # <<>> THEN <<-1, 0>> ELSE <<9, 0>>
PostKey(v) == IF v.post = <<>> THEN -1 ELSE v.post[1]
DevKey(v) == IF v.dev = <<>> THEN 9 ELSE v.dev[1]

PepOrder(v, w) ==
  Decided(<<Sign(v.epoch, w.epoch),
            CompareRelease(v.release, w.release),
            Sign(PreKey(v)[1], PreKey(w)[1]), Sign(PreKey(v)[2], PreKey(w)[2]),
            Sign(PostKey(v), PostKey(w)),
            Sign(DevKey(v), DevKey(w))>>)

(* At most one suffix and no local part: where Compare is PEP 440's order. *)
Plain(v) == Len(v.pre) + Len(v.post) + Len(v.dev) <= 1 /\ v.local = <<>>
=============================================================================
