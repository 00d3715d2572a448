----------------------------- MODULE ResolverProofs -----------------------------
(***************************************************************************)
(* Theorems about Resolver for every set of names, pages, projects, pins   *)
(* and tags.                                                               *)
(***************************************************************************)
EXTENDS Resolver, FiniteSetTheorems, TLAPS

---------------------------------------------------------------------------
(* Sequences cut down to some of their places                              *)

(* The places of a sequence are finitely many.                             *)
LEMMA PlacesFinite ==
  ASSUME NEW n \in Nat, NEW P \in SUBSET (1..n)
  PROVE  IsFiniteSet(P) /\ Cardinality(P) \in Nat
<1>1. IsFiniteSet(1..n)
  BY FS_Interval
<1>2. IsFiniteSet(P)
  BY <1>1, FS_Subset
<1> QED
  BY <1>2, FS_CardinalityType

(* Fewer places come before one of the places than there are, and fewer    *)
(* before an earlier one than before a later one.                          *)
LEMMA PlacesBefore ==
  ASSUME NEW n \in Nat, NEW P \in SUBSET (1..n), NEW i \in P
  PROVE  /\ Cardinality({j \in P : j < i}) \in Nat
         /\ Cardinality({j \in P : j < i}) < Cardinality(P)
         /\ \A k \in P : i < k => Cardinality({j \in P : j < i})
                                    < Cardinality({j \in P : j < k})
<1> DEFINE B(k) == {j \in P : j < k}
<1>1. IsFiniteSet(P)
  BY PlacesFinite
<1>2. \A S \in SUBSET P : IsFiniteSet(S) /\ Cardinality(S) \in Nat
  BY <1>1, FS_Subset, FS_CardinalityType
<1>3. ASSUME NEW S \in SUBSET P, NEW R \in SUBSET S, R # S
      PROVE  Cardinality(R) < Cardinality(S)
  <2>1. IsFiniteSet(S) /\ Cardinality(S) \in Nat /\ Cardinality(R) \in Nat
    BY <1>2
  <2>2. Cardinality(R) <= Cardinality(S) /\ Cardinality(S) # Cardinality(R)
    BY <1>3, <2>1, FS_Subset
  <2> QED
    BY <2>1, <2>2
<1>4. Cardinality(B(i)) \in Nat /\ Cardinality(B(i)) < Cardinality(P)
  <2>1. B(i) \in SUBSET P /\ B(i) # P
    OBVIOUS
  <2> QED
    BY <1>2, <1>3, <2>1
<1>5. ASSUME NEW k \in P, i < k PROVE Cardinality(B(i)) < Cardinality(B(k))
  <2>1. i \in B(k) /\ i \notin B(i) /\ B(k) \in SUBSET P
    BY <1>5
  <2>2. \A j \in P : j < i => j < k
    <3>1. \A j \in P : j \in Int
      OBVIOUS
    <3> QED
      BY <1>5, <3>1
  <2>3. B(i) \in SUBSET B(k)
    BY <2>2
  <2> QED
    BY <1>3, <2>1, <2>3
<1> QED
  BY <1>4, <1>5

(* Each of the counts is met by a place.                                   *)
LEMMA PlaceOfRank ==
  ASSUME NEW n \in Nat, NEW P \in SUBSET (1..n), NEW k \in 1..Cardinality(P)
  PROVE  \E i \in P : Cardinality({j \in P : j < i}) = k - 1
<1> DEFINE c == Cardinality(P)
           count(i) == Cardinality({j \in P : j < i})
           r == [i \in P |-> count(i) + 1]
<1>1. IsFiniteSet(P) /\ c \in Nat
  BY PlacesFinite
<1>2. \A i \in P : count(i) \in Nat /\ count(i) < c
  BY PlacesBefore
<1>3. \A i, j \in P : i < j => count(i) < count(j)
  BY PlacesBefore
<1>4. \A i, j \in P : i # j => i < j \/ j < i
  <2>1. \A i \in P : i \in Int
    OBVIOUS
  <2> QED
    BY <2>1
<1>5. c = Cardinality(P)
  OBVIOUS
<1> HIDE DEF count, c
<1>6. \A i \in P : r[i] \in 1..c
  BY <1>1, <1>2
<1>7. \A i, j \in P : r[i] = r[j] => i = j
  BY <1>2, <1>3, <1>4
<1>8. r \in Injection(P, 1..c)
  BY <1>6, <1>7 DEF Injection, IsInjective
<1>9. IsFiniteSet(1..c) /\ Cardinality(1..c) = c
  BY <1>1, FS_Interval
<1>10. r \in Surjection(P, 1..c)
  BY <1>5, <1>8, <1>9, FS_Injection
<1>11. PICK i \in P : r[i] = k
  BY <1>5, <1>10 DEF Surjection
<1>12. count(i) = k - 1
  BY <1>1, <1>2, <1>5, <1>11
<1> QED
  BY <1>12 DEF count

(* What is cut down is a sequence of elements at these places.             *)
LEMMA ElementsAtPlaces ==
  ASSUME NEW S, NEW s \in Seq(S), NEW P \in SUBSET DOMAIN s
  PROVE  /\ ElementsAt(s, P) \in Seq(S)
         /\ \A k \in DOMAIN ElementsAt(s, P) : \E i \in P : ElementsAt(s, P)[k] = s[i]
<1> DEFINE At(k) == CHOOSE i \in P : Cardinality({j \in P : j < i}) = k - 1
<1>1. Len(s) \in Nat /\ P \in SUBSET (1..Len(s))
  OBVIOUS
<1>2. \A k \in 1..Cardinality(P) : At(k) \in P
  BY <1>1, PlaceOfRank
<1>3. Cardinality(P) \in Nat
  BY <1>1, PlacesFinite
<1>4. ElementsAt(s, P) = [k \in 1..Cardinality(P) |-> s[At(k)]]
  BY DEF ElementsAt
<1> HIDE DEF At
<1>5. \A i \in P : s[i] \in S
  OBVIOUS
<1>6. ElementsAt(s, P) \in Seq(S)
  BY <1>2, <1>3, <1>4, <1>5
<1> QED
  BY <1>2, <1>4, <1>6

---------------------------------------------------------------------------
(* What is read                                                            *)

LEMMA OrZeroType ==
  ASSUME NEW d \in AtMostOne(Nat)
  PROVE  OrZero(d) \in Nat
BY DEF OrZero, AtMostOne

(* What is made of a part that is there at most once is there at most once.*)
LEMMA AtMostOneMap ==
  ASSUME NEW S, NEW T, NEW s \in AtMostOne(S), NEW g \in [DOMAIN s -> T]
  PROVE  g \in AtMostOne(T)
<1>1. s \in Seq(S) /\ Len(s) \in Nat /\ Len(s) <= 1
  BY DEF AtMostOne
<1>2. DOMAIN s = 1..Len(s)
  BY <1>1
<1>3. g \in Seq(T) /\ Len(g) = Len(s)
  BY <1>1, <1>2
<1> QED
  BY <1>1, <1>3 DEF AtMostOne

(* Parse gives a version or nothing.                                       *)
LEMMA Parse440Type ==
  ASSUME NEW t \in VersionText
  PROVE  Parse440(t) = <<>> \/ \E v \in Version : Parse440(t) = <<v>>
<1> DEFINE pre == [i \in DOMAIN t.pre |-> ParsePre(t.pre[i])]
           post == [i \in DOMAIN t.post |-> ParsePost(t.post[i])]
           dev == [i \in DOMAIN t.dev |-> ParseDev(t.dev[i])]
<1>1. /\ OrZero(t.epoch) \in Nat
      /\ t.release \in Seq(Nat) /\ t.local \in Seq((0..1) \X Nat)
  BY OrZeroType DEF VersionText
<1>2. pre \in AtMostOne((0..2) \X Nat)
  <2> DEFINE S == [label : DOMAIN Kinds, digits : AtMostOne(Nat)]
  <2>1. t.pre \in AtMostOne(S)
    BY DEF VersionText, Suffix
  <2>2. \A l \in DOMAIN Kinds : Kinds[l] \in 0..2
    BY DEF Kinds
  <2>3. ASSUME NEW x \in S PROVE ParsePre(x) \in (0..2) \X Nat
    <3>1. x.label \in DOMAIN Kinds /\ x.digits \in AtMostOne(Nat)
      OBVIOUS
    <3> QED
      BY <2>2, <3>1, OrZeroType DEF ParsePre
  <2> HIDE DEF S
  <2>4. \A i \in DOMAIN t.pre : t.pre[i] \in S
    BY <2>1 DEF AtMostOne
  <2>5. pre \in [DOMAIN t.pre -> (0..2) \X Nat]
    BY <2>3, <2>4
  <2> QED
    BY <2>1, <2>5, AtMostOneMap
<1>3. post \in AtMostOne(Nat)
  <2> DEFINE S == [label : {"post", "rev", "r", "-"}, digits : AtMostOne(Nat)]
  <2>1. t.post \in AtMostOne(S)
    BY DEF VersionText, Suffix
  <2>2. ASSUME NEW x \in S PROVE ParsePost(x) \in Nat
    BY OrZeroType DEF ParsePost
  <2> HIDE DEF S
  <2>4. \A i \in DOMAIN t.post : t.post[i] \in S
    BY <2>1 DEF AtMostOne
  <2>5. post \in [DOMAIN t.post -> Nat]
    BY <2>2, <2>4
  <2> QED
    BY <2>1, <2>5, AtMostOneMap
<1>4. dev \in AtMostOne(Nat)
  <2> DEFINE S == [label : {"dev"}, digits : AtMostOne(Nat)]
  <2>1. t.dev \in AtMostOne(S)
    BY DEF VersionText, Suffix
  <2>2. ASSUME NEW x \in S PROVE ParseDev(x) \in Nat
    BY OrZeroType DEF ParseDev
  <2> HIDE DEF S
  <2>4. \A i \in DOMAIN t.dev : t.dev[i] \in S
    BY <2>1 DEF AtMostOne
  <2>5. dev \in [DOMAIN t.dev -> Nat]
    BY <2>2, <2>4
  <2> QED
    BY <2>1, <2>5, AtMostOneMap
<1> DEFINE v == [epoch |-> OrZero(t.epoch), release |-> t.release, pre |-> pre,
                 post |-> post, dev |-> dev, local |-> t.local]
<1>5. Parse440(t) = IF t.release = <<>> THEN <<>> ELSE <<v>>
  BY DEF Parse440
<1> HIDE DEF pre, post, dev
<1>6. t.release # <<>> => v \in Version
  BY <1>1, <1>2, <1>3, <1>4 DEF Version
<1> QED
  BY <1>5, <1>6

(* A specifier that can be read has a version.                             *)
LEMMA ParseSpecifierType ==
  ASSUME NEW s \in SpecifierText, ParseSpecifier(s) # <<>>
  PROVE  ParseSpecifier(s)[1] \in Specifier
<1>1. VersionOf(<<0>>, <<>>, <<>>, <<>>, <<>>) \in Version
  BY DEF VersionOf, Version, AtMostOne
<1>2. s.op \in Operator /\ s.wild \in BOOLEAN /\ s.text \in VersionText
  BY DEF SpecifierText
<1>3. \A v \in Version : [op |-> s.op, ver |-> v, wild |-> s.wild] \in Specifier
  BY <1>2 DEF Specifier
<1>4. CASE Parse440(s.text) # <<>>
  <2>1. PICK v \in Version : Parse440(s.text) = <<v>>
    BY <1>2, <1>4, Parse440Type
  <2> QED
    BY <1>3, <1>4, <2>1 DEF ParseSpecifier
<1>5. CASE Parse440(s.text) = <<>>
  BY <1>1, <1>3, <1>5 DEF ParseSpecifier
<1> QED
  BY <1>4, <1>5

(* A line that can be read gives a requirement on its name.                *)
LEMMA ParseRequirementType ==
  ASSUME NEW l \in Line, ParseRequirement(l) # <<>>
  PROVE  ParseRequirement(l)[1] \in Requirement
<1>1. /\ l.name \in Name /\ l.marker \in AtMostOne(Marker)
      /\ l.url \in BOOLEAN /\ l.specs \in SUBSET SpecifierText
  BY DEF Line
<1>2. CASE l.url
  BY <1>1, <1>2 DEF ParseRequirement, Requirement
<1>3. CASE ~l.url
  <2>1. ParseSpecifiers(l.specs) # <<>>
    BY <1>3 DEF ParseRequirement
  <2>2. \A s \in l.specs : ParseSpecifier(s) # <<>>
    BY <2>1 DEF ParseSpecifiers
  <2>3. \A s \in l.specs : ParseSpecifier(s)[1] \in Specifier
    BY <1>1, <2>2, ParseSpecifierType
  <2>4. ParseSpecifiers(l.specs)[1] \in SUBSET Specifier
    BY <2>2, <2>3 DEF ParseSpecifiers
  <2> QED
    BY <1>1, <1>3, <2>1, <2>4 DEF ParseRequirement, Requirement
<1> QED
  BY <1>1, <1>2, <1>3

(* What is kept of the lines of a METADATA is requirements.                *)
LEMMA KeptType ==
  ASSUME NEW lines \in Seq(Line)
  PROVE  Kept(lines) \in Seq(Requirement)
<1> DEFINE holds(m) == LET read == Parse(Written(m), ResolverEnvironment)
                       IN  read.ok /\ read.holds
           places == {i \in DOMAIN lines :
                        /\ ParseRequirement(lines[i]) # <<>>
                        /\ \A m \in ToSet(lines[i].marker) : holds(m)}
           stay == ElementsAt(lines, places)
<1>1. Kept(lines) = [i \in DOMAIN stay |-> ParseRequirement(stay[i])[1]]
  BY DEF Kept
<1>2. places \in SUBSET DOMAIN lines
  OBVIOUS
<1>3. \A i \in places : ParseRequirement(lines[i]) # <<>>
  OBVIOUS
<1> HIDE DEF holds, places
<1>4. /\ stay \in Seq(Line)
      /\ \A k \in DOMAIN stay : \E i \in places : stay[k] = lines[i]
  BY <1>2, ElementsAtPlaces
<1>5. \A k \in DOMAIN stay : stay[k] \in Line /\ ParseRequirement(stay[k]) # <<>>
  BY <1>3, <1>4
<1> HIDE DEF stay
<1>6. \A k \in DOMAIN stay : ParseRequirement(stay[k])[1] \in Requirement
  BY <1>5, ParseRequirementType
<1>7. Len(stay) \in Nat /\ DOMAIN stay = 1..Len(stay)
  BY <1>4
<1> QED
  BY <1>1, <1>6, <1>7

(* The files of a page become wheels, whose dependencies are what is kept  *)
(* of their lines.                                                         *)
LEMMA WheelsOfType ==
  ASSUME NEW files \in Seq(PageFile)
  PROVE  WheelsOf(files, TagSet)
           \in Seq([ver : Version, tags : SUBSET Nat, pure : BOOLEAN,
                    yanked : BOOLEAN, deps : Seq(Line)])
<1> DEFINE places == {i \in DOMAIN files : Parse440(files[i].version) # <<>>}
           readable == ElementsAt(files, places)
           R == [ver : Version, tags : SUBSET Nat, pure : BOOLEAN,
                 yanked : BOOLEAN, deps : Seq(Line)]
<1>1. WheelsOf(files, TagSet)
        = [i \in DOMAIN readable |-> ParseFilename(readable[i], TagSet)]
  BY DEF WheelsOf
<1>2. places \in SUBSET DOMAIN files
  OBVIOUS
<1>3. \A i \in places : Parse440(files[i].version) # <<>>
  OBVIOUS
<1> HIDE DEF places
<1>4. /\ readable \in Seq(PageFile)
      /\ \A k \in DOMAIN readable : \E i \in places : readable[k] = files[i]
  BY <1>2, ElementsAtPlaces
<1>5. \A k \in DOMAIN readable :
        readable[k] \in PageFile /\ Parse440(readable[k].version) # <<>>
  BY <1>3, <1>4
<1>6. ASSUME NEW x \in PageFile, Parse440(x.version) # <<>>
      PROVE  ParseFilename(x, TagSet) \in R
  <2>1. /\ x.version \in VersionText /\ x.yanked \in BOOLEAN
        /\ x.deps \in Seq(Line)
    BY DEF PageFile
  <2>2. Parse440(x.version)[1] \in Version
    BY <1>6, <2>1, Parse440Type
  <2>3. Places(x, TagSet) \in SUBSET Nat
    BY ResolverAssumption DEF ResolverAssumption, Places
  <2>4. IsPureWheel(x) \in BOOLEAN
    BY DEF IsPureWheel
  <2> QED
    BY <2>1, <2>2, <2>3, <2>4 DEF ParseFilename
<1>7. Len(readable) \in Nat /\ DOMAIN readable = 1..Len(readable)
  BY <1>4
<1> HIDE DEF readable, R
<1>8. \A k \in DOMAIN readable : ParseFilename(readable[k], TagSet) \in R
  BY <1>5, <1>6
<1>9. WheelsOf(files, TagSet) \in Seq(R)
  BY <1>1, <1>7, <1>8
<1> QED
  BY <1>9 DEF R

LEMMA FromHtmlType ==
  ASSUME NEW files \in Seq(PageFile)
  PROVE  FromHtml(files) \in Seq(PageFile)
<1>1. \A i \in DOMAIN files : [files[i] EXCEPT !.yanked = FALSE] \in PageFile
  <2>1. \A i \in DOMAIN files : files[i] \in PageFile
    OBVIOUS
  <2> QED
    BY <2>1 DEF PageFile
<1>2. Len(files) \in Nat /\ DOMAIN files = 1..Len(files)
  OBVIOUS
<1> QED
  BY <1>1, <1>2 DEF FromHtml

(* Every page has a sequence of wheels.                                    *)
LEMMA WheelsOnType == WheelsOn \in [DOMAIN Pages -> Seq(Wheel)]
<1> DEFINE R == [ver : Version, tags : SUBSET Nat, pure : BOOLEAN,
                 yanked : BOOLEAN, deps : Seq(Line)]
           filesOf(page) == IF Pages[page].html THEN FromHtml(Pages[page].files)
                            ELSE Pages[page].files
           wheelsOf(page) == WheelsOf(filesOf(page), TagSet)
<1>1. SUFFICES ASSUME NEW page \in DOMAIN Pages
               PROVE  WheelsOn[page] \in Seq(Wheel)
  BY DEF WheelsOn
<1>2. WheelsOn[page]
        = [i \in DOMAIN wheelsOf(page) |->
             [wheelsOf(page)[i] EXCEPT !.deps = Kept(@)]]
  BY DEF WheelsOn
<1>3. Pages[page] \in Page
  BY ResolverAssumption DEF ResolverAssumption
<1>4. filesOf(page) \in Seq(PageFile)
  BY <1>3, FromHtmlType DEF Page
<1> HIDE DEF filesOf
<1>5. wheelsOf(page) \in Seq(R)
  BY <1>4, WheelsOfType
<1> HIDE DEF wheelsOf
<1>6. ASSUME NEW w \in R PROVE [w EXCEPT !.deps = Kept(@)] \in Wheel
  <2>1. Kept(w.deps) \in Seq(Requirement)
    BY KeptType
  <2> QED
    BY <2>1 DEF Wheel
<1> HIDE DEF R
<1>7. \A i \in DOMAIN wheelsOf(page) : wheelsOf(page)[i] \in R
  BY <1>5
<1>8. Len(wheelsOf(page)) \in Nat /\ DOMAIN wheelsOf(page) = 1..Len(wheelsOf(page))
  BY <1>5
<1>9. \A i \in DOMAIN wheelsOf(page) : [wheelsOf(page)[i] EXCEPT !.deps = Kept(@)] \in Wheel
  BY <1>6, <1>7
<1> QED
  BY <1>2, <1>8, <1>9

---------------------------------------------------------------------------
(* Signs                                                                   *)

(* A non-empty set of naturals has a least element.                        *)
LEMMA LeastOfNaturals ==
  ASSUME NEW S, S \subseteq Nat, S # {}
  PROVE  \E x \in S : \A y \in S : x <= y
<1>1. IsWellFoundedOn(OpToRel(<, Nat), Nat)
  BY NatLessThanWellFounded
<1>2. PICK x \in S : \A y \in S : ~ (<<y, x>> \in OpToRel(<, Nat))
  BY <1>1, WFMin
<1>3. OpToRel(<, Nat) = {ss \in Nat \X Nat : ss[1] < ss[2]}
  BY DEF OpToRel
<1>4. \A y \in S : ~ (<<y, x>> \in {ss \in Nat \X Nat : ss[1] < ss[2]})
  BY <1>2, <1>3
<1>5. \A y \in S : y < x => <<y, x>> \in {ss \in Nat \X Nat : ss[1] < ss[2]}
  OBVIOUS
<1>6. \A y \in S : ~ (y < x)
  BY <1>4, <1>5
<1> QED
  BY <1>6

(* The first sign that is not 0 decides.                                   *)
LEMMA DecidedIs ==
  ASSUME NEW n \in Nat, NEW s \in [1..n -> {-1, 0, 1}]
  PROVE  \/ Decided(s) = 0 /\ \A i \in 1..n : s[i] = 0
         \/ \E i \in 1..n : /\ s[i] # 0 /\ Decided(s) = s[i]
                            /\ \A j \in 1..n : j < i => s[j] = 0
<1> DEFINE told == {i \in DOMAIN s : s[i] # 0}
<1>1. DOMAIN s = 1..n /\ told \subseteq Nat
  OBVIOUS
<1>2. CASE told = {}
  BY <1>1, <1>2 DEF Decided
<1>3. CASE told # {}
  <2> DEFINE k == CHOOSE i \in told : \A j \in told : i <= j
  <2>1. \E i \in told : \A j \in told : i <= j
    BY <1>1, <1>3, LeastOfNaturals
  <2>2. k \in told /\ \A j \in told : k <= j
    BY <2>1
  <2>3. Decided(s) = s[k]
    BY <1>3 DEF Decided
  <2> HIDE DEF k
  <2>4. \A j \in 1..n : j < k => s[j] = 0
    <3>1. TAKE j \in 1..n
    <3>2. HAVE j < k
    <3>3. j \in Nat /\ k \in Nat /\ ~ (k <= j)
      BY <1>1, <2>2, <3>2
    <3> QED
      BY <1>1, <2>2, <3>3
  <2> QED
    BY <1>1, <2>2, <2>3, <2>4
<1> QED
  BY <1>2, <1>3

LEMMA SignIs ==
  ASSUME NEW a \in Int, NEW b \in Int
  PROVE  /\ Sign(a, b) \in {-1, 0, 1}
         /\ Sign(a, b) = -1 <=> a < b
         /\ Sign(a, b) = 0 <=> a = b
         /\ Sign(a, b) = 1 <=> a > b
  BY DEF Sign

---------------------------------------------------------------------------
(* Releases                                                                *)

(* A release, with zeros after its end.                                    *)
Digit(a, i) == Padded(a, i, 0)

LEMMA DigitType ==
  ASSUME NEW a \in Seq(Nat), NEW i \in Nat \ {0}
  PROVE  Digit(a, i) \in Nat /\ (i > Len(a) => Digit(a, i) = 0)
  BY DEF Digit, Padded

(* Two releases compare as their first digits that are different.          *)
LEMMA ReleaseDecided ==
  ASSUME NEW a \in Seq(Nat), NEW b \in Seq(Nat)
  PROVE  \/ /\ CompareRelease(a, b) = 0
            /\ \A i \in Nat \ {0} : Digit(a, i) = Digit(b, i)
         \/ \E i \in Nat \ {0} :
              /\ Digit(a, i) # Digit(b, i)
              /\ CompareRelease(a, b) = Sign(Digit(a, i), Digit(b, i))
              /\ \A j \in Nat \ {0} : j < i => Digit(a, j) = Digit(b, j)
<1> DEFINE n == Longest(a, b)
           s == [i \in 1..n |-> Sign(Digit(a, i), Digit(b, i))]
<1>1. n \in Nat /\ Len(a) \in Nat /\ Len(b) \in Nat /\ Len(a) <= n /\ Len(b) <= n
  BY DEF Longest
<1> HIDE DEF n
<1>2. \A i \in 1..n : /\ Digit(a, i) \in Int /\ Digit(b, i) \in Int
                      /\ s[i] = Sign(Digit(a, i), Digit(b, i))
  BY <1>1, DigitType
<1>3. \A i \in 1..n : s[i] \in {-1, 0, 1} /\ (s[i] = 0 <=> Digit(a, i) = Digit(b, i))
  BY <1>2, SignIs
<1>4. s \in [1..n -> {-1, 0, 1}]
  BY <1>3
<1>5. CompareRelease(a, b) = Decided(s)
  BY DEF CompareRelease, Digit, n
<1> HIDE DEF s
<1>6. \/ Decided(s) = 0 /\ \A i \in 1..n : s[i] = 0
      \/ \E i \in 1..n : /\ s[i] # 0 /\ Decided(s) = s[i]
                         /\ \A j \in 1..n : j < i => s[j] = 0
  BY <1>1, <1>4, DecidedIs
<1>7. CASE Decided(s) = 0 /\ \A i \in 1..n : s[i] = 0
  <2>1. \A i \in Nat \ {0} : i \in 1..n \/ (i > Len(a) /\ i > Len(b))
    BY <1>1
  <2>2. \A i \in Nat \ {0} : Digit(a, i) = Digit(b, i)
    BY <1>3, <1>7, <2>1, DigitType
  <2> QED
    BY <1>5, <1>7, <2>2
<1>8. CASE \E i \in 1..n : /\ s[i] # 0 /\ Decided(s) = s[i]
                           /\ \A j \in 1..n : j < i => s[j] = 0
  <2>1. PICK i \in 1..n : /\ s[i] # 0 /\ Decided(s) = s[i]
                          /\ \A j \in 1..n : j < i => s[j] = 0
    BY <1>8
  <2>2. i \in Nat \ {0} /\ \A j \in Nat \ {0} : j < i => j \in 1..n
    BY <1>1
  <2>3. \A j \in Nat \ {0} : j < i => Digit(a, j) = Digit(b, j)
    BY <1>3, <2>1, <2>2
  <2> QED
    BY <1>2, <1>3, <1>5, <2>1, <2>2, <2>3
<1> QED
  BY <1>6, <1>7, <1>8

(* The order of releases.                                                  *)
LEMMA ReleaseOrder ==
  ASSUME NEW a \in Seq(Nat), NEW b \in Seq(Nat), NEW c \in Seq(Nat)
  PROVE  /\ CompareRelease(a, b) \in {-1, 0, 1}
         /\ CompareRelease(b, a) = - CompareRelease(a, b)
         /\ CompareRelease(a, b) <= 0 /\ CompareRelease(b, c) <= 0
              => /\ CompareRelease(a, c) <= 0
                 /\ CompareRelease(a, c) = 0 => /\ CompareRelease(a, b) = 0
                                                /\ CompareRelease(b, c) = 0
<1> DEFINE Pos == Nat \ {0}
           Same(x, y) == \A i \in Pos : Digit(x, i) = Digit(y, i)
           Below(x, y) == \E i \in Pos : /\ Digit(x, i) < Digit(y, i)
                                         /\ \A j \in Pos : j < i => Digit(x, j) = Digit(y, j)
<1>1. \A x \in {a, b, c} : \A i \in Pos : Digit(x, i) \in Nat
  BY DigitType
<1>2. ASSUME NEW x \in {a, b, c}, NEW y \in {a, b, c}
      PROVE  \/ CompareRelease(x, y) = 0 /\ Same(x, y)
             \/ CompareRelease(x, y) = -1 /\ Below(x, y)
             \/ CompareRelease(x, y) = 1 /\ Below(y, x)
  <2>1. x \in Seq(Nat) /\ y \in Seq(Nat)
    OBVIOUS
  <2>2. CASE \E i \in Pos :
              /\ Digit(x, i) # Digit(y, i)
              /\ CompareRelease(x, y) = Sign(Digit(x, i), Digit(y, i))
              /\ \A j \in Pos : j < i => Digit(x, j) = Digit(y, j)
    <3>1. PICK i \in Pos :
              /\ Digit(x, i) # Digit(y, i)
              /\ CompareRelease(x, y) = Sign(Digit(x, i), Digit(y, i))
              /\ \A j \in Pos : j < i => Digit(x, j) = Digit(y, j)
      BY <2>2
    <3>2. Digit(x, i) \in Int /\ Digit(y, i) \in Int
      BY <1>1
    <3>3. CASE Digit(x, i) < Digit(y, i)
      BY <3>1, <3>2, <3>3, SignIs
    <3>4. CASE Digit(x, i) > Digit(y, i)
      BY <3>1, <3>2, <3>4, SignIs
    <3> QED
      BY <3>1, <3>2, <3>3, <3>4
  <2> QED
    BY <2>1, <2>2, ReleaseDecided
<1>3. ASSUME NEW x \in {a, b, c}, NEW y \in {a, b, c}, Below(x, y)
      PROVE  ~Same(x, y) /\ ~Same(y, x) /\ ~Below(y, x)
  <2>1. PICK i \in Pos : /\ Digit(x, i) < Digit(y, i)
                         /\ \A j \in Pos : j < i => Digit(x, j) = Digit(y, j)
    BY <1>3
  <2>2. Digit(x, i) # Digit(y, i)
    BY <1>1, <2>1
  <2>3. ASSUME Below(y, x) PROVE FALSE
    <3>1. PICK k \in Pos : /\ Digit(y, k) < Digit(x, k)
                           /\ \A j \in Pos : j < k => Digit(y, j) = Digit(x, j)
      BY <2>3
    <3>2. Digit(x, k) # Digit(y, k) /\ ~ (Digit(x, k) < Digit(y, k))
      BY <1>1, <3>1
    <3>3. k < i \/ k = i \/ i < k
      OBVIOUS
    <3> QED
      BY <2>1, <2>2, <3>1, <3>2, <3>3
  <2> QED
    BY <2>2, <2>3
<1>4. ASSUME NEW x \in {a, b, c}, NEW y \in {a, b, c}, NEW z \in {a, b, c},
             Same(x, y) \/ Below(x, y), Same(y, z) \/ Below(y, z)
      PROVE  \/ Same(x, y) /\ Same(y, z) /\ Same(x, z)
             \/ Below(x, z)
  <2>1. CASE Same(x, y) /\ Same(y, z)
    BY <2>1
  <2>2. CASE Same(x, y) /\ Below(y, z)
    <3>1. PICK i \in Pos : /\ Digit(y, i) < Digit(z, i)
                           /\ \A j \in Pos : j < i => Digit(y, j) = Digit(z, j)
      BY <2>2
    <3> QED
      BY <2>2, <3>1
  <2>3. CASE Below(x, y) /\ Same(y, z)
    <3>1. PICK i \in Pos : /\ Digit(x, i) < Digit(y, i)
                           /\ \A j \in Pos : j < i => Digit(x, j) = Digit(y, j)
      BY <2>3
    <3> QED
      BY <2>3, <3>1
  <2>4. CASE Below(x, y) /\ Below(y, z)
    <3>1. PICK i \in Pos : /\ Digit(x, i) < Digit(y, i)
                           /\ \A j \in Pos : j < i => Digit(x, j) = Digit(y, j)
      BY <2>4
    <3>2. PICK k \in Pos : /\ Digit(y, k) < Digit(z, k)
                           /\ \A j \in Pos : j < k => Digit(y, j) = Digit(z, j)
      BY <2>4
    <3>3. CASE i < k
      <4>1. Digit(x, i) < Digit(z, i)
        BY <3>1, <3>2, <3>3
      <4>2. \A j \in Pos : j < i => Digit(x, j) = Digit(z, j)
        <5>1. \A j \in Pos : j < i => j < k
          BY <3>3
        <5> QED
          BY <3>1, <3>2, <5>1
      <4> QED
        BY <4>1, <4>2
    <3>4. CASE k < i
      <4>1. Digit(x, k) < Digit(z, k)
        BY <3>1, <3>2, <3>4
      <4>2. \A j \in Pos : j < k => Digit(x, j) = Digit(z, j)
        <5>1. \A j \in Pos : j < k => j < i
          BY <3>4
        <5> QED
          BY <3>1, <3>2, <5>1
      <4> QED
        BY <4>1, <4>2
    <3>5. CASE i = k
      <4>1. Digit(x, i) < Digit(z, i)
        <5>1. Digit(x, i) \in Nat /\ Digit(y, i) \in Nat /\ Digit(z, i) \in Nat
          BY <1>1
        <5> QED
          BY <3>1, <3>2, <3>5, <5>1
      <4> QED
        BY <3>1, <3>2, <3>5, <4>1
    <3> QED
      BY <3>3, <3>4, <3>5
  <2> QED
    BY <1>4, <2>1, <2>2, <2>3, <2>4
<1>5. \A x, y \in {a, b, c} : Same(x, y) => Same(y, x)
  OBVIOUS
<1> HIDE DEF Same, Below
<1>6. /\ CompareRelease(a, b) \in {-1, 0, 1}
      /\ CompareRelease(b, a) = - CompareRelease(a, b)
  BY <1>2, <1>3, <1>5
<1>7. ASSUME CompareRelease(a, b) <= 0, CompareRelease(b, c) <= 0
      PROVE  /\ CompareRelease(a, c) <= 0
             /\ CompareRelease(a, c) = 0 => /\ CompareRelease(a, b) = 0
                                            /\ CompareRelease(b, c) = 0
  <2>1. /\ \/ CompareRelease(a, b) = 0 /\ Same(a, b)
           \/ CompareRelease(a, b) = -1 /\ Below(a, b)
        /\ \/ CompareRelease(b, c) = 0 /\ Same(b, c)
           \/ CompareRelease(b, c) = -1 /\ Below(b, c)
    BY <1>2, <1>7
  <2>2. \/ Same(a, b) /\ Same(b, c) /\ Same(a, c)
        \/ Below(a, c)
    BY <1>4, <2>1
  <2>3. CASE Same(a, b) /\ Same(b, c) /\ Same(a, c)
    BY <1>2, <1>3, <2>1, <2>3
  <2>4. CASE Below(a, c)
    BY <1>2, <1>3, <2>4
  <2> QED
    BY <2>2, <2>3, <2>4
<1> QED
  BY <1>6, <1>7

---------------------------------------------------------------------------
(* Versions with one suffix at most                                        *)

(* The first of signs that is not 0.                                       *)
FirstSign(s, t) == IF s # 0 THEN s ELSE t

LEMMA Decided8 ==
  ASSUME NEW s \in [1..8 -> {-1, 0, 1}]
  PROVE  Decided(s) = FirstSign(s[1], FirstSign(s[2], FirstSign(s[3],
           FirstSign(s[4], FirstSign(s[5], FirstSign(s[6],
           FirstSign(s[7], s[8])))))))
<1>1. \/ Decided(s) = 0 /\ \A i \in 1..8 : s[i] = 0
      \/ \E i \in 1..8 : /\ s[i] # 0 /\ Decided(s) = s[i]
                         /\ \A j \in 1..8 : j < i => s[j] = 0
  BY DecidedIs
<1> QED
  BY <1>1 DEF FirstSign

LEMMA Decided6 ==
  ASSUME NEW s \in [1..6 -> {-1, 0, 1}]
  PROVE  Decided(s) = FirstSign(s[1], FirstSign(s[2], FirstSign(s[3],
           FirstSign(s[4], FirstSign(s[5], s[6])))))
<1>1. \/ Decided(s) = 0 /\ \A i \in 1..6 : s[i] = 0
      \/ \E i \in 1..6 : /\ s[i] # 0 /\ Decided(s) = s[i]
                         /\ \A j \in 1..6 : j < i => s[j] = 0
  BY DecidedIs
<1> QED
  BY <1>1 DEF FirstSign

(* What the suffix of a plain version is, its kind and its number.         *)
Kind(v) == IF v.pre # <<>> THEN v.pre[1][1] ELSE 0
Number(v) == IF v.pre # <<>> THEN v.pre[1][2]
             ELSE IF v.post # <<>> THEN v.post[1]
             ELSE IF v.dev # <<>> THEN v.dev[1] ELSE 0

LEMMA PlainVersion ==
  ASSUME NEW v \in Version, Plain(v)
  PROVE  /\ v.epoch \in Nat /\ v.release \in Seq(Nat) /\ v.local = <<>>
         /\ Kind(v) \in 0..2 /\ Number(v) \in Nat
         /\ \/ /\ Phase(v) = 0 /\ v.pre = <<>> /\ v.post = <<>> /\ v.dev # <<>>
               /\ v.dev[1] = Number(v) /\ Kind(v) = 0
            \/ /\ Phase(v) = 2 /\ v.pre # <<>> /\ v.post = <<>> /\ v.dev = <<>>
               /\ v.pre[1] = <<Kind(v), Number(v)>>
            \/ /\ Phase(v) = 3 /\ v.pre = <<>> /\ v.post = <<>> /\ v.dev = <<>>
               /\ Kind(v) = 0 /\ Number(v) = 0
            \/ /\ Phase(v) = 5 /\ v.pre = <<>> /\ v.post # <<>> /\ v.dev = <<>>
               /\ v.post[1] = Number(v) /\ Kind(v) = 0
<1>1. /\ v.epoch \in Nat /\ v.release \in Seq(Nat)
      /\ v.pre \in Seq((0..2) \X Nat) /\ v.post \in Seq(Nat) /\ v.dev \in Seq(Nat)
      /\ Len(v.pre) + Len(v.post) + Len(v.dev) <= 1 /\ v.local = <<>>
  BY DEF Version, AtMostOne, Plain
<1>2. v.pre # <<>> => \E k \in 0..2, m \in Nat : v.pre[1] = <<k, m>>
  <2>1. HAVE v.pre # <<>>
  <2>2. v.pre[1] \in (0..2) \X Nat
    BY <1>1, <2>1
  <2> QED
    BY <2>2
<1>3. /\ v.post # <<>> => v.post[1] \in Nat
      /\ v.dev # <<>> => v.dev[1] \in Nat
  BY <1>1
<1>4. \/ v.pre = <<>> /\ v.post = <<>> /\ v.dev # <<>>
      \/ v.pre # <<>> /\ v.post = <<>> /\ v.dev = <<>>
      \/ v.pre = <<>> /\ v.post = <<>> /\ v.dev = <<>>
      \/ v.pre = <<>> /\ v.post # <<>> /\ v.dev = <<>>
  <2>1. /\ Len(v.pre) \in Nat /\ Len(v.post) \in Nat /\ Len(v.dev) \in Nat
        /\ v.pre = <<>> <=> Len(v.pre) = 0
        /\ v.post = <<>> <=> Len(v.post) = 0
        /\ v.dev = <<>> <=> Len(v.dev) = 0
    BY <1>1
  <2>2. \A p, q, r \in Nat : p + q + r <= 1 =>
          \/ p = 0 /\ q = 0 /\ r # 0
          \/ p # 0 /\ q = 0 /\ r = 0
          \/ p = 0 /\ q = 0 /\ r = 0
          \/ p = 0 /\ q # 0 /\ r = 0
    OBVIOUS
  <2>3. \/ Len(v.pre) = 0 /\ Len(v.post) = 0 /\ Len(v.dev) # 0
        \/ Len(v.pre) # 0 /\ Len(v.post) = 0 /\ Len(v.dev) = 0
        \/ Len(v.pre) = 0 /\ Len(v.post) = 0 /\ Len(v.dev) = 0
        \/ Len(v.pre) = 0 /\ Len(v.post) # 0 /\ Len(v.dev) = 0
    BY <1>1, <2>1, <2>2
  <2> QED
    BY <2>1, <2>3
<1>5. Kind(v) \in 0..2 /\ Number(v) \in Nat
  BY <1>2, <1>3 DEF Kind, Number
<1>6. CASE v.pre = <<>> /\ v.post = <<>> /\ v.dev # <<>>
  <2>1. Phase(v) = 0
    BY <1>6 DEF Phase
  <2> QED
    BY <1>1, <1>5, <1>6, <2>1 DEF Kind, Number
<1>7. CASE v.pre # <<>> /\ v.post = <<>> /\ v.dev = <<>>
  <2>1. Phase(v) = 2
    BY <1>7 DEF Phase
  <2> QED
    BY <1>1, <1>2, <1>5, <1>7, <2>1 DEF Kind, Number
<1>8. CASE v.pre = <<>> /\ v.post = <<>> /\ v.dev = <<>>
  <2>1. Phase(v) = 3
    BY <1>8 DEF Phase
  <2> QED
    BY <1>1, <1>5, <1>8, <2>1 DEF Kind, Number
<1>9. CASE v.pre = <<>> /\ v.post # <<>> /\ v.dev = <<>>
  <2>1. Phase(v) = 5
    BY <1>9 DEF Phase
  <2> QED
    BY <1>1, <1>5, <1>9, <2>1 DEF Kind, Number
<1> QED
  BY <1>4, <1>6, <1>7, <1>8, <1>9

(* How the suffixes of plain versions compare.                             *)
SuffixOrder(v, w) ==
  FirstSign(Sign(Phase(v), Phase(w)),
           FirstSign(Sign(Kind(v), Kind(w)), Sign(Number(v), Number(w))))

PlainOrder(v, w) ==
  FirstSign(Sign(v.epoch, w.epoch),
           FirstSign(CompareRelease(v.release, w.release), SuffixOrder(v, w)))

(* Compare orders plain versions by their epochs, releases and suffixes.   *)
LEMMA ComparePlain ==
  ASSUME NEW v \in Version, NEW w \in Version, Plain(v), Plain(w)
  PROVE  Compare(v, w) = PlainOrder(v, w)
<1> DEFINE s1 == Sign(v.epoch, w.epoch)
           s2 == CompareRelease(v.release, w.release)
           s3 == Sign(Phase(v), Phase(w))
           s4 == Both(v.pre, w.pre, Sign(v.pre[1][1], w.pre[1][1]))
           s5 == Both(v.pre, w.pre, Sign(v.pre[1][2], w.pre[1][2]))
           s6 == Both(v.post, w.post, Sign(v.post[1], w.post[1]))
           s7 == Both(v.dev, w.dev, Sign(v.dev[1], w.dev[1]))
           s8 == CompareLocal(v.local, w.local)
<1>1. Compare(v, w) = Decided(<<s1, s2, s3, s4, s5, s6, s7, s8>>)
  BY DEF Compare
<1>2. s1 \in {-1, 0, 1} /\ s2 \in {-1, 0, 1} /\ s3 \in {-1, 0, 1}
  <2>1. v.epoch \in Int /\ w.epoch \in Int /\ Phase(v) \in Int /\ Phase(w) \in Int
    BY PlainVersion
  <2>2. s1 \in {-1, 0, 1} /\ s3 \in {-1, 0, 1}
    BY <2>1, SignIs
  <2> QED
    BY <2>2, PlainVersion, ReleaseOrder
<1>3. s8 = 0
  <2>1. v.local = <<>> /\ w.local = <<>>
    BY PlainVersion
  <2> QED
    BY <2>1 DEF CompareLocal, Sign
<1>4. /\ s4 \in {-1, 0, 1} /\ s5 \in {-1, 0, 1} /\ s6 \in {-1, 0, 1} /\ s7 \in {-1, 0, 1}
      /\ s3 = 0 => FirstSign(s4, FirstSign(s5, FirstSign(s6, FirstSign(s7, 0))))
                     = FirstSign(Sign(Kind(v), Kind(w)), Sign(Number(v), Number(w)))
  <2>1. /\ Kind(v) \in Int /\ Number(v) \in Int /\ Phase(v) \in Int
        /\ Kind(w) \in Int /\ Number(w) \in Int /\ Phase(w) \in Int
    BY PlainVersion
  <2> DEFINE k == Sign(Kind(v), Kind(w))
             m == Sign(Number(v), Number(w))
  <2>2. /\ k \in {-1, 0, 1} /\ m \in {-1, 0, 1}
        /\ Kind(v) = Kind(w) => k = 0
        /\ Number(v) = Number(w) => m = 0
        /\ s3 = 0 => Phase(v) = Phase(w)
    BY <2>1, SignIs
  <2>3. CASE v.pre # <<>> /\ w.pre # <<>>
    <3>1. /\ v.pre[1] = <<Kind(v), Number(v)>> /\ w.pre[1] = <<Kind(w), Number(w)>>
          /\ v.post = <<>> /\ v.dev = <<>>
      BY <2>3, PlainVersion
    <3>2. s4 = k /\ s5 = m /\ s6 = 0 /\ s7 = 0
      BY <2>3, <3>1 DEF Both
    <3> QED
      BY <2>2, <3>2 DEF FirstSign
  <2>4. CASE v.post # <<>> /\ w.post # <<>>
    <3>1. /\ v.post[1] = Number(v) /\ w.post[1] = Number(w)
          /\ v.pre = <<>> /\ v.dev = <<>> /\ Kind(v) = 0 /\ Kind(w) = 0
      BY <2>4, PlainVersion
    <3>2. s4 = 0 /\ s5 = 0 /\ s6 = m /\ s7 = 0 /\ k = 0
      BY <2>2, <2>4, <3>1 DEF Both
    <3> QED
      BY <2>2, <3>2 DEF FirstSign
  <2>5. CASE v.dev # <<>> /\ w.dev # <<>>
    <3>1. /\ v.dev[1] = Number(v) /\ w.dev[1] = Number(w)
          /\ v.pre = <<>> /\ v.post = <<>> /\ Kind(v) = 0 /\ Kind(w) = 0
      BY <2>5, PlainVersion
    <3>2. s4 = 0 /\ s5 = 0 /\ s6 = 0 /\ s7 = m /\ k = 0
      BY <2>2, <2>5, <3>1 DEF Both
    <3> QED
      BY <2>2, <3>2 DEF FirstSign
  <2>6. CASE /\ v.pre = <<>> \/ w.pre = <<>>
             /\ v.post = <<>> \/ w.post = <<>>
             /\ v.dev = <<>> \/ w.dev = <<>>
    <3>1. s4 = 0 /\ s5 = 0 /\ s6 = 0 /\ s7 = 0
      BY <2>6 DEF Both
    <3>2. s3 = 0 => Kind(v) = Kind(w) /\ Number(v) = Number(w)
      <4>1. HAVE s3 = 0
      <4>2. Phase(v) = Phase(w)
        BY <2>2, <4>1
      <4> QED
        BY <2>6, <4>2, PlainVersion
    <3> QED
      BY <2>2, <3>1, <3>2 DEF FirstSign
  <2> QED
    BY <2>3, <2>4, <2>5, <2>6
<1>5. SuffixOrder(v, w)
        = FirstSign(s3, FirstSign(Sign(Kind(v), Kind(w)), Sign(Number(v), Number(w))))
  BY DEF SuffixOrder
<1>6. PlainOrder(v, w) = FirstSign(s1, FirstSign(s2, SuffixOrder(v, w)))
  BY DEF PlainOrder
<1> HIDE DEF s1, s2, s3, s4, s5, s6, s7, s8
<1> DEFINE s == <<s1, s2, s3, s4, s5, s6, s7, s8>>
<1>7. s \in [1..8 -> {-1, 0, 1}]
  BY <1>2, <1>3, <1>4
<1>8. Compare(v, w) = FirstSign(s1, FirstSign(s2, FirstSign(s3, FirstSign(s4,
                        FirstSign(s5, FirstSign(s6, FirstSign(s7, s8)))))))
  <2>1. /\ s[1] = s1 /\ s[2] = s2 /\ s[3] = s3 /\ s[4] = s4
        /\ s[5] = s5 /\ s[6] = s6 /\ s[7] = s7 /\ s[8] = s8
    OBVIOUS
  <2>2. Compare(v, w) = Decided(s)
    BY <1>1
  <2> HIDE DEF s
  <2> QED
    BY <1>7, <2>1, <2>2, Decided8
<1> QED
  BY <1>3, <1>4, <1>5, <1>6, <1>8 DEF FirstSign

(* PEP 440's order does the same.                                          *)
LEMMA PepPlain ==
  ASSUME NEW v \in Version, NEW w \in Version, Plain(v), Plain(w)
  PROVE  PepOrder(v, w) = PlainOrder(v, w)
<1> DEFINE keys(x) == <<PreKey(x)[1], PreKey(x)[2], PostKey(x), DevKey(x)>>
           s == <<Sign(v.epoch, w.epoch),
                  CompareRelease(v.release, w.release),
                  Sign(PreKey(v)[1], PreKey(w)[1]), Sign(PreKey(v)[2], PreKey(w)[2]),
                  Sign(PostKey(v), PostKey(w)),
                  Sign(DevKey(v), DevKey(w))>>
<1>1. ASSUME NEW x \in Version, Plain(x)
      PROVE  /\ Number(x) \in Nat /\ Kind(x) \in 0..2
             /\ PreKey(x)[1] \in Int /\ PreKey(x)[2] \in Int
             /\ PostKey(x) \in Int /\ DevKey(x) \in Int
             /\ \/ /\ Phase(x) = 0 /\ PreKey(x)[1] = -1 /\ PreKey(x)[2] = 0
                   /\ PostKey(x) = -1 /\ DevKey(x) = Number(x) /\ Kind(x) = 0
                \/ /\ Phase(x) = 2 /\ PreKey(x)[1] = Kind(x) /\ PreKey(x)[2] = Number(x)
                   /\ PostKey(x) = -1 /\ DevKey(x) = 9
                \/ /\ Phase(x) = 3 /\ PreKey(x)[1] = 9 /\ PreKey(x)[2] = 0
                   /\ PostKey(x) = -1 /\ DevKey(x) = 9 /\ Kind(x) = 0 /\ Number(x) = 0
                \/ /\ Phase(x) = 5 /\ PreKey(x)[1] = 9 /\ PreKey(x)[2] = 0
                   /\ PostKey(x) = Number(x) /\ DevKey(x) = 9 /\ Kind(x) = 0
  <2>1. Number(x) \in Nat /\ Kind(x) \in 0..2
    BY <1>1, PlainVersion
  <2>2. CASE /\ Phase(x) = 0 /\ x.pre = <<>> /\ x.post = <<>> /\ x.dev # <<>>
             /\ x.dev[1] = Number(x) /\ Kind(x) = 0
    BY <2>1, <2>2 DEF PreKey, PostKey, DevKey
  <2>3. CASE /\ Phase(x) = 2 /\ x.pre # <<>> /\ x.post = <<>> /\ x.dev = <<>>
             /\ x.pre[1] = <<Kind(x), Number(x)>>
    BY <2>1, <2>3 DEF PreKey, PostKey, DevKey
  <2>4. CASE /\ Phase(x) = 3 /\ x.pre = <<>> /\ x.post = <<>> /\ x.dev = <<>>
             /\ Kind(x) = 0 /\ Number(x) = 0
    BY <2>1, <2>4 DEF PreKey, PostKey, DevKey
  <2>5. CASE /\ Phase(x) = 5 /\ x.pre = <<>> /\ x.post # <<>> /\ x.dev = <<>>
             /\ x.post[1] = Number(x) /\ Kind(x) = 0
    BY <2>1, <2>5 DEF PreKey, PostKey, DevKey
  <2> QED
    BY <1>1, <2>2, <2>3, <2>4, <2>5, PlainVersion
<1>2. /\ Sign(v.epoch, w.epoch) \in {-1, 0, 1}
      /\ CompareRelease(v.release, w.release) \in {-1, 0, 1}
  <2>1. v.epoch \in Int /\ w.epoch \in Int
    BY PlainVersion
  <2> QED
    BY <2>1, SignIs, PlainVersion, ReleaseOrder
<1>3. s \in [1..6 -> {-1, 0, 1}]
  BY <1>1, <1>2, SignIs
<1>4. PepOrder(v, w) = Decided(s)
  BY DEF PepOrder
<1>5. /\ s[1] = Sign(v.epoch, w.epoch) /\ s[2] = CompareRelease(v.release, w.release)
      /\ s[3] = Sign(PreKey(v)[1], PreKey(w)[1])
      /\ s[4] = Sign(PreKey(v)[2], PreKey(w)[2])
      /\ s[5] = Sign(PostKey(v), PostKey(w)) /\ s[6] = Sign(DevKey(v), DevKey(w))
  OBVIOUS
<1> HIDE DEF s
<1>6. FirstSign(s[3], FirstSign(s[4], FirstSign(s[5], s[6]))) = SuffixOrder(v, w)
  BY <1>1, <1>5 DEF SuffixOrder, FirstSign, Sign
<1>7. Decided(s) = FirstSign(s[1], FirstSign(s[2], FirstSign(s[3],
                     FirstSign(s[4], FirstSign(s[5], s[6])))))
  BY <1>3, Decided6
<1> QED
  BY <1>4, <1>5, <1>6, <1>7 DEF PlainOrder

(* The order of suffixes.                                                  *)
LEMMA SuffixOrderly ==
  ASSUME NEW u \in Version, NEW v \in Version, NEW w \in Version,
         Plain(u), Plain(v), Plain(w)
  PROVE  /\ SuffixOrder(u, v) \in {-1, 0, 1}
         /\ SuffixOrder(v, u) = - SuffixOrder(u, v)
         /\ SuffixOrder(u, v) <= 0 /\ SuffixOrder(v, w) <= 0
              => /\ SuffixOrder(u, w) <= 0
                 /\ SuffixOrder(u, w) = 0 => /\ SuffixOrder(u, v) = 0
                                             /\ SuffixOrder(v, w) = 0
<1>1. \A x \in {u, v, w} : Phase(x) \in Int /\ Kind(x) \in Int /\ Number(x) \in Int
  BY PlainVersion
<1>2. /\ SuffixOrder(u, v) \in {-1, 0, 1}
      /\ SuffixOrder(v, u) = - SuffixOrder(u, v)
  BY <1>1 DEF SuffixOrder, FirstSign, Sign
<1>3. ASSUME SuffixOrder(u, v) <= 0, SuffixOrder(v, w) <= 0
      PROVE  /\ SuffixOrder(u, w) <= 0
             /\ SuffixOrder(u, w) = 0 => /\ SuffixOrder(u, v) = 0
                                         /\ SuffixOrder(v, w) = 0
  BY <1>1, <1>3 DEF SuffixOrder, FirstSign, Sign
<1> QED
  BY <1>2, <1>3

(* Version.Compare orders versions with one suffix at most totally, up to  *)
(* what it takes for equal: it is reflexive, antisymmetric and transitive, *)
(* as sort.Slice needs it to be for a sort of the candidates to mean       *)
(* anything (resolver.go:239).                                             *)
THEOREM ComparesInOrder ==
  ASSUME NEW u \in Version, NEW v \in Version, NEW w \in Version,
         Plain(u), Plain(v), Plain(w)
  PROVE  /\ Compare(u, v) \in {-1, 0, 1}
         /\ Compare(u, u) = 0
         /\ Compare(v, u) = - Compare(u, v)
         /\ Compare(u, v) <= 0 /\ Compare(v, w) <= 0 => Compare(u, w) <= 0
<1> DEFINE E(x, y) == Sign(x.epoch, y.epoch)
           R(x, y) == CompareRelease(x.release, y.release)
<1>1. \A x \in {u, v, w} : x.epoch \in Int /\ x.release \in Seq(Nat)
  BY PlainVersion
<1>2. /\ E(u, v) \in {-1, 0, 1} /\ E(v, u) = - E(u, v)
      /\ E(u, v) <= 0 /\ E(v, w) <= 0
           => E(u, w) <= 0 /\ (E(u, w) = 0 => E(u, v) = 0 /\ E(v, w) = 0)
      /\ E(u, w) \in {-1, 0, 1} /\ E(v, w) \in {-1, 0, 1}
  BY <1>1 DEF Sign
<1>3. /\ R(u, v) \in {-1, 0, 1} /\ R(v, u) = - R(u, v)
      /\ R(u, v) <= 0 /\ R(v, w) <= 0
           => R(u, w) <= 0 /\ (R(u, w) = 0 => R(u, v) = 0 /\ R(v, w) = 0)
      /\ R(u, w) \in {-1, 0, 1} /\ R(v, w) \in {-1, 0, 1}
  BY <1>1, ReleaseOrder
<1>4. /\ SuffixOrder(u, v) \in {-1, 0, 1} /\ SuffixOrder(v, u) = - SuffixOrder(u, v)
      /\ SuffixOrder(u, v) <= 0 /\ SuffixOrder(v, w) <= 0 => SuffixOrder(u, w) <= 0
      /\ SuffixOrder(u, w) \in {-1, 0, 1} /\ SuffixOrder(v, w) \in {-1, 0, 1}
  BY SuffixOrderly
<1>5. \A x, y \in {u, v, w} :
        Compare(x, y) = FirstSign(E(x, y), FirstSign(R(x, y), SuffixOrder(x, y)))
  BY ComparePlain DEF PlainOrder
<1> HIDE DEF E, R
<1>6. Compare(u, v) \in {-1, 0, 1} /\ Compare(v, u) = - Compare(u, v)
  BY <1>2, <1>3, <1>4, <1>5 DEF FirstSign
<1>7. Compare(u, v) <= 0 /\ Compare(v, w) <= 0 => Compare(u, w) <= 0
  BY <1>2, <1>3, <1>4, <1>5 DEF FirstSign
<1>8. Compare(u, u) = 0
  <2>1. E(u, u) = 0 /\ Phase(u) \in Int /\ Kind(u) \in Int /\ Number(u) \in Int
    BY <1>1, PlainVersion DEF E, Sign
  <2>2. SuffixOrder(u, u) = 0
    BY <2>1 DEF SuffixOrder, FirstSign, Sign
  <2>3. R(u, u) = 0
    BY <1>1, ReleaseDecided DEF R
  <2> QED
    BY <1>5, <2>1, <2>2, <2>3 DEF FirstSign
<1> QED
  BY <1>6, <1>7, <1>8

(* Version.Compare and PEP 440 order versions with one suffix at most and  *)
(* no local part alike, for any numbers and any length of the release: the *)
(* code's seven steps and its phases lose nothing of the key PEP 440 has.  *)
THEOREM ComparesAsPep440 ==
  ASSUME NEW v \in Version, NEW w \in Version, Plain(v), Plain(w)
  PROVE  Compare(v, w) = PepOrder(v, w)
BY ComparePlain, PepPlain

(* A sequence of at most one element.                                      *)
LEMMA OneAtMost ==
  ASSUME NEW S
  PROVE  /\ <<>> \in AtMostOne(S) /\ \A x \in S : <<x>> \in AtMostOne(S)
         /\ \A x \in S : <<x>> # <<>> /\ <<x>>[1] = x
         /\ \A s \in AtMostOne(S) : s # <<>> => s[1] \in S
<1>1. ASSUME NEW s \in Seq(S), s # <<>>
      PROVE  s[1] \in S
  BY <1>1
<1> QED
  BY <1>1 DEF AtMostOne

(* The signs of two versions that differ in their suffixes only.           *)
SuffixSigns(a, b, c, d, e) == <<0, 0, a, b, c, d, e, 0>>
KeySigns(a, b, c, d) == <<0, 0, a, b, c, d>>

LEMMA DecidedSuffixes ==
  ASSUME NEW a \in {-1, 0, 1}, NEW b \in {-1, 0, 1}, NEW c \in {-1, 0, 1},
         NEW d \in {-1, 0, 1}, NEW e \in {-1, 0, 1}
  PROVE  Decided(SuffixSigns(a, b, c, d, e))
           = FirstSign(a, FirstSign(b, FirstSign(c, FirstSign(d, e))))
<1> DEFINE s == <<0, 0, a, b, c, d, e, 0>>
<1>1. s \in [1..8 -> {-1, 0, 1}]
  OBVIOUS
<1>2. /\ s[1] = 0 /\ s[2] = 0 /\ s[3] = a /\ s[4] = b
      /\ s[5] = c /\ s[6] = d /\ s[7] = e /\ s[8] = 0
  OBVIOUS
<1> HIDE DEF s
<1>3. Decided(s) = FirstSign(s[1], FirstSign(s[2], FirstSign(s[3],
           FirstSign(s[4], FirstSign(s[5], FirstSign(s[6],
           FirstSign(s[7], s[8])))))))
  BY <1>1, Decided8
<1>4. Decided(s) = FirstSign(a, FirstSign(b, FirstSign(c, FirstSign(d, e))))
  BY <1>2, <1>3 DEF FirstSign
<1> QED
  BY <1>4 DEF s, SuffixSigns

LEMMA DecidedKeys ==
  ASSUME NEW a \in {-1, 0, 1}, NEW b \in {-1, 0, 1}, NEW c \in {-1, 0, 1},
         NEW d \in {-1, 0, 1}
  PROVE  Decided(KeySigns(a, b, c, d)) = FirstSign(a, FirstSign(b, FirstSign(c, d)))
<1> DEFINE s == <<0, 0, a, b, c, d>>
<1>1. s \in [1..6 -> {-1, 0, 1}]
  OBVIOUS
<1>2. /\ s[1] = 0 /\ s[2] = 0 /\ s[3] = a /\ s[4] = b /\ s[5] = c /\ s[6] = d
  OBVIOUS
<1> HIDE DEF s
<1>3. Decided(s) = FirstSign(s[1], FirstSign(s[2], FirstSign(s[3],
           FirstSign(s[4], FirstSign(s[5], s[6])))))
  BY <1>1, Decided6
<1>4. Decided(s) = FirstSign(a, FirstSign(b, FirstSign(c, d)))
  BY <1>2, <1>3 DEF FirstSign
<1> QED
  BY <1>4 DEF s, KeySigns

(* How Compare and PEP 440 order versions of one release that differ in    *)
(* their suffixes only.                                                    *)
LEMMA CompareSuffixes ==
  ASSUME NEW r \in Seq(Nat) \ {<<>>},
         NEW p \in AtMostOne((0..2) \X Nat), NEW q \in AtMostOne((0..2) \X Nat),
         NEW m \in AtMostOne(Nat), NEW n \in AtMostOne(Nat),
         NEW d \in AtMostOne(Nat), NEW e \in AtMostOne(Nat),
         NEW v, NEW w,
         v = VersionOf(r, p, m, d, <<>>), w = VersionOf(r, q, n, e, <<>>),
         p = q
  PROVE  /\ v \in Version /\ w \in Version
         /\ Compare(v, w) = FirstSign(Sign(Phase(v), Phase(w)),
              FirstSign(Both(m, n, Sign(m[1], n[1])), Both(d, e, Sign(d[1], e[1]))))
         /\ PepOrder(v, w) = FirstSign(Sign(PreKey(v)[1], PreKey(w)[1]),
              FirstSign(Sign(PreKey(v)[2], PreKey(w)[2]),
              FirstSign(Sign(PostKey(v), PostKey(w)), Sign(DevKey(v), DevKey(w)))))
<1> DEFINE s3 == Sign(Phase(v), Phase(w))
           s4 == Both(p, q, Sign(p[1][1], q[1][1]))
           s5 == Both(p, q, Sign(p[1][2], q[1][2]))
           s6 == Both(m, n, Sign(m[1], n[1]))
           s7 == Both(d, e, Sign(d[1], e[1]))
           k1 == Sign(PreKey(v)[1], PreKey(w)[1])
           k2 == Sign(PreKey(v)[2], PreKey(w)[2])
           k3 == Sign(PostKey(v), PostKey(w))
           k4 == Sign(DevKey(v), DevKey(w))
<1>1. /\ v.epoch = 0 /\ v.release = r /\ v.local = <<>>
      /\ v.pre = p /\ v.post = m /\ v.dev = d
      /\ w.epoch = 0 /\ w.release = r /\ w.local = <<>>
      /\ w.pre = q /\ w.post = n /\ w.dev = e
  BY DEF VersionOf
<1>2. v \in Version /\ w \in Version
  BY DEF VersionOf, Version
<1>3. /\ p # <<>> => p[1] \in (0..2) \X Nat
      /\ m # <<>> => m[1] \in Nat
      /\ n # <<>> => n[1] \in Nat
      /\ d # <<>> => d[1] \in Nat
      /\ e # <<>> => e[1] \in Nat
  BY OneAtMost
<1>4. Sign(v.epoch, w.epoch) = 0 /\ CompareRelease(v.release, w.release) = 0
      /\ CompareLocal(v.local, w.local) = 0
  <2>1. CompareRelease(r, r) = 0
    BY ReleaseDecided
  <2> QED
    BY <1>1, <2>1 DEF Sign, CompareLocal
<1>5. /\ s3 \in {-1, 0, 1} /\ s4 = 0 /\ s5 = 0
      /\ s6 \in {-1, 0, 1} /\ s7 \in {-1, 0, 1}
  <2>1. Phase(v) \in Int /\ Phase(w) \in Int
    BY DEF Phase
  <2>2. p # <<>> => p[1][1] \in Int /\ p[1][2] \in Int
    BY <1>3
  <2> QED
    BY <1>3, <2>1, <2>2 DEF Both, Sign
<1>6. k1 \in {-1, 0, 1} /\ k2 \in {-1, 0, 1} /\ k3 \in {-1, 0, 1} /\ k4 \in {-1, 0, 1}
  <2>1. /\ PreKey(v)[1] \in Int /\ PreKey(v)[2] \in Int
        /\ PreKey(w)[1] \in Int /\ PreKey(w)[2] \in Int
    BY <1>1, <1>3 DEF PreKey
  <2>2. PostKey(v) \in Int /\ PostKey(w) \in Int /\ DevKey(v) \in Int /\ DevKey(w) \in Int
    BY <1>1, <1>3 DEF PostKey, DevKey
  <2> QED
    BY <2>1, <2>2, SignIs
<1>7. Compare(v, w) = Decided(SuffixSigns(s3, s4, s5, s6, s7))
  BY <1>1, <1>4 DEF Compare, SuffixSigns
<1>8. PepOrder(v, w) = Decided(KeySigns(k1, k2, k3, k4))
  BY <1>4 DEF PepOrder, KeySigns
<1> HIDE DEF s3, s4, s5, s6, s7, k1, k2, k3, k4
<1>9. Compare(v, w) = FirstSign(s3, FirstSign(s4, FirstSign(s5, FirstSign(s6, s7))))
  BY <1>5, <1>7, DecidedSuffixes
<1>10. PepOrder(v, w) = FirstSign(k1, FirstSign(k2, FirstSign(k3, k4)))
  BY <1>6, <1>8, DecidedKeys
<1>11. Compare(v, w) = FirstSign(s3, FirstSign(s6, s7))
  BY <1>5, <1>9 DEF FirstSign
<1> QED
  BY <1>2, <1>10, <1>11 DEF s3, s6, s7, k1, k2, k3, k4

(* Beyond one suffix both fail, in every release and for all numbers: the  *)
(* development release of a later post-release is older than an earlier    *)
(* post-release to Compare and newer to PEP 440, and two post-releases of  *)
(* a pre-release are told apart although each equals the pre-release, so   *)
(* that sort.Slice is given no strict weak order.                          *)
THEOREM TwoSuffixesMisordered ==
  ASSUME NEW r \in Seq(Nat) \ {<<>>}, NEW p \in (0..2) \X Nat,
         NEW i \in Nat, NEW j \in Nat, i < j, NEW m \in Nat,
         NEW post, NEW next, NEW pre, NEW first, NEW second,
         post = VersionOf(r, <<>>, <<i>>, <<>>, <<>>),
         next = VersionOf(r, <<>>, <<j>>, <<m>>, <<>>),
         pre = VersionOf(r, <<p>>, <<>>, <<>>, <<>>),
         first = VersionOf(r, <<p>>, <<i>>, <<>>, <<>>),
         second = VersionOf(r, <<p>>, <<j>>, <<>>, <<>>)
  PROVE  /\ {post, next, pre, first, second} \subseteq Version
         /\ Compare(post, next) = 1 /\ PepOrder(post, next) = -1
         /\ Compare(first, pre) = 0 /\ Compare(pre, second) = 0
         /\ Compare(first, second) = -1
<1> DEFINE none == <<>>
<1>1. /\ none \in AtMostOne((0..2) \X Nat) /\ <<p>> \in AtMostOne((0..2) \X Nat)
      /\ none \in AtMostOne(Nat) /\ <<i>> \in AtMostOne(Nat)
      /\ <<j>> \in AtMostOne(Nat) /\ <<m>> \in AtMostOne(Nat)
      /\ <<p>> # <<>> /\ <<i>> # <<>> /\ <<j>> # <<>> /\ <<m>> # <<>>
      /\ <<i>>[1] = i /\ <<j>>[1] = j /\ <<m>>[1] = m
  BY OneAtMost
<1>2. /\ post.pre = <<>> /\ post.post = <<i>> /\ post.dev = <<>>
      /\ next.pre = <<>> /\ next.post = <<j>> /\ next.dev = <<m>>
      /\ pre.pre = <<p>> /\ pre.post = <<>> /\ pre.dev = <<>>
      /\ first.pre = <<p>> /\ first.post = <<i>> /\ first.dev = <<>>
      /\ second.pre = <<p>> /\ second.post = <<j>> /\ second.dev = <<>>
  BY DEF VersionOf
<1>3. /\ Phase(post) = 5 /\ Phase(next) = 4
      /\ Phase(pre) = 2 /\ Phase(first) = 2 /\ Phase(second) = 2
  BY <1>1, <1>2 DEF Phase
<1>4. /\ post \in Version /\ next \in Version
      /\ Compare(post, next) = 1 /\ PepOrder(post, next) = -1
  <2>1. /\ post \in Version /\ next \in Version
        /\ Compare(post, next) = FirstSign(Sign(Phase(post), Phase(next)),
             FirstSign(Both(<<i>>, <<j>>, Sign(<<i>>[1], <<j>>[1])),
                       Both(none, <<m>>, Sign(none[1], <<m>>[1]))))
        /\ PepOrder(post, next) = FirstSign(Sign(PreKey(post)[1], PreKey(next)[1]),
             FirstSign(Sign(PreKey(post)[2], PreKey(next)[2]),
             FirstSign(Sign(PostKey(post), PostKey(next)),
                       Sign(DevKey(post), DevKey(next)))))
    BY <1>1, CompareSuffixes
  <2>2. Sign(Phase(post), Phase(next)) = 1
    BY <1>3 DEF Sign
  <2>3. PreKey(post) = <<9, 0>> /\ PreKey(next) = <<9, 0>>
    BY <1>1, <1>2 DEF PreKey
  <2>4. PostKey(post) = i /\ PostKey(next) = j
    BY <1>1, <1>2 DEF PostKey
  <2>5. /\ Sign(PreKey(post)[1], PreKey(next)[1]) = 0
        /\ Sign(PreKey(post)[2], PreKey(next)[2]) = 0
        /\ Sign(PostKey(post), PostKey(next)) = -1
    BY <2>3, <2>4 DEF Sign
  <2> QED
    BY <2>1, <2>2, <2>5 DEF FirstSign
<1>5. /\ pre \in Version /\ first \in Version /\ Compare(first, pre) = 0
  <2>1. /\ pre \in Version /\ first \in Version
        /\ Compare(first, pre) = FirstSign(Sign(Phase(first), Phase(pre)),
             FirstSign(Both(<<i>>, none, Sign(<<i>>[1], none[1])),
                       Both(none, none, Sign(none[1], none[1]))))
    BY <1>1, CompareSuffixes
  <2> QED
    BY <1>3, <2>1 DEF FirstSign, Both, Sign
<1>6. /\ second \in Version /\ Compare(pre, second) = 0
  <2>1. /\ pre \in Version /\ second \in Version
        /\ Compare(pre, second) = FirstSign(Sign(Phase(pre), Phase(second)),
             FirstSign(Both(none, <<j>>, Sign(none[1], <<j>>[1])),
                       Both(none, none, Sign(none[1], none[1]))))
    BY <1>1, CompareSuffixes
  <2> QED
    BY <1>3, <2>1 DEF FirstSign, Both, Sign
<1>7. Compare(first, second) = -1
  <2>1. Compare(first, second) = FirstSign(Sign(Phase(first), Phase(second)),
             FirstSign(Both(<<i>>, <<j>>, Sign(<<i>>[1], <<j>>[1])),
                       Both(none, none, Sign(none[1], none[1]))))
    BY <1>1, CompareSuffixes
  <2> QED
    BY <1>1, <1>3, <2>1 DEF FirstSign, Both, Sign
<1> QED
  BY <1>4, <1>5, <1>6, <1>7

---------------------------------------------------------------------------
(* What is chosen from                                                     *)

LEMMA LeastIs ==
  ASSUME NEW S, S \subseteq Nat, S # {}
  PROVE  Least(S) \in S /\ \A j \in S : Least(S) <= j
<1>1. \E k \in S : \A j \in S : k <= j
  BY LeastOfNaturals
<1> QED
  BY <1>1 DEF Least

(* Of the candidates of one version one is better than the others.         *)
LEMMA BestOfVersion ==
  ASSUME NEW page \in Seq(Wheel), NEW specs, NEW i \in Candidates(page, specs)
  PROVE  \E g \in BestFiles(page, specs) : g.ver = page[i].ver
<1> DEFINE fit == Candidates(page, specs)
           V == {j \in fit : page[j].ver = page[i].ver}
           P == {j \in V : page[j].pure}
           W == IF P # {} THEN P ELSE V
           M == {Least(page[j].tags) : j \in W}
<1>1. fit \subseteq Nat /\ \A j \in fit : page[j] \in Wheel
  BY DEF Candidates
<1>2. \A j \in fit : /\ Least(page[j].tags) \in Nat
                     /\ page[j].pure \in BOOLEAN
  <2>1. TAKE j \in fit
  <2>2. page[j].tags \subseteq Nat /\ page[j].tags # {} /\ page[j].pure \in BOOLEAN
    BY <1>1 DEF Candidates, Wheel
  <2> QED
    BY <2>2, LeastIs
<1>3. W \subseteq V /\ W # {} /\ V \subseteq fit
  OBVIOUS
<1>4. M \subseteq Nat /\ M # {}
  BY <1>2, <1>3
<1>5. PICK x \in M : \A y \in M : x <= y
  BY <1>4, LeastOfNaturals
<1> DEFINE B == {j \in W : Least(page[j].tags) = x}
<1>6. B # {} /\ B \subseteq Nat
  BY <1>1, <1>3, <1>5
<1>7. PICK b \in B : \A j \in B : b <= j
  BY <1>6, LeastOfNaturals
<1>8. ASSUME NEW k \in fit, k # b, page[b].ver = page[k].ver
      PROVE  Better(page, b, k)
  <2>1. k \in V /\ b \in W /\ b \in V /\ Least(page[b].tags) = x
    BY <1>3, <1>7, <1>8
  <2>2. CASE k \notin W
    <3>1. page[b].pure /\ ~page[k].pure
      BY <2>1, <2>2
    <3> QED
      BY <3>1 DEF Better
  <2>3. CASE k \in W
    <3>1. page[b].pure = page[k].pure
      BY <1>2, <1>3, <2>1, <2>3
    <3>2. x <= Least(page[k].tags) /\ x \in Nat /\ Least(page[k].tags) \in Nat
      BY <1>2, <1>4, <1>5, <2>3
    <3>3. CASE Least(page[k].tags) = x
      <4>1. k \in B
        BY <2>3, <3>3
      <4>2. b <= k /\ b \in Nat /\ k \in Nat
        BY <1>6, <1>7, <4>1
      <4>3. b < k
        BY <1>8, <4>2
      <4> QED
        BY <2>1, <3>1, <3>3, <4>3 DEF Better
    <3>4. CASE Least(page[k].tags) # x
      <4>1. Least(page[b].tags) < Least(page[k].tags)
        BY <2>1, <3>2, <3>4
      <4> QED
        BY <3>1, <4>1 DEF Better
    <3> QED
      BY <3>3, <3>4
  <2> QED
    BY <2>2, <2>3
<1>9. b \in fit /\ page[b].ver = page[i].ver
  BY <1>3, <1>7
<1>10. page[b] \in BestFiles(page, specs)
  BY <1>8, <1>9 DEF BestFiles
<1> QED
  BY <1>9, <1>10

(* Nothing is better than what is better than it.                          *)
LEMMA BetterOneWay ==
  ASSUME NEW page \in Seq(Wheel), NEW i \in DOMAIN page, NEW j \in DOMAIN page,
         page[i].tags # {}, page[j].tags # {}, Better(page, i, j)
  PROVE  ~Better(page, j, i)
<1>1. /\ page[i].tags \subseteq Nat /\ page[j].tags \subseteq Nat
      /\ page[i].pure \in BOOLEAN /\ page[j].pure \in BOOLEAN
  <2>1. page[i] \in Wheel /\ page[j] \in Wheel
    OBVIOUS
  <2> QED
    BY <2>1 DEF Wheel
<1>2. /\ Least(page[i].tags) \in Nat /\ Least(page[j].tags) \in Nat
      /\ i \in Nat /\ j \in Nat
  BY <1>1, LeastIs
<1> QED
  BY <1>1, <1>2 DEF Better

(* Two best files of one version are one file, whatever the specifiers.    *)
LEMMA OneBest ==
  ASSUME NEW page \in Seq(Wheel), NEW specs, NEW others,
         NEW f \in BestFiles(page, specs), NEW g \in BestFiles(page, others),
         f.ver = g.ver
  PROVE  f = g
<1>1. PICK i \in Candidates(page, specs) :
        /\ f = page[i]
        /\ \A k \in Candidates(page, specs) :
             k # i /\ page[i].ver = page[k].ver => Better(page, i, k)
  BY DEF BestFiles
<1>2. PICK j \in Candidates(page, others) :
        /\ g = page[j]
        /\ \A k \in Candidates(page, others) :
             k # j /\ page[j].ver = page[k].ver => Better(page, j, k)
  BY DEF BestFiles
<1>3. i \in Candidates(page, others) /\ j \in Candidates(page, specs)
  BY <1>1, <1>2 DEF Candidates
<1>4. CASE i # j
  <2>1. Better(page, i, j) /\ Better(page, j, i)
    BY <1>1, <1>2, <1>3, <1>4
  <2>2. /\ i \in DOMAIN page /\ j \in DOMAIN page
        /\ page[i].tags # {} /\ page[j].tags # {}
    BY DEF Candidates
  <2> QED
    BY <2>1, <2>2, BetterOneWay
<1> QED
  BY <1>1, <1>2, <1>4

LEMMA BestFinite ==
  ASSUME NEW page \in Seq(Wheel), NEW specs
  PROVE  /\ IsFiniteSet(BestFiles(page, specs))
         /\ Cardinality(BestFiles(page, specs)) \in Nat
         /\ BestFiles(page, specs) # {} => Cardinality(BestFiles(page, specs)) # 0
<1> DEFINE files == BestFiles(page, specs)
           img == {page[i] : i \in 1..Len(page)}
           h == [i \in 1..Len(page) |-> page[i]]
<1>1. \A g \in files : \E i \in DOMAIN page : g = page[i]
  BY DEF BestFiles, Candidates
<1>2. h \in Surjection(1..Len(page), img)
  BY DEF Surjection
<1>3. IsFiniteSet(img)
  BY <1>2, FS_NatSurjection DEF ExistsSurjection
<1>4. files \in SUBSET img
  BY <1>1
<1>5. IsFiniteSet(files)
  BY <1>3, <1>4, FS_Subset
<1> QED
  BY <1>5, FS_CardinalityType, FS_EmptySet

(* The best files of a page none of whose versions is newer.               *)
Top(page, specs) ==
  {f \in BestFiles(page, specs) :
     \A g \in BestFiles(page, specs) : Compare(g.ver, f.ver) <= 0}

(* In a sequence in which no version is older than the next, none is newer *)
(* than the first.                                                         *)
LEMMA FirstIsLast ==
  ASSUME NEW c \in Nat, NEW S, \A f \in S : f.ver \in Version /\ Plain(f.ver),
         NEW s \in [1..c -> S],
         \A i \in 1..(c - 1) : Compare(s[i].ver, s[i + 1].ver) >= 0,
         NEW k \in 1..c
  PROVE  Compare(s[k].ver, s[1].ver) <= 0
<1> DEFINE N == {j \in 1..c : ~ (Compare(s[j].ver, s[1].ver) <= 0)}
<1>1. SUFFICES ASSUME N # {} PROVE FALSE
  OBVIOUS
<1>2. PICK j \in N : \A i \in N : j <= i
  <2>1. N \subseteq Nat
    OBVIOUS
  <2> HIDE DEF N
  <2> QED
    BY <1>1, <2>1, LeastOfNaturals
<1>3. 1 \in 1..c /\ s[1] \in S
  OBVIOUS
<1>4. j # 1
  BY <1>3, ComparesInOrder
<1>5. /\ j - 1 \in 1..c /\ j - 1 \in 1..(c - 1) /\ (j - 1) + 1 = j
      /\ j - 1 \notin N
  BY <1>2, <1>4
<1>6. Compare(s[j - 1].ver, s[1].ver) <= 0
  BY <1>5
<1>7. Compare(s[j - 1].ver, s[j].ver) >= 0
  BY <1>5
<1>8. s[j - 1] \in S /\ s[j] \in S
  BY <1>5
<1>9. Compare(s[j].ver, s[j - 1].ver) <= 0
  <2>1. /\ Compare(s[j - 1].ver, s[j].ver) \in {-1, 0, 1}
        /\ Compare(s[j].ver, s[j - 1].ver) = - Compare(s[j - 1].ver, s[j].ver)
    BY <1>8, ComparesInOrder
  <2> QED
    BY <1>7, <2>1
<1>10. Compare(s[j].ver, s[1].ver) <= 0
  BY <1>3, <1>6, <1>8, <1>9, ComparesInOrder
<1> QED
  BY <1>10

(* The file that is picked is one of the best files of the page, and no    *)
(* candidate is newer.                                                     *)
LEMMA PickedIsTop ==
  ASSUME NEW page \in Seq(Wheel), \A i \in DOMAIN page : Plain(page[i].ver),
         NEW specs, NEW f \in FirstSorted(BestFiles(page, specs)),
         BestFiles(page, specs) # {}
  PROVE  f \in Top(page, specs)
<1> DEFINE files == BestFiles(page, specs)
           c == Cardinality(files)
<1>1. \A g \in files : \E i \in DOMAIN page : g = page[i]
  BY DEF BestFiles, Candidates
<1>2. \A g \in files : g \in Wheel /\ Plain(g.ver)
  BY <1>1
<1>3. \A g \in files : g.ver \in Version /\ Plain(g.ver)
  BY <1>2 DEF Wheel
<1>4. IsFiniteSet(files) /\ c \in Nat /\ c # 0
  BY BestFinite
<1>5. PICK s \in SetToSeqs(files) :
        /\ f = s[1]
        /\ \A i \in 1..(Len(s) - 1) : Compare(s[i].ver, s[i + 1].ver) >= 0
  BY DEF FirstSorted
<1>6. /\ s \in [1..c -> files]
      /\ \A i, j \in 1..c : i # j => s[i] # s[j]
  BY <1>5 DEF SetToSeqs
<1> HIDE DEF files, c
<1>7. Len(s) = c
  BY <1>4, <1>6
<1>8. f \in files
  BY <1>4, <1>5, <1>6
<1>9. s \in Injection(1..c, files)
  BY <1>6 DEF Injection, IsInjective
<1>10. IsFiniteSet(1..c) /\ Cardinality(1..c) = c
  BY <1>4, FS_Interval
<1>11. s \in Surjection(1..c, files)
  BY <1>4, <1>9, <1>10, FS_Injection DEF c
<1>12. ASSUME NEW g \in files PROVE Compare(g.ver, f.ver) <= 0
  <2>1. PICK k \in 1..c : s[k] = g
    BY <1>11 DEF Surjection
  <2>2. \A i \in 1..(c - 1) : Compare(s[i].ver, s[i + 1].ver) >= 0
    BY <1>5, <1>7
  <2>3. Compare(s[k].ver, s[1].ver) <= 0
    BY <1>3, <1>4, <1>6, <2>2, FirstIsLast
  <2> QED
    BY <1>5, <2>1, <2>3
<1> QED
  BY <1>8, <1>12 DEF Top, files

(* The first of the sorted files is one of the best files of the page: a   *)
(* candidate that the specifiers admit.                                    *)
LEMMA FirstSortedFits ==
  ASSUME NEW page \in Seq(Wheel), NEW specs,
         NEW f \in FirstSorted(BestFiles(page, specs)),
         BestFiles(page, specs) # {}
  PROVE  f \in Wheel /\ Admits(specs, f.ver) /\ f \in ToSet(page)
<1> DEFINE files == BestFiles(page, specs)
<1>1. \A g \in files : \E i \in Candidates(page, specs) : g = page[i]
  BY DEF BestFiles
<1>2. \A g \in files : g \in Wheel /\ Admits(specs, g.ver) /\ g \in ToSet(page)
  BY <1>1 DEF Candidates, ToSet
<1>3. IsFiniteSet(files) /\ Cardinality(files) \in Nat /\ Cardinality(files) # 0
  BY BestFinite
<1>4. PICK s \in SetToSeqs(files) : f = s[1]
  BY DEF FirstSorted
<1>5. s \in [1..Cardinality(files) -> files]
  BY <1>4 DEF SetToSeqs
<1>6. f \in files
  BY <1>3, <1>4, <1>5
<1> QED
  BY <1>2, <1>6

(* Another order of the requirements has the same requirements.            *)
LEMMA OrdersSame ==
  ASSUME NEW S, NEW reqs \in Seq(S), NEW q \in Orders(reqs)
  PROVE  q \in Seq(S) /\ ToSet(q) = ToSet(reqs)
<1> DEFINE D == DOMAIN reqs
<1>1. PICK p \in [D -> D] :
        /\ \A i, j \in D : p[i] = p[j] => i = j
        /\ q = [i \in D |-> reqs[p[i]]]
  BY DEF Orders
<1>2. Len(reqs) \in Nat /\ D = 1..Len(reqs)
  OBVIOUS
<1>3. q \in Seq(S)
  BY <1>1, <1>2
<1>4. p \in Injection(D, D)
  BY <1>1 DEF Injection, IsInjective
<1>5. IsFiniteSet(D)
  BY <1>2, FS_Interval
<1>6. p \in Surjection(D, D)
  BY <1>4, <1>5, FS_Injection
<1>7. \A j \in D : \E i \in D : p[i] = j
  BY <1>6 DEF Surjection
<1>8. ToSet(q) = ToSet(reqs)
  BY <1>1, <1>7 DEF ToSet
<1> QED
  BY <1>3, <1>8

---------------------------------------------------------------------------
(* Types                                                                   *)

(* What is fetched is for the first requirement of the queue, from an      *)
(* index there is; the wheel is one that fits it.                          *)
FetchInv ==
  /\ fetch.what = "none" => fetch = NoFetch
  /\ fetch.what # "none" => queue # <<>>
  /\ fetch.what = "page" => fetch.index \in DOMAIN world.pages
  /\ fetch.what = "wheel" => /\ fetch.file \in Wheel
                             /\ Immutable(First.name) = <<>>
                             /\ Admits(First.specs, fetch.file.ver)

TypeInv == TypeOK /\ FetchInv

LEMMA WorldType ==
  ASSUME TypeOK
  PROVE  /\ world.pages \in Seq([Name -> MaybePage]) /\ world.pages # <<>>
         /\ Len(world.pages) \in Nat /\ Len(world.pages) >= 1
         /\ DOMAIN world.pages = 1..Len(world.pages)
         /\ world.reqs \in Seq(Requirement)
         /\ world.pins \in [Name -> AtMostOne(Version)]
<1>1. world \in World
  BY DEF TypeOK
<1>2. /\ world.pages \in Seq([Name -> MaybePage]) /\ world.pages # <<>>
      /\ world.reqs \in Seq(Requirement)
      /\ world.pins \in [Name -> AtMostOne(Version)]
  BY <1>1 DEF World
<1> QED
  BY <1>2

LEMMA FirstType ==
  ASSUME TypeOK, queue # <<>>
  PROVE  /\ First \in Requirement /\ First.name \in Name
         /\ Tail(queue) \in Seq(Requirement)
<1>1. queue \in Seq(Requirement)
  BY DEF TypeOK
<1>2. First \in Requirement /\ Tail(queue) \in Seq(Requirement)
  BY <1>1 DEF First
<1> QED
  BY <1>2 DEF Requirement

(* The fetches that are begun.                                             *)
LEMMA FetchType ==
  ASSUME TypeOK
  PROVE  /\ NoFetch \in Fetch /\ NoFetch.what = "none"
         /\ \A i \in DOMAIN world.pages :
              /\ [NoFetch EXCEPT !.what = "page", !.index = i] \in Fetch
              /\ [NoFetch EXCEPT !.what = "page", !.index = i].what = "page"
              /\ [NoFetch EXCEPT !.what = "page", !.index = i].index = i
         /\ \A f \in Wheel :
              /\ [NoFetch EXCEPT !.what = "wheel", !.file = f] \in Fetch
              /\ [NoFetch EXCEPT !.what = "wheel", !.file = f].what = "wheel"
              /\ [NoFetch EXCEPT !.what = "wheel", !.file = f].file = f
<1>1. DOMAIN world.pages = 1..Len(world.pages) /\ Len(world.pages) \in Nat
  BY WorldType
<1>2. NoFetch \in Fetch /\ NoFetch.what = "none"
  BY <1>1 DEF NoFetch, Fetch, MaxRetries
<1>3. ASSUME NEW i \in DOMAIN world.pages
      PROVE  /\ [NoFetch EXCEPT !.what = "page", !.index = i] \in Fetch
             /\ [NoFetch EXCEPT !.what = "page", !.index = i].what = "page"
             /\ [NoFetch EXCEPT !.what = "page", !.index = i].index = i
  <2>1. i \in 0..Len(world.pages)
    BY <1>1
  <2> QED
    BY <1>2, <2>1 DEF Fetch
<1>4. ASSUME NEW f \in Wheel
      PROVE  /\ [NoFetch EXCEPT !.what = "wheel", !.file = f] \in Fetch
             /\ [NoFetch EXCEPT !.what = "wheel", !.file = f].what = "wheel"
             /\ [NoFetch EXCEPT !.what = "wheel", !.file = f].file = f
  BY <1>2 DEF Fetch
<1> QED
  BY <1>2, <1>3, <1>4

LEMMA InitType == Init => TypeInv
<1> SUFFICES ASSUME Init PROVE TypeInv
  OBVIOUS
<1> USE ResolverAssumption DEF ResolverAssumption
<1>1. world \in World
  BY DEF Init
<1>2. cache \in [Name -> MaybePage] /\ \A n \in Name : cache[n] = NoPage
  BY DEF Init, MaybePage
<1>3. resolved \in Choice /\ queue \in Seq(Requirement)
  BY DEF Init, NothingResolved, Choice
<1>4. Len(world.pages) \in Nat
  BY <1>1 DEF World
<1>5. fetch = NoFetch /\ fetch \in Fetch /\ fetch.what = "none"
  BY <1>4 DEF Init, NoFetch, Fetch, MaxRetries
<1>6. status = "idle" /\ results \subseteq Choice /\ rounds = 0
  BY DEF Init
<1>7. rounds \in 0..MaxRounds
  BY <1>6
<1>8. lossy \in BOOLEAN
  BY DEF Init
<1> QED
  BY <1>1, <1>2, <1>3, <1>5, <1>6, <1>7, <1>8 DEF TypeInv, TypeOK, FetchInv

(* A resolution that begins.                                               *)
LEMMA BeginType ==
  ASSUME TypeInv, NEW reqs, Begin(reqs)
  PROVE  TypeInv'
<1> USE DEF TypeInv
<1>1. reqs \in Seq(Requirement)
  BY WorldType, OrdersSame DEF Begin
<1>2. fetch = NoFetch
  BY DEF TypeOK, Begin
<1>3. resolved' \in Choice
  BY DEF Begin, NothingResolved, Choice
<1>4. rounds' \in 0..MaxRounds
  BY ResolverAssumption DEF ResolverAssumption, Begin, TypeOK
<1>5. Fetch' = Fetch
  BY DEF Begin, Fetch
<1>6. TypeOK'
  BY <1>1, <1>2, <1>3, <1>4, <1>5 DEF TypeOK, Begin
<1>7. FetchInv'
  BY <1>2 DEF FetchInv, Begin, NoFetch
<1> QED
  BY <1>6, <1>7

(* What leaves the types of everything but the named parts alone.          *)
LEMMA ExpireType ==
  ASSUME TypeInv, NEW n \in Name, Expire(n)
  PROVE  TypeInv'
<1> USE DEF TypeInv
<1>1. Fetch' = Fetch
  BY DEF Expire, Fetch
<1>2. cache' \in [Name -> MaybePage]
  BY DEF Expire, TypeOK, MaybePage
<1>3. \A m \in Name : cache'[m] = NoPage \/ cache'[m] = cache[m]
  BY DEF Expire, TypeOK
<1>4. TypeOK'
  BY <1>1, <1>2, <1>3 DEF TypeOK, Expire
<1>5. FetchInv'
  BY DEF FetchInv, Expire, Immutable, First
<1> QED
  BY <1>4, <1>5

(* The resolution fails.                                                   *)
LEMMA FailType ==
  ASSUME TypeInv, Fail, lossy' \in BOOLEAN
  PROVE  TypeInv'
<1> USE DEF TypeInv
<1>1. Fetch' = Fetch
  BY DEF Fail, Fetch
<1>2. fetch' = NoFetch /\ fetch' \in Fetch /\ fetch'.what = "none"
  BY FetchType DEF Fail
<1>3. TypeOK'
  BY <1>1, <1>2 DEF TypeOK, Fail
<1>4. FetchInv'
  BY <1>2 DEF FetchInv
<1> QED
  BY <1>3, <1>4

(* The first requirement is done with: a name may be resolved, and there   *)
(* may be more requirements.                                               *)
LEMMA DequeueType ==
  ASSUME TypeInv, queue # <<>>, resolved' \in Choice, NEW deps \in Seq(Requirement),
         queue' = Tail(queue) \o deps, fetch' = NoFetch, lossy' \in BOOLEAN,
         UNCHANGED <<world, cache, status, results, rounds>>
  PROVE  TypeInv'
<1> USE DEF TypeInv
<1>1. Fetch' = Fetch
  BY DEF Fetch
<1>2. fetch' \in Fetch /\ fetch'.what = "none"
  BY FetchType
<1>3. queue' \in Seq(Requirement)
  BY FirstType
<1>4. TypeOK'
  BY <1>1, <1>2, <1>3 DEF TypeOK
<1>5. FetchInv'
  BY <1>2 DEF FetchInv
<1> QED
  BY <1>4, <1>5

(* The pinned version of a name, as a wheel.                               *)
LEMMA PinIsWheel ==
  ASSUME TypeOK, NEW n \in Name, NEW ver \in ToSet(Immutable(n))
  PROVE  [ver |-> ver, tags |-> {}, pure |-> TRUE, yanked |-> FALSE,
          deps |-> <<>>] \in Wheel
<1>1. Immutable(n) \in Seq(Version)
  BY WorldType DEF Immutable, AtMostOne
<1>2. ver \in Version
  BY <1>1 DEF ToSet
<1> QED
  BY <1>2 DEF Wheel

(* A wheel may lose its dependencies.                                      *)
LEMMA SettleIsWheel ==
  ASSUME NEW f \in Wheel, NEW deps \in Seq(Requirement)
  PROVE  /\ [f EXCEPT !.deps = deps] \in Wheel
         /\ [f EXCEPT !.deps = deps].ver = f.ver
         /\ [f EXCEPT !.deps = deps].deps = deps
  BY DEF Wheel

LEMMA ResolveType ==
  ASSUME TypeOK, NEW n \in Name, NEW f \in Wheel
  PROVE  [resolved EXCEPT ![n] = f] \in Choice
  BY DEF TypeOK, Choice

(* An empty sequence at the end changes nothing.                           *)
LEMMA TailAlone ==
  ASSUME TypeOK, queue # <<>>
  PROVE  Tail(queue) = Tail(queue) \o <<>>
  BY FirstType

(* The step at which something is fetched.                                 *)
LEMMA FetchStepType ==
  ASSUME TypeInv, status = "running", queue # <<>>, fetch' \in Fetch,
         resolved[First.name] = NoFile,
         UNCHANGED <<world, cache, queue, resolved, status, results, rounds>>,
         lossy' \in BOOLEAN, FetchInv'
  PROVE  TypeInv'
<1> USE DEF TypeInv
<1>1. Fetch' = Fetch
  BY DEF Fetch
<1>2. TypeOK'
  BY <1>1 DEF TypeOK, First
<1> QED
  BY <1>2

(* What is under way is for the head of the queue of a running resolution. *)
LEMMA Fetching ==
  ASSUME TypeInv, fetch.what # "none"
  PROVE  /\ status = "running" /\ queue # <<>> /\ First.name \in Name
         /\ resolved[First.name] = NoFile
<1>1. fetch # NoFetch
  BY FetchType DEF TypeInv
<1> QED
  BY <1>1, FirstType DEF TypeInv, TypeOK, FetchInv, First

LEMMA LossyType ==
  ASSUME TypeOK
  PROVE  lossy \in BOOLEAN /\ (UNCHANGED lossy => lossy' \in BOOLEAN)
  BY DEF TypeOK

LEMMA AskType ==
  ASSUME TypeInv, Ask
  PROVE  TypeInv'
<1>1. 1 \in DOMAIN world.pages
  BY WorldType DEF TypeInv
<1>2. /\ status = "running" /\ queue # <<>> /\ resolved[First.name] = NoFile
      /\ UNCHANGED <<world, cache, queue, resolved, status, results, rounds>>
  BY DEF Ask, Unpinned, Working
<1>3. fetch' \in Fetch /\ fetch'.what = "page" /\ fetch'.index = 1
  BY <1>1, FetchType DEF Ask, TypeInv
<1>4. FetchInv'
  BY <1>1, <1>2, <1>3 DEF FetchInv
<1>5. lossy' \in BOOLEAN
  BY LossyType DEF Ask, TypeInv
<1> QED
  BY <1>2, <1>3, <1>4, <1>5, FetchStepType

LEMMA AnswerType ==
  ASSUME TypeInv, Answer
  PROVE  TypeInv'
<1> USE DEF TypeInv
<1>1. First.name \in Name /\ fetch.index \in DOMAIN world.pages
  BY Fetching DEF Answer, FetchInv
<1>2. /\ Asked = world.pages[fetch.index][First.name]
      /\ Asked \in MaybePage
  BY <1>1, WorldType DEF Asked
<1>3. /\ cache' = [cache EXCEPT ![First.name] = Asked] /\ fetch' = NoFetch
      /\ UNCHANGED <<world, queue, resolved, status, lossy, results, rounds>>
  BY DEF Answer, WriteCache
<1>4. cache' \in [Name -> MaybePage]
  BY <1>2, <1>3 DEF TypeOK
<1>5. \A n \in Name : cache'[n] = NoPage
        \/ \E i \in DOMAIN world.pages : cache'[n] = world.pages[i][n]
  <2>1. TAKE n \in Name
  <2>2. CASE n = First.name
    BY <1>1, <1>2, <1>3, <2>2 DEF TypeOK
  <2>3. CASE n # First.name
    BY <1>3, <2>3 DEF TypeOK
  <2> QED
    BY <2>2, <2>3
<1>6. Fetch' = Fetch
  BY <1>3 DEF Fetch
<1>7. fetch' \in Fetch /\ fetch'.what = "none"
  BY <1>3, FetchType
<1>8. TypeOK'
  BY <1>3, <1>4, <1>5, <1>6, <1>7 DEF TypeOK
<1>9. FetchInv'
  BY <1>3, <1>7 DEF FetchInv
<1> QED
  BY <1>8, <1>9

LEMMA RetryType ==
  ASSUME TypeInv, Retry
  PROVE  TypeInv'
<1>1. /\ fetch.what # "none" /\ fetch' = [fetch EXCEPT !.attempt = @ + 1]
      /\ UNCHANGED <<world, cache, queue, resolved, status, results, rounds>>
      /\ lossy' \in BOOLEAN
  BY LossyType DEF Retry, TypeInv
<1>2. fetch \in Fetch
  BY DEF TypeInv, TypeOK
<1>3. fetch.attempt + 1 \in 0..MaxRetries
  BY <1>2 DEF Retry, Fetch, MaxRetries
<1>4. /\ fetch' \in Fetch /\ fetch'.what = fetch.what
      /\ fetch'.index = fetch.index /\ fetch'.file = fetch.file
  BY <1>1, <1>2, <1>3 DEF Fetch
<1>5. FetchInv'
  BY <1>1, <1>4 DEF TypeInv, FetchInv, Immutable, First
<1> QED
  BY <1>1, <1>4, <1>5, Fetching, FetchStepType

LEMMA TryNextType ==
  ASSUME TypeInv, TryNext
  PROVE  TypeInv'
<1>1. lossy' \in BOOLEAN
  BY LossyType DEF TryNext, TypeInv
<1>2. CASE fetch.index < Len(world.pages)
  <2>1. /\ fetch.what = "page"
        /\ fetch' = [NoFetch EXCEPT !.what = "page", !.index = fetch.index + 1]
        /\ UNCHANGED <<world, cache, queue, resolved, status, results, rounds>>
    BY <1>2 DEF TryNext
  <2>2. fetch.index + 1 \in DOMAIN world.pages
    BY <1>2, <2>1, WorldType DEF TypeInv, FetchInv
  <2>3. /\ fetch' \in Fetch /\ fetch'.what = "page"
        /\ fetch'.index = fetch.index + 1
    BY <2>1, <2>2, FetchType DEF TypeInv
  <2>4. FetchInv'
    BY <2>1, <2>2, <2>3 DEF TypeInv, FetchInv
  <2> QED
    BY <1>1, <2>1, <2>3, <2>4, Fetching, FetchStepType
<1>3. CASE ~ (fetch.index < Len(world.pages))
  BY <1>1, <1>3, FailType DEF TryNext
<1> QED
  BY <1>2, <1>3

(* The wheel that is fetched is one of the page in the cache.              *)
LEMMA PickType ==
  ASSUME TypeInv, Pick
  PROVE  TypeInv'
<1> DEFINE files == BestFiles(WheelsOn[cache[First.name]], First.specs)
<1>1. lossy' \in BOOLEAN
  BY LossyType DEF Pick, TypeInv
<1>2. CASE files = {}
  BY <1>1, <1>2, FailType DEF Pick
<1>3. CASE files # {}
  <2>1. PICK f \in FirstSorted(files) :
          /\ fetch' = [NoFetch EXCEPT !.what = "wheel", !.file = f]
          /\ UNCHANGED <<world, cache, queue, resolved, status, lossy, results, rounds>>
    BY <1>3 DEF Pick
  <2>2. /\ status = "running" /\ queue # <<>> /\ resolved[First.name] = NoFile
        /\ Immutable(First.name) = <<>> /\ cache[First.name] # NoPage
    BY DEF Pick, Unpinned, Working
  <2>3. cache[First.name] \in DOMAIN Pages
    BY <2>2, FirstType DEF TypeInv, TypeOK, MaybePage
  <2>4. WheelsOn[cache[First.name]] \in Seq(Wheel)
    BY <2>3, WheelsOnType
  <2>5. f \in Wheel /\ Admits(First.specs, f.ver)
    BY <1>3, <2>1, <2>4, FirstSortedFits
  <2>6. fetch' \in Fetch /\ fetch'.what = "wheel" /\ fetch'.file = f
    BY <2>1, <2>5, FetchType DEF TypeInv
  <2>7. UNCHANGED <<Immutable(First.name), First>>
    BY <2>1 DEF Immutable, First
  <2>8. FetchInv'
    BY <2>1, <2>2, <2>5, <2>6, <2>7 DEF FetchInv
  <2> QED
    BY <1>1, <2>1, <2>2, <2>6, <2>8, FetchStepType
<1> QED
  BY <1>2, <1>3

LEMMA SettleType ==
  ASSUME TypeInv, NEW deps \in Seq(Requirement), fetch.what = "wheel",
         Settle(deps), lossy' \in BOOLEAN
  PROVE  TypeInv'
<1>1. [fetch.file EXCEPT !.deps = deps] \in Wheel
  BY SettleIsWheel DEF TypeInv, FetchInv
<1>2. resolved' \in Choice /\ queue # <<>>
  BY <1>1, ResolveType, Fetching DEF Settle, TypeInv
<1> QED
  BY <1>2, DequeueType DEF Settle

LEMMA UsePinType ==
  ASSUME TypeInv, UsePin
  PROVE  TypeInv'
<1>1. PICK ver \in ToSet(Immutable(First.name)) :
        IF Admits(First.specs, ver)
        THEN /\ resolved' = [resolved EXCEPT ![First.name] =
                  [ver |-> ver, tags |-> {}, pure |-> TRUE, yanked |-> FALSE,
                   deps |-> <<>>]]
             /\ queue' = Tail(queue)
             /\ UNCHANGED <<world, cache, fetch, status, lossy, results, rounds>>
        ELSE Fail /\ UNCHANGED lossy
  BY DEF UsePin
<1>2. lossy' \in BOOLEAN /\ queue # <<>> /\ fetch = NoFetch
  BY <1>1, LossyType DEF UsePin, Working, TypeInv
<1>3. CASE Admits(First.specs, ver)
  <2>1. resolved' \in Choice
    BY <1>1, <1>2, <1>3, PinIsWheel, FirstType, ResolveType DEF TypeInv
  <2>2. queue' = Tail(queue) \o <<>> /\ <<>> \in Seq(Requirement)
    BY <1>1, <1>2, <1>3, TailAlone DEF TypeInv
  <2> QED
    BY <1>1, <1>2, <1>3, <2>1, <2>2, DequeueType
<1>4. CASE ~Admits(First.specs, ver)
  BY <1>1, <1>2, <1>4, FailType
<1> QED
  BY <1>3, <1>4

LEMMA CheckAgainType ==
  ASSUME TypeInv, CheckAgain
  PROVE  TypeInv'
<1>1. /\ queue # <<>> /\ fetch' = NoFetch /\ resolved' \in Choice
      /\ lossy' \in BOOLEAN
      /\ UNCHANGED <<world, cache, status, results, rounds>>
  BY LossyType DEF CheckAgain, Working, TypeInv, TypeOK
<1>2. queue' = Tail(queue) \o <<>> /\ <<>> \in Seq(Requirement)
  BY <1>1, TailAlone DEF CheckAgain, TypeInv
<1> QED
  BY <1>1, <1>2, DequeueType

LEMMA FinishType ==
  ASSUME TypeInv, Finish
  PROVE  TypeInv'
<1> USE DEF TypeInv
<1>1. fetch = NoFetch /\ fetch.what = "none"
  BY FetchType DEF Finish, FetchInv
<1>2. /\ status' = "done" /\ results' \subseteq Choice
      /\ UNCHANGED <<world, cache, fetch, queue, resolved, lossy, rounds>>
  BY DEF Finish, TypeOK
<1>3. Fetch' = Fetch
  BY <1>2 DEF Fetch
<1>4. TypeOK'
  BY <1>1, <1>2, <1>3 DEF TypeOK
<1>5. FetchInv'
  BY <1>1, <1>2 DEF FetchInv
<1> QED
  BY <1>4, <1>5

LEMMA TypeNext ==
  ASSUME TypeInv, [Next]_vars
  PROVE  TypeInv'
<1>1. ASSUME NEW reqs \in Orders(world.reqs), Begin(reqs) PROVE TypeInv'
  BY <1>1, BeginType
<1>2. ASSUME NEW n \in Name, Expire(n) PROVE TypeInv'
  BY <1>2, ExpireType
<1>3. CASE Retry
  BY <1>3, RetryType
<1>4. CASE TryNext
  BY <1>4, TryNextType
<1>5. CASE LoseMetadata
  <2>1. <<>> \in Seq(Requirement) /\ lossy' \in BOOLEAN
    BY <1>5 DEF LoseMetadata
  <2> QED
    BY <1>5, <2>1, SettleType DEF LoseMetadata
<1>6. CASE Ask
  BY <1>6, AskType
<1>7. CASE Answer
  BY <1>7, AnswerType
<1>8. CASE CheckAgain
  BY <1>8, CheckAgainType
<1>9. CASE Conflict
  BY <1>9, FailType, LossyType DEF Conflict, TypeInv
<1>10. CASE UsePin
  BY <1>10, UsePinType
<1>11. CASE Finish
  BY <1>11, FinishType
<1>12. CASE Pick
  BY <1>12, PickType
<1>13. CASE ReadMetadata
  <2>1. fetch.file \in Wheel /\ fetch.file.deps \in Seq(Requirement)
    BY <1>13 DEF ReadMetadata, TypeInv, FetchInv, Wheel
  <2> QED
    BY <1>13, <2>1, SettleType, LossyType DEF ReadMetadata, TypeInv
<1>14. CASE UNCHANGED vars
  BY <1>14 DEF vars, TypeInv, TypeOK, FetchInv, Fetch, First, Immutable
<1> QED
  BY <1>1, <1>2, <1>3, <1>4, <1>5, <1>6, <1>7, <1>8, <1>9, <1>10, <1>11, <1>12,
     <1>13, <1>14 DEF Next, Work

LEMMA TypeInvariant == Spec => []TypeInv
BY InitType, TypeNext, PTL DEF Spec

(* The registry client and the resolver keep their types: a request is     *)
(* open only for the first requirement of a running resolution, with an    *)
(* index that is configured and an attempt that is left, and what is       *)
(* cached for a project is a page of one of the indexes.                   *)
THEOREM ResolverTypeCorrect == Spec => []TypeOK
<1>1. TypeInv => TypeOK
  BY DEF TypeInv
<1> QED
  BY <1>1, TypeInvariant, PTL

---------------------------------------------------------------------------
(* What a resolution has found out                                         *)

LEMMA ConcatSet ==
  ASSUME NEW S, NEW s \in Seq(S), NEW t \in Seq(S)
  PROVE  ToSet(s \o t) = ToSet(s) \cup ToSet(t)
<1>1. /\ Len(s) \in Nat /\ Len(t) \in Nat /\ Len(s \o t) = Len(s) + Len(t)
      /\ DOMAIN s = 1..Len(s) /\ DOMAIN t = 1..Len(t)
      /\ DOMAIN (s \o t) = 1..(Len(s) + Len(t))
  OBVIOUS
<1>2. \A i \in DOMAIN s : i \in DOMAIN (s \o t) /\ (s \o t)[i] = s[i]
  BY <1>1
<1>3. \A i \in DOMAIN t : /\ Len(s) + i \in DOMAIN (s \o t)
                          /\ (s \o t)[Len(s) + i] = t[i]
  BY <1>1
<1>4. ASSUME NEW i \in DOMAIN (s \o t), i \notin DOMAIN s
      PROVE  i - Len(s) \in DOMAIN t /\ (s \o t)[i] = t[i - Len(s)]
  BY <1>1, <1>4
<1>5. ToSet(s \o t) \subseteq ToSet(s) \cup ToSet(t)
  BY <1>2, <1>4 DEF ToSet
<1>6. ToSet(s) \subseteq ToSet(s \o t)
  BY <1>2 DEF ToSet
<1>7. ToSet(t) \subseteq ToSet(s \o t)
  BY <1>3 DEF ToSet
<1> QED
  BY <1>5, <1>6, <1>7

LEMMA HeadOrTail ==
  ASSUME NEW S, NEW s \in Seq(S), s # <<>>, NEW x \in ToSet(s)
  PROVE  x = Head(s) \/ x \in ToSet(Tail(s))
<1>1. PICK i \in 1..Len(s) : x = s[i]
  BY DEF ToSet
<1>2. /\ Len(s) \in Nat /\ Len(Tail(s)) = Len(s) - 1
      /\ DOMAIN Tail(s) = 1..(Len(s) - 1)
  OBVIOUS
<1>3. CASE i = 1
  BY <1>1, <1>3
<1>4. CASE i # 1
  <2>1. i - 1 \in 1..(Len(s) - 1)
    BY <1>1, <1>2, <1>4
  <2>2. Tail(s)[i - 1] = s[i]
    BY <1>1, <1>2, <2>1
  <2> QED
    BY <1>1, <1>2, <2>1, <2>2 DEF ToSet
<1> QED
  BY <1>3, <1>4

LEMMA TailInside ==
  ASSUME NEW S, NEW s \in Seq(S), s # <<>>, NEW x \in ToSet(Tail(s))
  PROVE  x \in ToSet(s)
<1>1. PICK i \in DOMAIN Tail(s) : x = Tail(s)[i]
  BY DEF ToSet
<1>2. i \in 1..(Len(s) - 1) /\ Len(s) \in Nat
  OBVIOUS
<1>3. i + 1 \in 1..Len(s) /\ Tail(s)[i] = s[i + 1]
  BY <1>2
<1> QED
  BY <1>1, <1>3 DEF ToSet

LEMMA HeadInside ==
  ASSUME NEW S, NEW s \in Seq(S), s # <<>>
  PROVE  Head(s) \in ToSet(s)
<1>1. 1 \in DOMAIN s /\ Head(s) = s[1]
  OBVIOUS
<1> QED
  BY <1>1 DEF ToSet

(* Who asks for a requirement.                                             *)
LEMMA AskedBy ==
  ASSUME NEW f, NEW r
  PROVE  r \in Requirements(f) <=>
           \/ r \in ToSet(world.reqs)
           \/ \E n \in Name : f[n] # NoFile /\ r \in ToSet(f[n].deps)
  BY DEF Requirements

(* A requirement that is not in the queue any more is met.                 *)
RequirementsMet ==
  \A r \in Requirements(resolved) :
    \/ r \in ToSet(queue)
    \/ resolved[r.name] # NoFile /\ Admits(r.specs, resolved[r.name].ver)

PinsKept ==
  \A n \in Chosen : \A ver \in ToSet(Immutable(n)) : resolved[n].ver = ver

(* What is asked for, with what is asked for by what is chosen of it.      *)
Closed(S) ==
  /\ \A r \in ToSet(world.reqs) : r.name \in S
  /\ \A n \in S \cap Chosen : \A r \in ToSet(resolved[n].deps) : r.name \in S

(* All that is chosen or in the queue is needed.                           *)
OnlyNeeded ==
  \A S \in SUBSET Name :
    Closed(S) => Chosen \subseteq S /\ \A r \in ToSet(queue) : r.name \in S

Sound == RequirementsMet /\ PinsKept /\ OnlyNeeded

ResolveInv ==
  /\ status \in {"running", "done"} => Sound
  /\ status = "done" => queue = <<>>

(* Nothing changes for what is sound but the requests.                     *)
LEMMA SoundStays ==
  ASSUME Sound, UNCHANGED <<world, queue, resolved>>
  PROVE  Sound'
<1>1. Requirements(resolved)' = Requirements(resolved) /\ Chosen' = Chosen
  BY DEF Requirements, Chosen
<1>2. RequirementsMet'
  BY <1>1 DEF Sound, RequirementsMet
<1>3. PinsKept'
  BY <1>1 DEF Sound, PinsKept, Immutable
<1>4. \A S : Closed(S)' = Closed(S)
  BY <1>1 DEF Closed
<1>5. OnlyNeeded'
  BY <1>1, <1>4 DEF Sound, OnlyNeeded
<1> QED
  BY <1>2, <1>3, <1>5 DEF Sound

(* A resolution begins soundly: all it knows is what it is asked for.      *)
LEMMA SoundBegins ==
  ASSUME TypeOK, NEW reqs, Begin(reqs)
  PROVE  Sound'
<1>1. ToSet(queue') = ToSet(world.reqs) /\ world' = world
  BY WorldType, OrdersSame DEF Begin
<1>2. \A n \in Name : resolved'[n] = NoFile
  BY DEF Begin, NothingResolved
<1>3. Chosen' = {}
  BY <1>2 DEF Chosen
<1>4. RequirementsMet'
  BY <1>1, <1>2 DEF RequirementsMet, Requirements
<1>5. PinsKept'
  BY <1>3 DEF PinsKept
<1>6. OnlyNeeded'
  BY <1>1, <1>3 DEF OnlyNeeded, Closed
<1> QED
  BY <1>4, <1>5, <1>6 DEF Sound

(* A resolved name that satisfies the first requirement too.               *)
LEMMA SoundCheck ==
  ASSUME TypeOK, Sound, CheckAgain
  PROVE  Sound'
<1>1. /\ queue # <<>> /\ queue \in Seq(Requirement) /\ queue' = Tail(queue)
      /\ resolved' = resolved /\ world' = world
      /\ resolved[First.name] # NoFile
      /\ Admits(First.specs, resolved[First.name].ver)
  BY DEF TypeOK, CheckAgain, Working
<1>2. \A r \in ToSet(queue) : r = First \/ r \in ToSet(queue')
  BY <1>1, HeadOrTail DEF First
<1>3. \A r \in ToSet(queue') : r \in ToSet(queue)
  BY <1>1, TailInside
<1>4. Requirements(resolved)' = Requirements(resolved) /\ Chosen' = Chosen
  BY <1>1 DEF Requirements, Chosen
<1>5. RequirementsMet'
  BY <1>1, <1>2, <1>4 DEF Sound, RequirementsMet
<1>6. PinsKept'
  BY <1>1, <1>4 DEF Sound, PinsKept, Immutable
<1>7. \A S : Closed(S)' = Closed(S)
  BY <1>1, <1>4 DEF Closed
<1>8. OnlyNeeded'
  BY <1>3, <1>4, <1>7 DEF Sound, OnlyNeeded
<1> QED
  BY <1>5, <1>6, <1>8 DEF Sound

(* A name is resolved to a file that satisfies the first requirement and   *)
(* keeps the pin, and the dependencies of the file go to the queue.        *)
LEMMA SoundResolves ==
  ASSUME TypeOK, Sound, queue # <<>>, resolved[First.name] = NoFile,
         NEW f \in Wheel, Admits(First.specs, f.ver),
         \A ver \in ToSet(Immutable(First.name)) : f.ver = ver,
         resolved' = [resolved EXCEPT ![First.name] = f],
         queue' = Tail(queue) \o f.deps, world' = world
  PROVE  Sound'
<1> DEFINE n == First.name
<1>1. /\ n \in Name /\ Tail(queue) \in Seq(Requirement)
      /\ f.deps \in Seq(Requirement) /\ f # NoFile
      /\ queue \in Seq(Requirement)
  BY FirstType, ResolverAssumption DEF Wheel, ResolverAssumption, TypeOK
<1>2. /\ resolved'[n] = f
      /\ \A m \in Name : m # n => resolved'[m] = resolved[m]
  BY <1>1 DEF TypeOK, Choice
<1>3. ToSet(queue') = ToSet(Tail(queue)) \cup ToSet(f.deps)
  <2>1. \A s, t \in Seq(Requirement) : ToSet(s \o t) = ToSet(s) \cup ToSet(t)
    BY ConcatSet
  <2>2. ToSet(Tail(queue) \o f.deps) = ToSet(Tail(queue)) \cup ToSet(f.deps)
    BY <1>1, <2>1
  <2> QED
    BY <2>2
<1>4. \A r \in ToSet(queue) : r = First \/ r \in ToSet(queue')
  BY <1>1, <1>3, HeadOrTail DEF First
<1>5. \A r \in ToSet(queue') : r \in ToSet(queue) \/ r \in ToSet(f.deps)
  BY <1>1, <1>3, TailInside
<1>6. First \in ToSet(queue)
  BY <1>1, HeadInside DEF First
<1>7. /\ Chosen' = Chosen \cup {n} /\ n \notin Chosen
      /\ \A m \in Chosen : resolved'[m] = resolved[m]
  BY <1>1, <1>2 DEF Chosen
<1>8. RequirementsMet'
  <2>1. SUFFICES ASSUME NEW r \in Requirements(resolved)', r \notin ToSet(queue')
                 PROVE  /\ resolved'[r.name] # NoFile
                        /\ Admits(r.specs, resolved'[r.name].ver)
    BY DEF RequirementsMet
  <2>2. r \in Requirements(resolved)
    <3>1. \/ r \in ToSet(world.reqs)
          \/ \E m \in Name : resolved'[m] # NoFile /\ r \in ToSet(resolved'[m].deps)
      BY <2>1 DEF Requirements
    <3>2. r \notin ToSet(f.deps)
      BY <1>3, <2>1
    <3>3. ASSUME NEW m \in Name, resolved'[m] # NoFile, r \in ToSet(resolved'[m].deps)
          PROVE  resolved[m] # NoFile /\ r \in ToSet(resolved[m].deps)
      BY <1>2, <3>2, <3>3
    <3> QED
      BY <3>1, <3>3, AskedBy
  <2>3. CASE r = First
    BY <1>1, <1>2, <2>3
  <2>4. CASE r # First
    <3>1. resolved[r.name] # NoFile /\ Admits(r.specs, resolved[r.name].ver)
      BY <1>4, <2>1, <2>2, <2>4 DEF Sound, RequirementsMet
    <3>2. r \in Requirement
      <4>1. world.reqs \in Seq(Requirement)
        BY WorldType
      <4>2. \A m \in Name : resolved[m] # NoFile => resolved[m] \in Wheel
        BY DEF TypeOK, Choice
      <4>3. \A m \in Name : resolved[m] # NoFile => resolved[m].deps \in Seq(Requirement)
        BY <4>2 DEF Wheel
      <4> QED
        BY <2>2, <4>1, <4>3, AskedBy DEF ToSet
    <3>3. r.name \in Name
      BY <3>2 DEF Requirement
    <3> QED
      BY <1>2, <3>1, <3>3
  <2> QED
    BY <2>3, <2>4
<1>9. PinsKept'
  <2>1. ASSUME NEW m \in Chosen', NEW ver \in ToSet(Immutable(m))
        PROVE  resolved'[m].ver = ver
    <3>1. CASE m = n
      BY <1>2, <2>1, <3>1
    <3>2. CASE m # n
      BY <1>7, <2>1, <3>2 DEF Sound, PinsKept
    <3> QED
      BY <3>1, <3>2
  <2>2. \A m : Immutable(m)' = Immutable(m)
    BY DEF Immutable
  <2> QED
    BY <2>1, <2>2 DEF PinsKept
<1>10. OnlyNeeded'
  <2>1. SUFFICES ASSUME NEW S \in SUBSET Name, Closed(S)'
                 PROVE  /\ Chosen' \subseteq S
                        /\ \A r \in ToSet(queue') : r.name \in S
    BY DEF OnlyNeeded
  <2>2. /\ \A r \in ToSet(world.reqs) : r.name \in S
        /\ \A m \in S \cap Chosen' : \A r \in ToSet(resolved'[m].deps) : r.name \in S
    BY <2>1 DEF Closed
  <2>3. Closed(S)
    BY <1>7, <2>2 DEF Closed
  <2>4. Chosen \subseteq S /\ \A r \in ToSet(queue) : r.name \in S
    BY <2>3 DEF Sound, OnlyNeeded
  <2>5. n \in S
    BY <1>6, <2>4
  <2>6. \A r \in ToSet(f.deps) : r.name \in S
    BY <1>2, <1>7, <2>2, <2>5
  <2> QED
    BY <1>5, <1>7, <2>4, <2>5, <2>6
<1> QED
  BY <1>8, <1>9, <1>10 DEF Sound

(* The pin of a name is one version.                                       *)
LEMMA OnePin ==
  ASSUME TypeOK, NEW n \in Name, NEW v \in ToSet(Immutable(n)),
         NEW w \in ToSet(Immutable(n))
  PROVE  v = w
<1>1. Immutable(n) \in Seq(Version) /\ Len(Immutable(n)) <= 1
  BY WorldType DEF Immutable, AtMostOne
<1>2. Len(Immutable(n)) \in Nat /\ DOMAIN Immutable(n) = 1..Len(Immutable(n))
  BY <1>1
<1>3. \A i, j \in DOMAIN Immutable(n) : i = j
  BY <1>1, <1>2
<1> QED
  BY <1>3 DEF ToSet

LEMMA SoundPin ==
  ASSUME TypeOK, Sound, UsePin, UNCHANGED status
  PROVE  Sound'
<1>1. PICK ver \in ToSet(Immutable(First.name)) :
        IF Admits(First.specs, ver)
        THEN /\ resolved' = [resolved EXCEPT ![First.name] =
                  [ver |-> ver, tags |-> {}, pure |-> TRUE, yanked |-> FALSE,
                   deps |-> <<>>]]
             /\ queue' = Tail(queue)
             /\ UNCHANGED <<world, cache, fetch, status, lossy, results, rounds>>
        ELSE Fail /\ UNCHANGED lossy
  BY DEF UsePin
<1>2. /\ queue # <<>> /\ status = "running" /\ resolved[First.name] = NoFile
      /\ First.name \in Name
  BY FirstType DEF UsePin, Working
<1>3. Admits(First.specs, ver)
  BY <1>1, <1>2 DEF Fail
<1> DEFINE f == [ver |-> ver, tags |-> {}, pure |-> TRUE, yanked |-> FALSE,
                 deps |-> <<>>]
<1>4. f \in Wheel /\ f.ver = ver /\ f.deps = <<>>
  BY <1>2, PinIsWheel
<1>5. \A w \in ToSet(Immutable(First.name)) : f.ver = w
  BY <1>2, <1>4, OnePin
<1>6. queue' = Tail(queue) \o f.deps
  BY <1>1, <1>2, <1>3, <1>4, TailAlone
<1>7. resolved' = [resolved EXCEPT ![First.name] = f] /\ world' = world
  BY <1>1, <1>3
<1> HIDE DEF f
<1> QED
  BY <1>2, <1>3, <1>4, <1>5, <1>6, <1>7, SoundResolves

LEMMA SoundSettle ==
  ASSUME TypeInv, Sound, NEW deps \in Seq(Requirement), fetch.what = "wheel",
         Settle(deps)
  PROVE  Sound'
<1> DEFINE f == [fetch.file EXCEPT !.deps = deps]
<1>1. /\ fetch.file \in Wheel /\ Admits(First.specs, fetch.file.ver)
      /\ Immutable(First.name) = <<>>
  BY DEF TypeInv, FetchInv
<1>2. f \in Wheel /\ f.ver = fetch.file.ver /\ f.deps = deps
  BY <1>1, SettleIsWheel
<1>3. ToSet(Immutable(First.name)) = {}
  BY <1>1 DEF ToSet
<1>4. /\ resolved' = [resolved EXCEPT ![First.name] = f]
      /\ queue' = Tail(queue) \o f.deps /\ world' = world
  BY <1>2 DEF Settle
<1>5. queue # <<>> /\ resolved[First.name] = NoFile
  BY Fetching
<1> HIDE DEF f
<1>6. Admits(First.specs, f.ver)
  BY <1>1, <1>2
<1> QED
  BY <1>2, <1>3, <1>4, <1>5, <1>6, SoundResolves DEF TypeInv

LEMMA ResolveNext ==
  ASSUME TypeInv, ResolveInv, [Next]_vars
  PROVE  ResolveInv'
<1>1. ASSUME NEW reqs \in Orders(world.reqs), Begin(reqs) PROVE ResolveInv'
  <2>1. Sound' /\ status' = "running"
    BY <1>1, SoundBegins DEF Begin, TypeInv
  <2> QED
    BY <2>1 DEF ResolveInv
<1>2. ASSUME status' = status, UNCHANGED <<world, queue, resolved>>
      PROVE  ResolveInv'
  BY <1>2, SoundStays DEF ResolveInv
<1>3. CASE \E n \in Name : Expire(n)
  BY <1>2, <1>3 DEF Expire
<1>4. CASE Retry
  BY <1>2, <1>4 DEF Retry
<1>5. ASSUME status' = "failed" PROVE ResolveInv'
  BY <1>5 DEF ResolveInv
<1>6. CASE TryNext
  BY <1>2, <1>5, <1>6 DEF TryNext, Fail
<1>7. ASSUME NEW deps \in Seq(Requirement), fetch.what = "wheel", Settle(deps)
      PROVE  ResolveInv'
  <2>1. status = "running" /\ status' = status
    BY <1>7, Fetching DEF Settle
  <2>2. Sound'
    BY <1>7, <2>1, SoundSettle DEF ResolveInv
  <2> QED
    BY <2>1, <2>2 DEF ResolveInv
<1>8. CASE LoseMetadata
  <2>1. <<>> \in Seq(Requirement)
    OBVIOUS
  <2> QED
    BY <1>7, <1>8, <2>1 DEF LoseMetadata
<1>9. CASE ReadMetadata
  <2>1. fetch.file \in Wheel /\ fetch.file.deps \in Seq(Requirement)
    BY <1>9 DEF ReadMetadata, TypeInv, FetchInv, Wheel
  <2> QED
    BY <1>7, <1>9, <2>1 DEF ReadMetadata
<1>10. CASE Ask
  BY <1>2, <1>10 DEF Ask
<1>11. CASE Answer
  BY <1>2, <1>11 DEF Answer, WriteCache
<1>12. CASE CheckAgain
  <2>1. status = "running" /\ status' = status
    BY <1>12 DEF CheckAgain, Working
  <2>2. Sound'
    BY <1>12, <2>1, SoundCheck DEF ResolveInv, TypeInv
  <2> QED
    BY <2>1, <2>2 DEF ResolveInv
<1>13. CASE Conflict
  BY <1>5, <1>13 DEF Conflict, Fail
<1>14. CASE UsePin
  <2>1. status = "running" /\ (status' = status \/ status' = "failed")
    BY <1>14 DEF UsePin, Working, Fail
  <2>2. CASE status' = status
    <3>1. Sound'
      BY <1>14, <2>1, <2>2, SoundPin DEF ResolveInv, TypeInv
    <3> QED
      BY <2>1, <2>2, <3>1 DEF ResolveInv
  <2> QED
    BY <1>5, <2>1, <2>2
<1>15. CASE Finish
  <2>1. /\ status = "running" /\ queue = <<>>
        /\ UNCHANGED <<world, queue, resolved>>
    BY <1>15 DEF Finish
  <2>2. Sound'
    BY <2>1, SoundStays DEF ResolveInv
  <2> QED
    BY <2>1, <2>2 DEF ResolveInv
<1>16. CASE Pick
  BY <1>2, <1>5, <1>16 DEF Pick, Fail
<1>17. CASE UNCHANGED vars
  BY <1>2, <1>17 DEF vars
<1> QED
  BY <1>1, <1>3, <1>4, <1>6, <1>8, <1>9, <1>10, <1>11, <1>12, <1>13, <1>14, <1>15,
     <1>16, <1>17 DEF Next, Work

LEMMA ResolveInvariant == Spec => []ResolveInv
<1>1. Init => ResolveInv
  BY DEF Init, ResolveInv
<1> QED
  BY <1>1, TypeInvariant, ResolveNext, PTL DEF Spec

(* Where the files come from: what is fetched and what is chosen asks for  *)
(* what the METADATA of some index's wheel asks for.                       *)
ChosenPublished == \A n \in Chosen : Immutable(n) = <<>> => AsPublished(n)

PublishedInv ==
  /\ fetch.what = "wheel" => fetch.file \in Published(First.name)
  /\ ChosenPublished

(* Nothing is chosen, and nothing that was lost comes back.                *)
LEMMA PublishedStays ==
  ASSUME ChosenPublished, UNCHANGED <<world, resolved>>,
         lossy' = lossy \/ lossy' = TRUE
  PROVE  ChosenPublished'
  BY DEF ChosenPublished, Chosen, Immutable, AsPublished, Published

(* No wheel is asked for in this step.                                     *)
LEMMA NothingPublished ==
  ASSUME PublishedInv, UNCHANGED <<world, resolved>>,
         lossy' = lossy \/ lossy' = TRUE,
         fetch'.what # "wheel" \/ UNCHANGED <<fetch, queue>>
  PROVE  PublishedInv'
<1>1. ChosenPublished'
  BY PublishedStays DEF PublishedInv
<1>2. fetch'.what = "wheel" => fetch'.file \in Published(First.name)'
  BY DEF PublishedInv, Published, First
<1> QED
  BY <1>1, <1>2 DEF PublishedInv

LEMMA PublishedPick ==
  ASSUME TypeInv, PublishedInv, Pick
  PROVE  PublishedInv'
<1> DEFINE page == WheelsOn[cache[First.name]]
           files == BestFiles(page, First.specs)
<1>1. /\ queue # <<>> /\ cache[First.name] # NoPage /\ First.name \in Name
      /\ UNCHANGED <<world, queue, resolved, lossy>>
  <2>1. queue # <<>> /\ cache[First.name] # NoPage
    BY DEF Pick, Unpinned, Working
  <2>2. UNCHANGED <<world, queue, resolved, lossy>>
    BY DEF Pick, Fail
  <2> QED
    BY <2>1, <2>2, FirstType DEF TypeInv
<1>2. CASE files = {}
  <2>1. fetch' = NoFetch
    BY <1>2 DEF Pick, Fail
  <2>2. fetch'.what # "wheel"
    BY <2>1 DEF NoFetch
  <2> QED
    BY <1>1, <2>2, NothingPublished
<1>3. CASE files # {}
  <2>1. PICK f \in FirstSorted(files) :
          fetch' = [NoFetch EXCEPT !.what = "wheel", !.file = f]
    BY <1>3 DEF Pick
  <2>2. PICK i \in DOMAIN world.pages : cache[First.name] = world.pages[i][First.name]
    BY <1>1 DEF TypeInv, TypeOK
  <2>3. cache[First.name] \in DOMAIN Pages
    BY <1>1 DEF TypeInv, TypeOK, MaybePage
  <2>4. f \in ToSet(page) /\ f \in Wheel
    BY <1>3, <2>1, <2>3, WheelsOnType, FirstSortedFits
  <2>5. fetch'.file = f
    BY <2>1, <2>4, FetchType DEF TypeInv
  <2>6. f \in Published(First.name)
    BY <1>1, <2>2, <2>4 DEF Published
  <2>7. fetch'.file \in Published(First.name)'
    BY <1>1, <2>5, <2>6 DEF Published, First
  <2> QED
    BY <1>1, <2>7, PublishedStays DEF PublishedInv
<1> QED
  BY <1>2, <1>3

LEMMA PublishedSettle ==
  ASSUME TypeInv, PublishedInv, fetch.what = "wheel", NEW deps, Settle(deps),
         \/ UNCHANGED lossy /\ deps = fetch.file.deps
         \/ lossy' = TRUE /\ deps = <<>>
  PROVE  PublishedInv'
<1> DEFINE f == [fetch.file EXCEPT !.deps = deps]
<1>0. PICK n \in Name : n = First.name
  BY Fetching
<1>1. /\ fetch.file \in Published(n) /\ fetch.file \in Wheel
      /\ resolved' = [resolved EXCEPT ![n] = f] /\ world' = world
      /\ resolved \in Choice
  BY <1>0 DEF PublishedInv, Settle, TypeInv, TypeOK, FetchInv
<1>2. deps = fetch.file.deps => f = fetch.file
  BY <1>1 DEF Wheel
<1>3. \A m : Published(m)' = Published(m) /\ Immutable(m)' = Immutable(m)
  BY <1>1 DEF Published, Immutable
<1>4. /\ resolved'[n] = f
      /\ \A m \in Name : m # n => resolved'[m] = resolved[m]
  BY <1>1 DEF Choice
<1>5. AsPublished(n)'
  BY <1>1, <1>2, <1>3, <1>4 DEF AsPublished
<1>6. ASSUME NEW m \in Name, m # n, resolved'[m] # NoFile, Immutable(m)' = <<>>
      PROVE  AsPublished(m)'
  <2>1. AsPublished(m)
    BY <1>3, <1>4, <1>6 DEF PublishedInv, ChosenPublished, Chosen
  <2> QED
    BY <1>3, <1>4, <1>6, <2>1 DEF AsPublished
<1>7. ChosenPublished'
  BY <1>5, <1>6 DEF ChosenPublished, Chosen
<1>8. fetch'.what # "wheel"
  BY DEF Settle, NoFetch
<1> QED
  BY <1>7, <1>8 DEF PublishedInv

LEMMA PublishedPin ==
  ASSUME TypeInv, PublishedInv, UsePin
  PROVE  PublishedInv'
<1>1. /\ queue # <<>> /\ First.name \in Name /\ fetch = NoFetch
      /\ Immutable(First.name) # <<>>
  BY FirstType DEF UsePin, Working, TypeInv, ToSet
<1>2. fetch' = NoFetch /\ UNCHANGED <<world, lossy>>
  BY <1>1 DEF UsePin, Fail
<1>3. \A m \in Name : m # First.name => resolved'[m] = resolved[m]
  BY DEF UsePin, Fail, TypeInv, TypeOK, Choice
<1>4. \A m : Published(m)' = Published(m) /\ Immutable(m)' = Immutable(m)
  BY <1>2 DEF Published, Immutable
<1>5. ASSUME NEW m \in Name, resolved'[m] # NoFile, Immutable(m)' = <<>>
      PROVE  AsPublished(m)'
  <2>1. m # First.name /\ resolved'[m] = resolved[m]
    BY <1>1, <1>3, <1>4, <1>5
  <2>2. AsPublished(m)
    BY <1>4, <1>5, <2>1 DEF PublishedInv, ChosenPublished, Chosen
  <2> QED
    BY <1>2, <1>4, <2>1, <2>2 DEF AsPublished
<1> QED
  BY <1>2, <1>5 DEF PublishedInv, ChosenPublished, Chosen, NoFetch

LEMMA PublishedNext ==
  ASSUME TypeInv, PublishedInv, [Next]_vars
  PROVE  PublishedInv'
<1>1. ASSUME NEW reqs \in Orders(world.reqs), Begin(reqs) PROVE PublishedInv'
  <2>1. fetch' = NoFetch
    BY <1>1 DEF Begin, TypeInv, TypeOK
  <2>2. Chosen' = {}
    BY <1>1 DEF Begin, NothingResolved, Chosen
  <2> QED
    BY <2>1, <2>2 DEF PublishedInv, ChosenPublished, NoFetch
<1>2. CASE \E n \in Name : Expire(n)
  BY <1>2, NothingPublished DEF Expire
<1>3. CASE Retry
  <2>1. /\ fetch'.what = fetch.what /\ fetch'.file = fetch.file
        /\ UNCHANGED <<world, queue, resolved, lossy>>
    BY <1>3 DEF Retry, TypeInv, TypeOK, Fetch
  <2> QED
    BY <2>1, PublishedStays DEF PublishedInv, Published, First
<1>4. CASE TryNext
  <2>1. lossy' = lossy \/ lossy' = TRUE
    BY <1>4, LossyType DEF TryNext, TypeInv
  <2>2. UNCHANGED <<world, resolved>>
    BY <1>4 DEF TryNext, Fail
  <2>3. PICK k : fetch' \in {NoFetch, [NoFetch EXCEPT !.what = "page", !.index = k]}
    BY <1>4 DEF TryNext, Fail
  <2>4. fetch'.what # "wheel"
    <3>1. /\ NoFetch.what = "none"
          /\ [NoFetch EXCEPT !.what = "page", !.index = k].what = "page"
      BY DEF NoFetch
    <3> QED
      BY <2>3, <3>1
  <2> QED
    BY <2>1, <2>2, <2>4, NothingPublished
<1>5. CASE LoseMetadata
  BY <1>5, PublishedSettle DEF LoseMetadata
<1>6. CASE ReadMetadata
  BY <1>6, PublishedSettle DEF ReadMetadata
<1>7. CASE Ask
  <2>1. fetch'.what # "wheel"
    BY <1>7 DEF Ask, NoFetch
  <2> QED
    BY <1>7, <2>1, NothingPublished DEF Ask
<1>8. CASE Answer
  BY <1>8, NothingPublished DEF Answer, NoFetch
<1>9. CASE CheckAgain
  BY <1>9, NothingPublished DEF CheckAgain, Working, NoFetch
<1>10. CASE Conflict
  BY <1>10, NothingPublished DEF Conflict, Fail, NoFetch
<1>11. CASE UsePin
  BY <1>11, PublishedPin
<1>12. CASE Finish
  BY <1>12, NothingPublished DEF Finish
<1>13. CASE Pick
  BY <1>13, PublishedPick
<1>14. CASE UNCHANGED vars
  BY <1>14, NothingPublished DEF vars
<1> QED
  BY <1>1, <1>2, <1>3, <1>4, <1>5, <1>6, <1>7, <1>8, <1>9, <1>10, <1>11, <1>12, <1>13,
     <1>14 DEF Next, Work

LEMMA PublishedInvariant == Spec => []PublishedInv
<1>1. Init => PublishedInv
  BY DEF Init, PublishedInv, ChosenPublished, Chosen, NothingResolved, NoFetch
<1> QED
  BY <1>1, TypeInvariant, PublishedNext, PTL DEF Spec

(* A resolution that succeeds has met every requirement of the project and *)
(* of each file it chose, each file chosen asks for what the METADATA of   *)
(* the wheel it is asks for (or for nothing, when something was lost), and *)
(* it has kept every pin and chosen nothing that is not needed: for any    *)
(* indexes, pins, order of the requirements and failures of the network.   *)
THEOREM ResolvedConsistent == Spec => []Consistent
<1>1. ASSUME TypeInv, ResolveInv, PublishedInv PROVE Consistent
  <2>1. SUFFICES ASSUME status = "done"
        PROVE  /\ Solution(resolved)
               /\ \A n \in Chosen : Immutable(n) = <<>> => AsPublished(n)
               /\ \A n \in Chosen : \A ver \in ToSet(Immutable(n)) : resolved[n].ver = ver
               /\ \A S \in SUBSET Chosen :
                    (\A r \in ToSet(world.reqs) \cup UNION {ToSet(resolved[n].deps) : n \in S} :
                       r.name \in S) => S = Chosen
    BY DEF Consistent
  <2>2. Sound /\ ToSet(queue) = {}
    BY <1>1, <2>1 DEF ResolveInv, ToSet
  <2>3. Solution(resolved)
    BY <2>2 DEF Sound, RequirementsMet, Solution
  <2>4. \A n \in Chosen : \A ver \in ToSet(Immutable(n)) : resolved[n].ver = ver
    BY <2>2 DEF Sound, PinsKept
  <2>5. ASSUME NEW S \in SUBSET Chosen,
               \A r \in ToSet(world.reqs) \cup UNION {ToSet(resolved[n].deps) : n \in S} :
                 r.name \in S
        PROVE  S = Chosen
    <3>1. \A r \in ToSet(world.reqs) : r.name \in S
      BY <2>5
    <3>2. \A n \in S : \A r \in ToSet(resolved[n].deps) : r.name \in S
      BY <2>5
    <3>3. S \in SUBSET Name /\ Closed(S)
      BY <3>1, <3>2 DEF Closed, Chosen
    <3>4. Chosen \subseteq S
      BY <2>2, <3>3 DEF Sound, OnlyNeeded
    <3> QED
      BY <3>4
  <2>6. \A n \in Chosen : Immutable(n) = <<>> => AsPublished(n)
    BY <1>1 DEF PublishedInv, ChosenPublished
  <2> QED
    BY <2>3, <2>4, <2>5, <2>6
<1> QED
  BY <1>1, TypeInvariant, ResolveInvariant, PublishedInvariant, PTL

---------------------------------------------------------------------------
(* Versions written and read                                               *)

(* Parse takes back what Version.String writes, for every version.         *)
LEMMA ReadBack ==
  ASSUME NEW v \in Version
  PROVE  Parse440(VersionString(v)) = <<v>>
<1> DEFINE t == VersionString(v)
<1>1. /\ v.epoch \in Nat /\ v.release # <<>>
      /\ v.pre \in Seq((0..2) \X Nat) /\ v.post \in Seq(Nat) /\ v.dev \in Seq(Nat)
  BY DEF Version, AtMostOne
<1>2. /\ t.epoch = (IF v.epoch = 0 THEN <<>> ELSE <<v.epoch>>)
      /\ t.release = v.release /\ t.local = v.local
      /\ t.pre = [i \in DOMAIN v.pre |->
                    [label |-> KindLabel(v.pre[i][1]), digits |-> <<v.pre[i][2]>>]]
      /\ t.post = [i \in DOMAIN v.post |-> [label |-> "post", digits |-> <<v.post[i]>>]]
      /\ t.dev = [i \in DOMAIN v.dev |-> [label |-> "dev", digits |-> <<v.dev[i]>>]]
  BY DEF VersionString
<1> HIDE DEF t
<1>3. \A n \in Nat : OrZero(<<n>>) = n
  BY DEF OrZero
<1>4. OrZero(t.epoch) = v.epoch
  <2>1. CASE v.epoch = 0
    BY <1>2, <2>1 DEF OrZero
  <2>2. CASE v.epoch # 0
    BY <1>1, <1>2, <1>3, <2>2
  <2> QED
    BY <2>1, <2>2
<1>5. [i \in DOMAIN t.pre |-> ParsePre(t.pre[i])] = v.pre
  <2>1. \A k \in 0..2 : Kinds[KindLabel(k)] = k
    <3>1. /\ Kinds[KindLabel(0)] = 0 /\ Kinds[KindLabel(1)] = 1
          /\ Kinds[KindLabel(2)] = 2
      BY DEF Kinds, KindLabel
    <3>2. \A k \in 0..2 : k = 0 \/ k = 1 \/ k = 2
      OBVIOUS
    <3> QED
      BY <3>1, <3>2
  <2>2. DOMAIN t.pre = DOMAIN v.pre
    BY <1>2
  <2>3. ASSUME NEW i \in DOMAIN v.pre PROVE ParsePre(t.pre[i]) = v.pre[i]
    <3>1. v.pre[i] \in (0..2) \X Nat
      BY <1>1
    <3>2. PICK k \in 0..2, m \in Nat : v.pre[i] = <<k, m>>
      BY <3>1
    <3>3. t.pre[i] = [label |-> KindLabel(k), digits |-> <<m>>]
      BY <1>2, <3>2
    <3>4. ParsePre(t.pre[i]) = <<Kinds[KindLabel(k)], OrZero(<<m>>)>>
      BY <3>3 DEF ParsePre
    <3> QED
      BY <1>3, <2>1, <3>2, <3>4
  <2> QED
    BY <1>1, <2>2, <2>3
<1>6. [i \in DOMAIN t.post |-> ParsePost(t.post[i])] = v.post
  <2>1. DOMAIN t.post = DOMAIN v.post
    BY <1>2
  <2>2. \A i \in DOMAIN v.post : v.post[i] \in Nat /\ t.post[i].digits = <<v.post[i]>>
    BY <1>1, <1>2
  <2>3. \A i \in DOMAIN v.post : ParsePost(t.post[i]) = v.post[i]
    BY <1>3, <2>2 DEF ParsePost
  <2> QED
    BY <1>1, <2>1, <2>3
<1>7. [i \in DOMAIN t.dev |-> ParseDev(t.dev[i])] = v.dev
  <2>1. DOMAIN t.dev = DOMAIN v.dev
    BY <1>2
  <2>2. \A i \in DOMAIN v.dev : v.dev[i] \in Nat /\ t.dev[i].digits = <<v.dev[i]>>
    BY <1>1, <1>2
  <2>3. \A i \in DOMAIN v.dev : ParseDev(t.dev[i]) = v.dev[i]
    BY <1>3, <2>2 DEF ParseDev
  <2> QED
    BY <1>1, <2>1, <2>3
<1>8. Parse440(t) = <<[epoch |-> v.epoch, release |-> v.release, pre |-> v.pre,
                       post |-> v.post, dev |-> v.dev, local |-> v.local]>>
  BY <1>1, <1>2, <1>4, <1>5, <1>6, <1>7 DEF Parse440
<1>9. v = [epoch |-> v.epoch, release |-> v.release, pre |-> v.pre,
           post |-> v.post, dev |-> v.dev, local |-> v.local]
  BY DEF Version
<1> QED
  BY <1>8, <1>9 DEF t

(* Whatever version is chosen, the text that install and lock write of it  *)
(* is read back as that version.                                           *)
THEOREM ResolvedReread == Spec => []VersionsReread
<1>1. ASSUME TypeOK PROVE VersionsReread
  <2>1. \A n \in Chosen : resolved[n] \in Wheel
    BY <1>1 DEF TypeOK, Chosen, Choice
  <2>2. \A n \in Chosen : resolved[n].ver \in Version
    BY <2>1 DEF Wheel
  <2> QED
    BY <2>2, ReadBack DEF VersionsReread
<1> QED
  BY <1>1, ResolverTypeCorrect, PTL

---------------------------------------------------------------------------
(* Which page is chosen from                                               *)

(* A page of the first index that has the project.                         *)
FirstWith(n, page) ==
  /\ page # NoPage
  /\ \E i \in DOMAIN world.pages :
       /\ page = world.pages[i][n]
       /\ \A j \in DOMAIN world.pages : j < i => world.pages[j][n] = NoPage

(* As long as nothing was lost, the cache has pages of the first index     *)
(* that has the project, and the indexes before the one that is asked do   *)
(* not have it.                                                            *)
PageInv ==
  ~lossy =>
    /\ \A n \in Name : cache[n] # NoPage => FirstWith(n, cache[n])
    /\ fetch.what = "page" =>
         \A j \in DOMAIN world.pages :
           j < fetch.index => world.pages[j][First.name] = NoPage
    /\ fetch.what = "wheel" => fetch.file \in Top(Offer(First.name), First.specs)

(* The wheels of such a page are what is offered.                          *)
LEMMA FirstWithOffer ==
  ASSUME TypeOK, NEW n \in Name, NEW page, FirstWith(n, page)
  PROVE  Offer(n) = WheelsOn[page]
<1> DEFINE having == {i \in DOMAIN world.pages : world.pages[i][n] # NoPage}
<1>1. PICK i \in DOMAIN world.pages :
        /\ page = world.pages[i][n] /\ page # NoPage
        /\ \A j \in DOMAIN world.pages : j < i => world.pages[j][n] = NoPage
  BY DEF FirstWith
<1>2. DOMAIN world.pages \subseteq Nat
  BY WorldType
<1>3. i \in having /\ having \subseteq Nat /\ having \subseteq DOMAIN world.pages
  BY <1>1, <1>2
<1>4. Least(having) \in having /\ \A j \in having : Least(having) <= j
  BY <1>3, LeastIs
<1>5. ~ (Least(having) < i)
  BY <1>1, <1>3, <1>4
<1>6. Least(having) = i
  <2>1. Least(having) \in Nat /\ i \in Nat /\ Least(having) <= i
    BY <1>2, <1>3, <1>4
  <2> QED
    BY <1>5, <2>1
<1>7. Offer(n) = WheelsOn[world.pages[Least(having)][n]]
  BY <1>3 DEF Offer
<1> QED
  BY <1>1, <1>6, <1>7

(* What is offered is a sequence of wheels.                                *)
LEMMA OfferType ==
  ASSUME TypeOK, NEW n \in Name
  PROVE  Offer(n) = <<>> \/ \E page \in DOMAIN Pages : Offer(n) = WheelsOn[page]
<1> DEFINE having == {i \in DOMAIN world.pages : world.pages[i][n] # NoPage}
<1>1. CASE having = {}
  BY <1>1 DEF Offer
<1>2. CASE having # {}
  <2>1. having \subseteq Nat /\ having \subseteq DOMAIN world.pages
    BY WorldType
  <2>2. Least(having) \in having
    BY <1>2, <2>1, LeastIs
  <2>3. Offer(n) = WheelsOn[world.pages[Least(having)][n]]
    BY <1>2 DEF Offer
  <2>4. PICK i \in having : Least(having) = i
    BY <2>2
  <2>5. /\ i \in DOMAIN world.pages /\ world.pages[i][n] # NoPage
        /\ world.pages[i] \in [Name -> MaybePage]
    BY WorldType
  <2>6. world.pages[i][n] \in DOMAIN Pages
    BY <2>5 DEF MaybePage
  <2> QED
    BY <2>3, <2>4, <2>6
<1> QED
  BY <1>1, <1>2

(* Every version an index offers has one suffix at most, and no local part.*)
PlainOffers ==
  \A page \in DOMAIN Pages : \A i \in DOMAIN WheelsOn[page] :
    Plain(WheelsOn[page][i].ver)

(* No page offers two versions that compare as equal, like 1.0 and 1.0.0.  *)
DistinctOffers ==
  \A page \in DOMAIN Pages : \A i, j \in DOMAIN WheelsOn[page] :
    Compare(WheelsOn[page][i].ver, WheelsOn[page][j].ver) = 0
      => WheelsOn[page][i].ver = WheelsOn[page][j].ver

LEMMA OfferWheels ==
  ASSUME PlainOffers, TypeOK, NEW n \in Name
  PROVE  Offer(n) \in Seq(Wheel) /\ \A i \in DOMAIN Offer(n) : Plain(Offer(n)[i].ver)
<1>1. CASE Offer(n) = <<>>
  BY <1>1
<1>2. CASE \E page \in DOMAIN Pages : Offer(n) = WheelsOn[page]
  BY <1>2, WheelsOnType DEF PlainOffers
<1> QED
  BY <1>1, <1>2, OfferType

(* What is offered depends on the world only.                              *)
LEMMA OfferStays ==
  ASSUME world' = world
  PROVE  /\ \A n : Offer(n)' = Offer(n)
         /\ \A n, page : FirstWith(n, page)' = FirstWith(n, page)
<1>1. \A n : Offer(n)' = Offer(n)
  BY DEF Offer
<1>2. \A n, page : FirstWith(n, page)' = FirstWith(n, page)
  BY DEF FirstWith
<1> QED
  BY <1>1, <1>2

LEMMA PageStays ==
  ASSUME PageInv, UNCHANGED <<world, cache>>, lossy' = lossy,
         fetch'.what = "none" \/ (UNCHANGED <<fetch, queue>>)
  PROVE  PageInv'
<1>1. CASE fetch'.what = "none"
  BY <1>1, OfferStays DEF PageInv
<1>2. CASE UNCHANGED <<fetch, queue>>
  BY <1>2, OfferStays DEF PageInv, First
<1> QED
  BY <1>1, <1>2

LEMMA NoFetchPage ==
  ASSUME PageInv, UNCHANGED <<world, cache>>, fetch' = NoFetch,
         lossy' = lossy \/ lossy' = TRUE
  PROVE  PageInv'
<1>1. fetch'.what = "none"
  BY DEF NoFetch
<1>2. CASE lossy' = lossy
  BY <1>1, <1>2, PageStays
<1>3. CASE lossy' = TRUE
  BY <1>3 DEF PageInv
<1> QED
  BY <1>2, <1>3

LEMMA PageNext ==
  ASSUME PlainOffers, TypeInv, PageInv, [Next]_vars
  PROVE  PageInv'
<1>1. fetch = NoFetch => fetch.what = "none"
  BY FetchType DEF TypeInv
<1>2. ASSUME NEW reqs \in Orders(world.reqs), Begin(reqs) PROVE PageInv'
  <2>1. fetch = NoFetch
    BY <1>2 DEF Begin, TypeInv, TypeOK
  <2> QED
    BY <1>1, <1>2, <2>1, PageStays DEF Begin
<1>3. ASSUME NEW n \in Name, Expire(n) PROVE PageInv'
  <2>1. /\ cache' = [cache EXCEPT ![n] = NoPage]
        /\ UNCHANGED <<world, fetch, queue, lossy>>
    BY <1>3 DEF Expire
  <2>2. \A m \in Name : cache'[m] = NoPage \/ cache'[m] = cache[m]
    BY <2>1 DEF TypeInv, TypeOK
  <2> QED
    BY <2>1, <2>2, OfferStays DEF PageInv, First
<1>4. CASE Retry
  <2>1. /\ fetch'.what = fetch.what /\ fetch'.index = fetch.index
        /\ fetch'.file = fetch.file
        /\ UNCHANGED <<world, cache, queue, lossy>>
    BY <1>4 DEF Retry, TypeInv, TypeOK, Fetch
  <2> QED
    BY <2>1, OfferStays DEF PageInv, First
<1>5. CASE TryNext
  <2>1. /\ fetch.what = "page" /\ lossy' = (lossy \/ Asked # NoPage)
        /\ UNCHANGED <<world, cache, queue>>
    BY <1>5 DEF TryNext, Fail
  <2>2. CASE fetch.index < Len(world.pages)
    <3>1. fetch' = [NoFetch EXCEPT !.what = "page", !.index = fetch.index + 1]
      BY <1>5, <2>2 DEF TryNext
    <3>2. fetch.index \in Nat /\ fetch.index + 1 \in DOMAIN world.pages
      BY <2>1, <2>2, WorldType DEF TypeInv, FetchInv
    <3>3. fetch'.what = "page" /\ fetch'.index = fetch.index + 1
      BY <3>1, <3>2, FetchType DEF TypeInv
    <3>4. ASSUME ~lossy'
          PROVE  /\ \A n \in Name : cache[n] # NoPage => FirstWith(n, cache[n])
                 /\ \A j \in DOMAIN world.pages :
                      j < fetch.index + 1 => world.pages[j][First.name] = NoPage
      <4>1. ~lossy /\ world.pages[fetch.index][First.name] = NoPage
        BY <2>1, <3>4 DEF Asked
      <4>2. \A j \in DOMAIN world.pages : j < fetch.index + 1 => j < fetch.index \/ j = fetch.index
        BY <3>2, WorldType DEF TypeInv
      <4> QED
        BY <2>1, <4>1, <4>2 DEF PageInv
    <3> QED
      BY <2>1, <3>3, <3>4, OfferStays DEF PageInv, First
  <2>3. CASE ~ (fetch.index < Len(world.pages))
    <3>1. fetch' = NoFetch
      BY <1>5, <2>3 DEF TryNext, Fail
    <3>2. lossy' = lossy \/ lossy' = TRUE
      BY <2>1, LossyType DEF TypeInv
    <3> QED
      BY <2>1, <3>1, <3>2, NoFetchPage
  <2> QED
    BY <2>2, <2>3
<1>6. CASE LoseMetadata
  BY <1>6, NoFetchPage DEF LoseMetadata, Settle
<1>7. CASE ReadMetadata
  BY <1>7, NoFetchPage DEF ReadMetadata, Settle
<1>8. CASE Ask
  <2>1. /\ fetch'.what = "page" /\ fetch'.index = 1
        /\ UNCHANGED <<world, cache, queue, lossy>>
    <3>1. 1 \in DOMAIN world.pages
      BY WorldType DEF TypeInv
    <3> QED
      BY <1>8, <3>1, FetchType DEF Ask, TypeInv
  <2>2. \A j \in DOMAIN world.pages : ~ (j < 1)
    BY WorldType DEF TypeInv
  <2> QED
    BY <2>1, <2>2, OfferStays DEF PageInv, First
<1>9. CASE Answer
  <2>1. /\ fetch.what = "page" /\ Asked # NoPage
        /\ cache' = [cache EXCEPT ![First.name] = Asked]
        /\ fetch'.what = "none" /\ UNCHANGED <<world, queue, lossy>>
    BY <1>9, FetchType DEF Answer, WriteCache, TypeInv
  <2>2. fetch.index \in DOMAIN world.pages
    BY <2>1 DEF TypeInv, FetchInv
  <2>3. ASSUME ~lossy, NEW m \in Name, cache'[m] # NoPage
        PROVE  FirstWith(m, cache'[m])
    <3>1. CASE m = First.name
      <4>1. cache'[m] = world.pages[fetch.index][m]
        BY <2>1, <2>3, <3>1 DEF Asked, TypeInv, TypeOK
      <4>2. \A j \in DOMAIN world.pages : j < fetch.index => world.pages[j][m] = NoPage
        BY <2>1, <2>3, <3>1 DEF PageInv
      <4> QED
        BY <2>2, <2>3, <4>1, <4>2 DEF FirstWith
    <3>2. CASE m # First.name
      <4>1. cache'[m] = cache[m]
        BY <2>1, <2>3, <3>2 DEF TypeInv, TypeOK
      <4> QED
        BY <2>3, <4>1 DEF PageInv
    <3> QED
      BY <3>1, <3>2
  <2> QED
    BY <2>1, <2>3, OfferStays DEF PageInv
<1>10. CASE CheckAgain
  BY <1>1, <1>10, PageStays DEF CheckAgain, Working
<1>11. CASE Conflict
  BY <1>11, NoFetchPage DEF Conflict, Fail
<1>12. CASE UsePin
  <2>1. \/ UNCHANGED <<world, cache, fetch, lossy>> /\ fetch = NoFetch
        \/ Fail /\ UNCHANGED lossy
    BY <1>12 DEF UsePin, Working
  <2> QED
    BY <1>1, <2>1, PageStays, NoFetchPage DEF Fail
<1>13. CASE Finish
  BY <1>13, PageStays DEF Finish
<1>14. CASE Pick
  <2> DEFINE files == BestFiles(WheelsOn[cache[First.name]], First.specs)
  <2>1. CASE files = {}
    BY <1>14, <2>1, NoFetchPage DEF Pick, Fail
  <2>2. CASE files # {}
    <3>1. PICK f \in FirstSorted(files) :
            /\ fetch' = [NoFetch EXCEPT !.what = "wheel", !.file = f]
            /\ UNCHANGED <<world, cache, queue, lossy>>
      BY <1>14, <2>2 DEF Pick
    <3>2. queue # <<>> /\ cache[First.name] # NoPage
      BY <1>14 DEF Pick, Unpinned, Working
    <3>3. First.name \in Name /\ cache[First.name] \in DOMAIN Pages
      BY <3>2, FirstType DEF TypeInv, TypeOK, MaybePage
    <3>4. /\ WheelsOn[cache[First.name]] \in Seq(Wheel)
          /\ \A i \in DOMAIN WheelsOn[cache[First.name]] :
               Plain(WheelsOn[cache[First.name]][i].ver)
      BY <3>3, WheelsOnType DEF PlainOffers
    <3>5. f \in Wheel /\ f \in Top(WheelsOn[cache[First.name]], First.specs)
      BY <2>2, <3>1, <3>4, FirstSortedFits, PickedIsTop
    <3>6. fetch'.what = "wheel" /\ fetch'.file = f
      BY <3>1, <3>5, FetchType DEF TypeInv
    <3>7. ~lossy => Offer(First.name) = WheelsOn[cache[First.name]]
      BY <3>2, <3>3, FirstWithOffer DEF PageInv, TypeInv
    <3>8. \A n \in Name : ~lossy => (cache[n] # NoPage => FirstWith(n, cache[n]))
      BY DEF PageInv
    <3> QED
      BY <3>1, <3>5, <3>6, <3>7, <3>8, OfferStays DEF PageInv, First
  <2> QED
    BY <2>1, <2>2
<1>15. CASE UNCHANGED vars
  BY <1>15, PageStays DEF vars
<1> QED
  BY <1>2, <1>3, <1>4, <1>5, <1>6, <1>7, <1>8, <1>9, <1>10, <1>11, <1>12, <1>13,
     <1>14, <1>15 DEF Next, Work

---------------------------------------------------------------------------
(* How far from the project a name was chosen                              *)

(* A requirement of the project is asked for at depth 0, one of a chosen   *)
(* file at the depth after the file's.                                     *)
AskedAt(f, d, r, k) ==
  \/ k = 0 /\ r \in ToSet(world.reqs)
  \/ \E p \in Name : f[p] # NoFile /\ k = d[p] + 1 /\ r \in ToSet(f[p].deps)

(* What a requirement makes of the name, when nothing is lost: the pinned  *)
(* version, or else one of the newest files the requirement admits.        *)
RightChoice(n, specs, file) ==
  IF Immutable(n) = <<>> THEN file \in Top(Offer(n), specs)
  ELSE \E ver \in ToSet(Immutable(n)) :
         file = [ver |-> ver, tags |-> {}, pure |-> TRUE, yanked |-> FALSE,
                 deps |-> <<>>]

QueueAsked(f, q, d, e) == \A i \in DOMAIN q : AskedAt(f, d, q[i], e[i])

(* The first requirement on a name, one of the least depth, has chosen.    *)
ChosenFirst(f, d) ==
  \A n \in Name : f[n] # NoFile =>
    \E r \in Requirement :
      r.name = n /\ AskedAt(f, d, r, d[n]) /\ RightChoice(n, r.specs, f[n])

(* The queue is walked layer by layer.                                     *)
InLayers(f, q, d, e) ==
  /\ \A i, j \in DOMAIN q : i <= j => e[i] <= e[j] /\ e[j] <= e[i] + 1
  /\ \A n \in Name : \A i \in DOMAIN q : f[n] # NoFile => d[n] <= e[i]

(* What is asked for waits in the queue or was chosen no later.            *)
NoneLost(f, q, d, e) ==
  \A r \in Requirement : \A k \in Nat : AskedAt(f, d, r, k) =>
    \/ \E i \in DOMAIN q : q[i] = r /\ e[i] = k
    \/ f[r.name] # NoFile /\ d[r.name] <= k

Layers(f, q, d, e) ==
  QueueAsked(f, q, d, e) /\ ChosenFirst(f, d) /\ InLayers(f, q, d, e) /\ NoneLost(f, q, d, e)

Layered ==
  ~lossy /\ status \in {"running", "done"} =>
    \E d \in [Name -> Nat], e \in [DOMAIN queue -> Nat] : Layers(resolved, queue, d, e)

(* What a resolution without losses has returned.                          *)
LayeredSolution(f, d) ==
  /\ ChosenFirst(f, d)
  /\ \A r \in Requirement : \A k \in Nat : AskedAt(f, d, r, k) =>
       f[r.name] # NoFile /\ d[r.name] <= k /\ Admits(r.specs, f[r.name].ver)

ResultsLayered == \A f \in results : \E d \in [Name -> Nat] : LayeredSolution(f, d)

LayerInv == Layered /\ ResultsLayered

(* A step that leaves the world alone does not change what a choice and a  *)
(* queue mean.                                                             *)
LEMMA LayersSame ==
  ASSUME world' = world
  PROVE  /\ \A f, d, r, k : AskedAt(f, d, r, k)' = AskedAt(f, d, r, k)
         /\ \A n, specs, file : RightChoice(n, specs, file)' = RightChoice(n, specs, file)
<1>1. \A n : Immutable(n)' = Immutable(n) /\ Offer(n)' = Offer(n)
  BY OfferStays DEF Immutable
<1> QED
  BY <1>1 DEF AskedAt, RightChoice

LEMMA LayersNext ==
  ASSUME world' = world, NEW d \in [Name -> Nat], NEW e \in [DOMAIN queue' -> Nat],
         Layers(resolved', queue', d, e)
  PROVE  Layered'
<1>1. \A n : Immutable(n)' = Immutable(n) /\ Offer(n)' = Offer(n)
  BY OfferStays DEF Immutable
<1>2. \A r, k : AskedAt(resolved, d, r, k)' = AskedAt(resolved', d, r, k)
  BY DEF AskedAt
<1>3. \A n, specs : RightChoice(n, specs, resolved[n])' = RightChoice(n, specs, resolved'[n])
  BY <1>1 DEF RightChoice
<1>4. QueueAsked(resolved, queue, d, e)'
  BY <1>2 DEF Layers, QueueAsked
<1>5. ChosenFirst(resolved, d)'
  BY <1>2, <1>3 DEF Layers, ChosenFirst
<1>6. InLayers(resolved, queue, d, e)'
  BY DEF Layers, InLayers
<1>7. NoneLost(resolved, queue, d, e)'
  BY <1>2 DEF Layers, NoneLost
<1>8. Layers(resolved, queue, d, e)'
  BY <1>4, <1>5, <1>6, <1>7 DEF Layers
<1> QED
  BY <1>8 DEF Layered

LEMMA LayersBegin ==
  ASSUME TypeOK, NEW q \in Seq(Requirement), ToSet(q) = ToSet(world.reqs)
  PROVE  Layers(NothingResolved, q, [n \in Name |-> 0], [i \in DOMAIN q |-> 0])
<1> DEFINE d == [n \in Name |-> 0]
           e == [i \in DOMAIN q |-> 0]
<1>1. \A n \in Name : NothingResolved[n] = NoFile
  BY DEF NothingResolved
<1>2. \A r, k : AskedAt(NothingResolved, d, r, k) <=> k = 0 /\ r \in ToSet(q)
  BY <1>1 DEF AskedAt
<1>3. /\ \A i \in DOMAIN q : q[i] \in ToSet(q)
      /\ \A r \in ToSet(q) : \E i \in DOMAIN q : q[i] = r
  BY DEF ToSet
<1>4. QueueAsked(NothingResolved, q, d, e)
  BY <1>2, <1>3 DEF QueueAsked
<1>5. ChosenFirst(NothingResolved, d)
  BY <1>1 DEF ChosenFirst
<1>6. InLayers(NothingResolved, q, d, e)
  BY <1>1 DEF InLayers
<1>7. NoneLost(NothingResolved, q, d, e)
  BY <1>2, <1>3 DEF NoneLost
<1> QED
  BY <1>4, <1>5, <1>6, <1>7 DEF Layers

(* The first requirement is on a name that is chosen.                      *)
LEMMA LayersCheck ==
  ASSUME TypeOK, NEW f \in Choice, NEW q \in Seq(Requirement), q # <<>>,
         f[Head(q).name] # NoFile,
         NEW d \in [Name -> Nat], NEW e \in [DOMAIN q -> Nat], Layers(f, q, d, e)
  PROVE  Layers(f, Tail(q), d, [i \in DOMAIN Tail(q) |-> e[i + 1]])
<1> DEFINE q2 == Tail(q)
           e2 == [i \in DOMAIN q2 |-> e[i + 1]]
<1>1. /\ Len(q) \in Nat /\ DOMAIN q = 1..Len(q) /\ DOMAIN q2 = 1..(Len(q) - 1)
      /\ 1 \in DOMAIN q /\ Head(q) = q[1]
      /\ \A i \in DOMAIN q2 : i + 1 \in DOMAIN q /\ q2[i] = q[i + 1]
      /\ \A i \in DOMAIN q : i # 1 => i - 1 \in DOMAIN q2 /\ q2[i - 1] = q[i]
  OBVIOUS
<1> HIDE DEF q2
<1>2. /\ \A i \in DOMAIN q2 : e2[i] = e[i + 1]
      /\ \A i \in DOMAIN q : i # 1 => e2[i - 1] = e[i]
  BY <1>1
<1> HIDE DEF e2
<1>3. QueueAsked(f, q2, d, e2)
  BY <1>1, <1>2 DEF Layers, QueueAsked
<1>4. InLayers(f, q2, d, e2)
  <2>1. ASSUME NEW i \in DOMAIN q2, NEW j \in DOMAIN q2, i <= j
        PROVE  e2[i] <= e2[j] /\ e2[j] <= e2[i] + 1
    <3>1. i + 1 \in DOMAIN q /\ j + 1 \in DOMAIN q /\ i + 1 <= j + 1
      BY <1>1, <2>1
    <3> QED
      BY <1>2, <3>1 DEF Layers, InLayers
  <2>2. ASSUME NEW n \in Name, NEW i \in DOMAIN q2, f[n] # NoFile
        PROVE  d[n] <= e2[i]
    BY <1>1, <1>2, <2>2 DEF Layers, InLayers
  <2> QED
    BY <2>1, <2>2 DEF InLayers
<1>5. NoneLost(f, q2, d, e2)
  <2>1. SUFFICES ASSUME NEW r \in Requirement, NEW k \in Nat, AskedAt(f, d, r, k)
                 PROVE  \/ \E i \in DOMAIN q2 : q2[i] = r /\ e2[i] = k
                        \/ f[r.name] # NoFile /\ d[r.name] <= k
    BY DEF NoneLost
  <2>2. CASE f[r.name] # NoFile /\ d[r.name] <= k
    BY <2>2
  <2>3. CASE \E i \in DOMAIN q : q[i] = r /\ e[i] = k
    <3>1. PICK i \in DOMAIN q : q[i] = r /\ e[i] = k
      BY <2>3
    <3>2. CASE i = 1
      <4>1. r = Head(q) /\ r.name \in Name /\ f[r.name] # NoFile
        BY <1>1, <3>1, <3>2 DEF Requirement
      <4>2. d[r.name] <= k
        BY <3>1, <4>1 DEF Layers, InLayers
      <4> QED
        BY <4>1, <4>2
    <3>3. CASE i # 1
      BY <1>1, <1>2, <3>1, <3>3
    <3> QED
      BY <3>2, <3>3
  <2> QED
    BY <2>1, <2>2, <2>3 DEF Layers, NoneLost
<1> QED
  BY <1>3, <1>4, <1>5 DEF Layers, q2, e2

(* The depths of the queue after its head has been resolved.               *)
DepthsAfter(q, deps, e) ==
  [i \in DOMAIN (Tail(q) \o deps) |-> IF i < Len(q) THEN e[i + 1] ELSE e[1] + 1]

LEMMA LayersResolve ==
  ASSUME TypeOK, NEW f \in Choice, NEW q \in Seq(Requirement), q # <<>>,
         f[Head(q).name] = NoFile, NEW file \in Wheel,
         RightChoice(Head(q).name, Head(q).specs, file),
         NEW d \in [Name -> Nat], NEW e \in [DOMAIN q -> Nat], Layers(f, q, d, e)
  PROVE  Layers([f EXCEPT ![Head(q).name] = file], Tail(q) \o file.deps,
                [d EXCEPT ![Head(q).name] = e[1]], DepthsAfter(q, file.deps, e))
<1> DEFINE n == Head(q).name
           deps == file.deps
           f2 == [f EXCEPT ![n] = file]
           q2 == Tail(q) \o deps
           d2 == [d EXCEPT ![n] = e[1]]
           e2 == DepthsAfter(q, deps, e)
<1>1. /\ Head(q) \in Requirement /\ n \in Name /\ deps \in Seq(Requirement)
      /\ file # NoFile
  <2>1. Head(q) \in Requirement
    OBVIOUS
  <2> QED
    BY <2>1, ResolverAssumption DEF Wheel, Requirement, ResolverAssumption
<1> HIDE DEF deps
<1>2. /\ Len(q) \in Nat /\ Len(q) >= 1 /\ Len(deps) \in Nat
      /\ DOMAIN q = 1..Len(q) /\ DOMAIN deps = 1..Len(deps)
      /\ DOMAIN q2 = 1..(Len(q) - 1 + Len(deps))
      /\ Head(q) = q[1] /\ 1 \in DOMAIN q
  BY <1>1
<1>3. /\ \A i \in DOMAIN q : i # 1 =>
           i - 1 \in DOMAIN q2 /\ i - 1 < Len(q) /\ q2[i - 1] = q[i]
      /\ \A i \in DOMAIN q2 : i < Len(q) => i + 1 \in DOMAIN q /\ q2[i] = q[i + 1]
  <2>1. Len(Tail(q)) = Len(q) - 1 /\ \A i \in 1..(Len(q) - 1) : Tail(q)[i] = q[i + 1]
    BY <1>2
  <2>2. \A i \in 1..(Len(q) - 1) : q2[i] = Tail(q)[i]
    BY <1>1, <1>2, <2>1
  <2> QED
    BY <1>2, <2>1, <2>2
<1>4. /\ \A i \in DOMAIN deps : /\ Len(q) - 1 + i \in DOMAIN q2
                                /\ ~ (Len(q) - 1 + i < Len(q))
                                /\ q2[Len(q) - 1 + i] = deps[i]
      /\ \A i \in DOMAIN q2 : ~ (i < Len(q)) =>
           i - (Len(q) - 1) \in DOMAIN deps /\ q2[i] = deps[i - (Len(q) - 1)]
  <2>1. Len(Tail(q)) = Len(q) - 1 /\ Tail(q) \in Seq(Requirement)
    BY <1>2
  <2> QED
    BY <1>1, <1>2, <2>1
<1> HIDE DEF q2
<1>5. \A i \in DOMAIN q2 : e2[i] = IF i < Len(q) THEN e[i + 1] ELSE e[1] + 1
  BY DEF DepthsAfter, q2
<1> HIDE DEF e2
<1>6. /\ f2[n] = file /\ d2[n] = e[1] /\ e[1] \in Nat
      /\ \A m \in Name : m # n => f2[m] = f[m] /\ d2[m] = d[m]
  BY <1>1, <1>2 DEF Choice
<1> HIDE DEF f2, d2
<1>7. \A r, k : AskedAt(f2, d2, r, k) <=>
                  AskedAt(f, d, r, k) \/ (k = e[1] + 1 /\ r \in ToSet(deps))
  <2>1. TAKE r, k
  <2>2. ASSUME AskedAt(f2, d2, r, k)
        PROVE  AskedAt(f, d, r, k) \/ (k = e[1] + 1 /\ r \in ToSet(deps))
    <3>1. CASE k = 0 /\ r \in ToSet(world.reqs)
      BY <3>1 DEF AskedAt
    <3>2. ASSUME NEW p \in Name, f2[p] # NoFile, k = d2[p] + 1, r \in ToSet(f2[p].deps)
          PROVE  AskedAt(f, d, r, k) \/ (k = e[1] + 1 /\ r \in ToSet(deps))
      <4>1. CASE p = n
        BY <1>6, <3>2, <4>1 DEF deps
      <4>2. CASE p # n
        BY <1>6, <3>2, <4>2 DEF AskedAt
      <4> QED
        BY <4>1, <4>2
    <3> QED
      BY <2>2, <3>1, <3>2 DEF AskedAt
  <2>3. ASSUME AskedAt(f, d, r, k) PROVE AskedAt(f2, d2, r, k)
    BY <1>6, <2>3 DEF AskedAt
  <2>4. ASSUME k = e[1] + 1, r \in ToSet(deps) PROVE AskedAt(f2, d2, r, k)
    BY <1>1, <1>6, <2>4 DEF AskedAt, deps
  <2> QED
    BY <2>2, <2>3, <2>4
<1>8. /\ \A i \in DOMAIN q : e[i] \in Nat
      /\ \A i, j \in DOMAIN q : i <= j => e[i] <= e[j] /\ e[j] <= e[i] + 1
      /\ \A m \in Name : \A i \in DOMAIN q : f[m] # NoFile => d[m] <= e[i]
  BY DEF Layers, InLayers
<1>9. QueueAsked(f2, q2, d2, e2)
  <2>1. SUFFICES ASSUME NEW i \in DOMAIN q2 PROVE AskedAt(f2, d2, q2[i], e2[i])
    BY DEF QueueAsked
  <2>2. CASE i < Len(q)
    <3>1. i + 1 \in DOMAIN q /\ q2[i] = q[i + 1] /\ e2[i] = e[i + 1]
      BY <1>3, <1>5, <2>2
    <3> QED
      BY <1>7, <3>1 DEF Layers, QueueAsked
  <2>3. CASE ~ (i < Len(q))
    <3>1. q2[i] \in ToSet(deps) /\ e2[i] = e[1] + 1
      BY <1>4, <1>5, <2>3 DEF ToSet
    <3> QED
      BY <1>7, <3>1
  <2> QED
    BY <2>2, <2>3
<1>10. ChosenFirst(f2, d2)
  <2>1. SUFFICES ASSUME NEW m \in Name, f2[m] # NoFile
                 PROVE  \E r \in Requirement :
                          /\ r.name = m /\ AskedAt(f2, d2, r, d2[m])
                          /\ RightChoice(m, r.specs, f2[m])
    BY DEF ChosenFirst
  <2>2. CASE m = n
    <3>1. AskedAt(f, d, Head(q), e[1])
      BY <1>2 DEF Layers, QueueAsked
    <3> QED
      BY <1>1, <1>6, <1>7, <2>2, <3>1
  <2>3. CASE m # n
    <3>1. f2[m] = f[m] /\ d2[m] = d[m]
      BY <1>6, <2>3
    <3>2. \E r \in Requirement : r.name = m /\ AskedAt(f, d, r, d[m])
                                 /\ RightChoice(m, r.specs, f[m])
      BY <2>1, <3>1 DEF Layers, ChosenFirst
    <3> QED
      BY <1>7, <3>1, <3>2
  <2> QED
    BY <2>2, <2>3
<1>11. InLayers(f2, q2, d2, e2)
  <2>1. ASSUME NEW i \in DOMAIN q2
        PROVE  e2[i] \in Nat /\ e[1] <= e2[i] /\ e2[i] <= e[1] + 1
    <3>1. CASE i < Len(q)
      <4>1. i + 1 \in DOMAIN q /\ 1 <= i + 1 /\ e2[i] = e[i + 1]
        BY <1>2, <1>3, <1>5, <3>1
      <4> QED
        BY <1>2, <1>8, <4>1
    <3>2. CASE ~ (i < Len(q))
      BY <1>5, <1>6, <3>2
    <3> QED
      BY <3>1, <3>2
  <2>2. ASSUME NEW i \in DOMAIN q2, NEW j \in DOMAIN q2, i <= j
        PROVE  e2[i] <= e2[j] /\ e2[j] <= e2[i] + 1
    <3>1. /\ e2[i] \in Nat /\ e2[j] \in Nat /\ e[1] \in Nat
          /\ e[1] <= e2[i] /\ e2[j] <= e[1] + 1 /\ e2[i] <= e[1] + 1
      BY <1>6, <2>1
    <3>2. e2[i] <= e2[j]
      <4>1. CASE j < Len(q)
        <5>1. i \in Nat /\ j \in Nat /\ i < Len(q)
          BY <1>2, <2>2, <4>1
        <5>2. /\ i + 1 \in DOMAIN q /\ j + 1 \in DOMAIN q /\ i + 1 <= j + 1
              /\ e2[i] = e[i + 1] /\ e2[j] = e[j + 1]
          BY <1>3, <1>5, <2>2, <4>1, <5>1
        <5> QED
          BY <1>8, <5>2
      <4>2. CASE ~ (j < Len(q))
        BY <1>5, <3>1, <4>2
      <4> QED
        BY <4>1, <4>2
    <3> QED
      BY <3>1, <3>2
  <2>3. ASSUME NEW m \in Name, NEW i \in DOMAIN q2, f2[m] # NoFile
        PROVE  d2[m] <= e2[i]
    <3>1. d2[m] <= e[1]
      BY <1>2, <1>6, <1>8, <2>3
    <3>2. d2[m] \in Nat /\ e[1] \in Nat
      BY <1>6
    <3> QED
      BY <2>1, <3>1, <3>2
  <2> QED
    BY <2>2, <2>3 DEF InLayers
<1>12. NoneLost(f2, q2, d2, e2)
  <2>1. SUFFICES ASSUME NEW r \in Requirement, NEW k \in Nat, AskedAt(f2, d2, r, k)
                 PROVE  \/ \E i \in DOMAIN q2 : q2[i] = r /\ e2[i] = k
                        \/ f2[r.name] # NoFile /\ d2[r.name] <= k
    BY DEF NoneLost
  <2>2. r.name \in Name
    BY DEF Requirement
  <2>3. CASE k = e[1] + 1 /\ r \in ToSet(deps)
    <3>1. PICK i \in DOMAIN deps : deps[i] = r
      BY <2>3 DEF ToSet
    <3> QED
      BY <1>4, <1>5, <2>3, <3>1
  <2>4. CASE f[r.name] # NoFile /\ d[r.name] <= k
    <3>1. r.name # n
      BY <2>4
    <3> QED
      BY <1>6, <2>2, <2>4, <3>1
  <2>5. CASE \E i \in DOMAIN q : q[i] = r /\ e[i] = k
    <3>1. PICK i \in DOMAIN q : q[i] = r /\ e[i] = k
      BY <2>5
    <3>2. CASE i = 1
      BY <1>1, <1>2, <1>6, <3>1, <3>2
    <3>3. CASE i # 1
      <4>1. i - 1 \in DOMAIN q2 /\ q2[i - 1] = r /\ i - 1 < Len(q) /\ (i - 1) + 1 = i
        BY <1>2, <1>3, <3>1, <3>3
      <4> QED
        BY <1>5, <3>1, <4>1
    <3> QED
      BY <3>2, <3>3
  <2> QED
    BY <1>7, <2>1, <2>3, <2>4, <2>5 DEF Layers, NoneLost
<1> QED
  BY <1>9, <1>10, <1>11, <1>12 DEF Layers, f2, q2, d2, e2, deps

LEMMA LayersStay ==
  ASSUME Layered, UNCHANGED <<world, queue, resolved>>, lossy' = lossy \/ lossy' = TRUE,
         status' \in {"running", "done"} => status \in {"running", "done"}
  PROVE  Layered'
<1>1. CASE lossy' = TRUE \/ status' \notin {"running", "done"}
  BY <1>1 DEF Layered
<1>2. CASE lossy' = lossy /\ status' \in {"running", "done"}
  <2>1. SUFFICES ASSUME ~lossy PROVE Layered'
    BY <1>2 DEF Layered
  <2>2. PICK d \in [Name -> Nat], e \in [DOMAIN queue -> Nat] :
          Layers(resolved, queue, d, e)
    BY <1>2, <2>1 DEF Layered
  <2>3. Layers(resolved', queue', d, e) /\ e \in [DOMAIN queue' -> Nat]
    BY <2>2
  <2> QED
    BY <2>3, LayersNext
<1> QED
  BY <1>1, <1>2

LEMMA ResultsStay ==
  ASSUME ResultsLayered, UNCHANGED <<world, results>>
  PROVE  ResultsLayered'
<1>1. \A f, d : LayeredSolution(f, d)' = LayeredSolution(f, d)
  BY LayersSame DEF LayeredSolution, ChosenFirst
<1> QED
  BY <1>1 DEF ResultsLayered

LEMMA NoStep ==
  ASSUME LayerInv, UNCHANGED <<world, queue, resolved, results>>,
         lossy' = lossy \/ lossy' = TRUE,
         status' \in {"running", "done"} => status \in {"running", "done"}
  PROVE  LayerInv'
  BY LayersStay, ResultsStay DEF LayerInv

LEMMA BeginLayers ==
  ASSUME TypeOK, LayerInv, NEW reqs, Begin(reqs)
  PROVE  LayerInv'
<1>1. /\ reqs \in Seq(Requirement) /\ ToSet(reqs) = ToSet(world.reqs)
      /\ queue' = reqs /\ resolved' = NothingResolved
      /\ UNCHANGED <<world, results>>
  BY WorldType, OrdersSame DEF Begin
<1> DEFINE d == [n \in Name |-> 0]
           e == [i \in DOMAIN reqs |-> 0]
<1>2. Layers(resolved', queue', d, e)
  BY <1>1, LayersBegin
<1>3. d \in [Name -> Nat] /\ e \in [DOMAIN queue' -> Nat]
  BY <1>1
<1> HIDE DEF d, e
<1>4. Layered'
  BY <1>1, <1>2, <1>3, LayersNext
<1> QED
  BY <1>1, <1>4, ResultsStay DEF LayerInv

LEMMA CheckLayers ==
  ASSUME TypeOK, LayerInv, CheckAgain
  PROVE  LayerInv'
<1>1. /\ queue # <<>> /\ status = "running" /\ queue' = Tail(queue)
      /\ resolved[First.name] # NoFile
      /\ UNCHANGED <<world, resolved, results, lossy>>
  BY DEF CheckAgain, Working
<1>2. SUFFICES ASSUME ~lossy PROVE Layered'
  BY <1>1, ResultsStay DEF LayerInv, Layered
<1>3. PICK d \in [Name -> Nat], e \in [DOMAIN queue -> Nat] :
        Layers(resolved, queue, d, e)
  BY <1>1, <1>2 DEF LayerInv, Layered
<1> DEFINE e2 == [i \in DOMAIN Tail(queue) |-> e[i + 1]]
<1>4. resolved \in Choice /\ queue \in Seq(Requirement)
  BY DEF TypeOK
<1>5. Layers(resolved, Tail(queue), d, e2)
  BY <1>1, <1>3, <1>4, LayersCheck DEF First
<1>6. e2 \in [DOMAIN queue' -> Nat]
  <2>1. \A i \in DOMAIN Tail(queue) : i + 1 \in DOMAIN queue
    BY <1>1, <1>4
  <2> QED
    BY <1>1, <2>1
<1> HIDE DEF e2
<1>7. Layers(resolved', queue', d, e2)
  BY <1>1, <1>5
<1> QED
  BY <1>1, <1>6, <1>7, LayersNext

LEMMA ResolveLayers ==
  ASSUME TypeOK, LayerInv, queue # <<>>, status = "running",
         resolved[First.name] = NoFile, NEW f \in Wheel,
         ~lossy' => RightChoice(First.name, First.specs, f),
         resolved' = [resolved EXCEPT ![First.name] = f],
         queue' = Tail(queue) \o f.deps, UNCHANGED <<world, results>>,
         lossy' = lossy \/ lossy' = TRUE
  PROVE  LayerInv'
<1>1. SUFFICES ASSUME ~lossy' PROVE Layered'
  BY ResultsStay DEF LayerInv, Layered
<1>2. PICK d \in [Name -> Nat], e \in [DOMAIN queue -> Nat] :
        Layers(resolved, queue, d, e)
  BY <1>1 DEF LayerInv, Layered
<1>3. /\ resolved \in Choice /\ queue \in Seq(Requirement)
      /\ First.name \in Name /\ f.deps \in Seq(Requirement)
  BY FirstType DEF TypeOK, Wheel
<1> DEFINE d2 == [d EXCEPT ![First.name] = e[1]]
           e2 == DepthsAfter(queue, f.deps, e)
<1>4. Layers(resolved', queue', d2, e2)
  BY <1>1, <1>2, <1>3, LayersResolve DEF First
<1>5. 1 \in DOMAIN queue
  BY <1>3
<1>6. d2 \in [Name -> Nat]
  BY <1>3, <1>5
<1>7. e2 \in [DOMAIN queue' -> Nat]
  <2>1. \A i \in DOMAIN queue' : i < Len(queue) => i + 1 \in DOMAIN queue
    BY <1>3, <1>5
  <2> QED
    BY <1>5, <2>1 DEF DepthsAfter
<1> HIDE DEF d2, e2
<1> QED
  BY <1>4, <1>6, <1>7, LayersNext

LEMMA PinLayers ==
  ASSUME TypeOK, LayerInv, UsePin, UNCHANGED status
  PROVE  LayerInv'
<1>1. PICK ver \in ToSet(Immutable(First.name)) :
        IF Admits(First.specs, ver)
        THEN /\ resolved' = [resolved EXCEPT ![First.name] =
                  [ver |-> ver, tags |-> {}, pure |-> TRUE, yanked |-> FALSE,
                   deps |-> <<>>]]
             /\ queue' = Tail(queue)
             /\ UNCHANGED <<world, cache, fetch, status, lossy, results, rounds>>
        ELSE Fail /\ UNCHANGED lossy
  BY DEF UsePin
<1>2. /\ queue # <<>> /\ status = "running" /\ resolved[First.name] = NoFile
      /\ First.name \in Name
  BY FirstType DEF UsePin, Working
<1>3. Admits(First.specs, ver)
  BY <1>1, <1>2 DEF Fail
<1> DEFINE f == [ver |-> ver, tags |-> {}, pure |-> TRUE, yanked |-> FALSE,
                 deps |-> <<>>]
<1>4. f \in Wheel /\ f.deps = <<>>
  BY <1>2, PinIsWheel
<1>5. RightChoice(First.name, First.specs, f)
  <2>1. Immutable(First.name) # <<>>
    BY <1>1 DEF ToSet
  <2> QED
    BY <1>1, <2>1 DEF RightChoice
<1>6. queue' = Tail(queue) \o f.deps
  BY <1>1, <1>2, <1>3, <1>4, TailAlone
<1>7. /\ resolved' = [resolved EXCEPT ![First.name] = f]
      /\ UNCHANGED <<world, results, lossy>>
  BY <1>1, <1>3
<1> HIDE DEF f
<1> QED
  BY <1>2, <1>4, <1>5, <1>6, <1>7, ResolveLayers

LEMMA SettleLayers ==
  ASSUME TypeInv, PageInv, LayerInv, NEW deps \in Seq(Requirement),
         fetch.what = "wheel", Settle(deps),
         lossy' = TRUE \/ (UNCHANGED lossy /\ deps = fetch.file.deps)
  PROVE  LayerInv'
<1> DEFINE f == [fetch.file EXCEPT !.deps = deps]
<1>1. fetch.file \in Wheel /\ Immutable(First.name) = <<>>
  BY DEF TypeInv, FetchInv
<1>2. f \in Wheel /\ f.deps = deps
  BY <1>1, SettleIsWheel
<1>3. deps = fetch.file.deps => f = fetch.file
  BY <1>1 DEF Wheel
<1>4. /\ resolved' = [resolved EXCEPT ![First.name] = f]
      /\ queue' = Tail(queue) \o f.deps /\ UNCHANGED <<world, results>>
  BY <1>2 DEF Settle
<1>5. queue # <<>> /\ resolved[First.name] = NoFile /\ status = "running"
  BY Fetching
<1> HIDE DEF f
<1>6. ~lossy' => RightChoice(First.name, First.specs, f)
  BY <1>1, <1>3 DEF PageInv, RightChoice
<1> QED
  BY <1>2, <1>4, <1>5, <1>6, ResolveLayers DEF TypeInv

(* A resolution that is finished is a solution in layers.                  *)
LEMMA FinishedLayers ==
  ASSUME TypeOK, Sound, queue = <<>>, NEW d \in [Name -> Nat],
         NEW e \in [DOMAIN queue -> Nat], Layers(resolved, queue, d, e)
  PROVE  LayeredSolution(resolved, d)
<1>1. ASSUME NEW r \in Requirement, NEW k \in Nat, AskedAt(resolved, d, r, k)
      PROVE  /\ resolved[r.name] # NoFile /\ d[r.name] <= k
             /\ Admits(r.specs, resolved[r.name].ver)
  <2>1. r \in Requirements(resolved)
    BY <1>1, AskedBy DEF AskedAt
  <2>2. r \notin ToSet(queue)
    BY DEF ToSet
  <2>3. resolved[r.name] # NoFile /\ Admits(r.specs, resolved[r.name].ver)
    BY <2>1, <2>2 DEF Sound, RequirementsMet
  <2>4. d[r.name] <= k
    BY <1>1 DEF Layers, NoneLost
  <2> QED
    BY <2>3, <2>4
<1>2. ChosenFirst(resolved, d)
  BY DEF Layers
<1> QED
  BY <1>1, <1>2 DEF LayeredSolution

LEMMA FinishLayers ==
  ASSUME TypeInv, ResolveInv, LayerInv, Finish
  PROVE  LayerInv'
<1>1. /\ status = "running" /\ queue = <<>> /\ Sound
      /\ UNCHANGED <<world, queue, resolved, lossy>>
  BY DEF Finish, ResolveInv
<1>2. Layered'
  BY <1>1, LayersStay DEF LayerInv
<1>3. \A f, d : LayeredSolution(f, d)' = LayeredSolution(f, d)
  BY <1>1, LayersSame DEF LayeredSolution, ChosenFirst
<1>4. ASSUME ~lossy PROVE \E d \in [Name -> Nat] : LayeredSolution(resolved, d)
  BY <1>1, <1>4, FinishedLayers DEF LayerInv, Layered, TypeInv
<1>5. \A f \in results' : f \in results \/ (~lossy /\ f = resolved)
  BY DEF Finish
<1>6. ResultsLayered'
  BY <1>3, <1>4, <1>5 DEF LayerInv, ResultsLayered
<1> QED
  BY <1>2, <1>6 DEF LayerInv

LEMMA LayerNext ==
  ASSUME TypeInv, ResolveInv, PageInv, LayerInv, [Next]_vars
  PROVE  LayerInv'
<1>1. ASSUME NEW reqs \in Orders(world.reqs), Begin(reqs) PROVE LayerInv'
  BY <1>1, BeginLayers DEF TypeInv
<1>2. CASE \E n \in Name : Expire(n)
  BY <1>2, NoStep DEF Expire
<1>3. CASE Retry
  BY <1>3, NoStep DEF Retry
<1>4. CASE TryNext
  <2>1. lossy' = lossy \/ lossy' = TRUE
    BY <1>4, LossyType DEF TryNext, TypeInv
  <2> QED
    BY <1>4, <2>1, NoStep DEF TryNext, Fail
<1>5. CASE LoseMetadata
  <2>1. <<>> \in Seq(Requirement)
    OBVIOUS
  <2> QED
    BY <1>5, <2>1, SettleLayers DEF LoseMetadata
<1>6. CASE ReadMetadata
  <2>1. fetch.file \in Wheel /\ fetch.file.deps \in Seq(Requirement)
    BY <1>6 DEF ReadMetadata, TypeInv, FetchInv, Wheel
  <2> QED
    BY <1>6, <2>1, SettleLayers DEF ReadMetadata
<1>7. CASE Ask
  BY <1>7, NoStep DEF Ask
<1>8. CASE Answer
  BY <1>8, NoStep DEF Answer
<1>9. CASE CheckAgain
  BY <1>9, CheckLayers DEF TypeInv
<1>10. CASE Conflict
  BY <1>10, NoStep DEF Conflict, Fail
<1>11. CASE UsePin
  <2>1. CASE UNCHANGED status
    BY <1>11, <2>1, PinLayers DEF TypeInv
  <2>2. CASE ~ UNCHANGED status
    BY <1>11, <2>2, NoStep DEF UsePin, Fail
  <2> QED
    BY <2>1, <2>2
<1>12. CASE Finish
  BY <1>12, FinishLayers
<1>13. CASE Pick
  BY <1>13, NoStep DEF Pick, Fail
<1>14. CASE UNCHANGED vars
  BY <1>14, NoStep DEF vars
<1> QED
  BY <1>1, <1>2, <1>3, <1>4, <1>5, <1>6, <1>7, <1>8, <1>9, <1>10, <1>11, <1>12, <1>13,
     <1>14 DEF Next, Work

LEMMA LayerInvariant ==
  ASSUME PlainOffers
  PROVE  Spec => [](PageInv /\ LayerInv)
<1>1. Init => PageInv /\ LayerInv
  <2>1. Init => PageInv
    BY DEF Init, PageInv, NoFetch
  <2>2. Init => LayerInv
    BY DEF Init, LayerInv, Layered, ResultsLayered
  <2> QED
    BY <2>1, <2>2
<1>2. TypeInv /\ ResolveInv /\ PageInv /\ LayerInv /\ [Next]_vars
        => (PageInv /\ LayerInv)'
  BY PageNext, LayerNext
<1> QED
  BY <1>1, <1>2, TypeInvariant, ResolveInvariant, PTL DEF Spec

---------------------------------------------------------------------------
(* The newest versions, in any order                                       *)

(* A candidate that the requirement admits is no newer than its choice.    *)
LEMMA TopIsNewest ==
  ASSUME PlainOffers, TypeOK, NEW n \in Name, NEW specs, NEW f \in Top(Offer(n), specs),
         NEW i \in DOMAIN Offer(n), ~Offer(n)[i].yanked, Offer(n)[i].tags # {},
         Admits(specs, Offer(n)[i].ver)
  PROVE  Compare(Offer(n)[i].ver, f.ver) <= 0
<1>1. Offer(n) \in Seq(Wheel) /\ i \in Candidates(Offer(n), specs)
  BY OfferWheels DEF Candidates
<1>2. PICK g \in BestFiles(Offer(n), specs) : g.ver = Offer(n)[i].ver
  BY <1>1, BestOfVersion
<1> QED
  BY <1>2 DEF Top

(* What is chosen is one of the files that are offered.                    *)
LEMMA TopIsOffered ==
  ASSUME PlainOffers, TypeOK, NEW n \in Name, NEW specs, NEW f \in Top(Offer(n), specs)
  PROVE  /\ f \in BestFiles(Offer(n), specs)
         /\ \E i \in DOMAIN Offer(n) : /\ f = Offer(n)[i] /\ ~f.yanked /\ f.tags # {}
         /\ f.ver \in Version /\ Plain(f.ver)
<1>1. f \in BestFiles(Offer(n), specs)
  BY DEF Top
<1>2. PICK i \in DOMAIN Offer(n) : f = Offer(n)[i] /\ ~f.yanked /\ f.tags # {}
  BY <1>1 DEF BestFiles, Candidates
<1>3. f \in Wheel /\ Plain(f.ver)
  BY <1>2, OfferWheels
<1> QED
  BY <1>1, <1>2, <1>3 DEF Wheel

(* Two requirements that admit each other's choice chose the same.         *)
LEMMA SameChoice ==
  ASSUME PlainOffers, DistinctOffers, TypeOK, NEW n \in Name, NEW specs, NEW others,
         NEW f, NEW g, RightChoice(n, specs, f), RightChoice(n, others, g),
         Admits(specs, g.ver), Admits(others, f.ver)
  PROVE  f = g
<1>1. CASE Immutable(n) # <<>>
  BY <1>1, OnePin DEF RightChoice
<1>2. CASE Immutable(n) = <<>>
  <2>1. f \in Top(Offer(n), specs) /\ g \in Top(Offer(n), others)
    BY <1>2 DEF RightChoice
  <2>2. /\ f \in BestFiles(Offer(n), specs)
        /\ \E i \in DOMAIN Offer(n) : f = Offer(n)[i] /\ ~f.yanked /\ f.tags # {}
        /\ f.ver \in Version /\ Plain(f.ver)
    BY <2>1, TopIsOffered
  <2>3. /\ g \in BestFiles(Offer(n), others)
        /\ \E i \in DOMAIN Offer(n) : g = Offer(n)[i] /\ ~g.yanked /\ g.tags # {}
        /\ g.ver \in Version /\ Plain(g.ver)
    BY <2>1, TopIsOffered
  <2>4. Compare(g.ver, f.ver) <= 0
    BY <2>1, <2>3, TopIsNewest
  <2>5. Compare(f.ver, g.ver) <= 0
    BY <2>1, <2>2, TopIsNewest
  <2>6. Compare(f.ver, g.ver) = 0
    <3>1. /\ Compare(f.ver, g.ver) \in {-1, 0, 1}
          /\ Compare(g.ver, f.ver) = - Compare(f.ver, g.ver)
      BY <2>2, <2>3, ComparesInOrder
    <3> QED
      BY <2>4, <2>5, <3>1
  <2>7. f.ver = g.ver
    <3>1. PICK i \in DOMAIN Offer(n), j \in DOMAIN Offer(n) :
            f = Offer(n)[i] /\ g = Offer(n)[j]
      BY <2>2, <2>3
    <3>2. PICK page \in DOMAIN Pages : Offer(n) = WheelsOn[page]
      BY <3>1, OfferType
    <3> QED
      BY <2>6, <3>1, <3>2 DEF DistinctOffers
  <2> QED
    BY <2>2, <2>3, <2>7, OfferWheels, OneBest
<1> QED
  BY <1>1, <1>2

(* Where two solutions in layers agree before a depth, they agree at it.   *)
LEMMA AgreeAt ==
  ASSUME PlainOffers, DistinctOffers, TypeOK,
         NEW f \in Choice, NEW g \in Choice, NEW d \in [Name -> Nat],
         NEW c \in [Name -> Nat], LayeredSolution(f, d), LayeredSolution(g, c),
         NEW k \in Nat,
         \A m \in Name : f[m] # NoFile /\ d[m] < k => g[m] = f[m] /\ c[m] = d[m],
         \A m \in Name : g[m] # NoFile /\ c[m] < k => f[m] = g[m] /\ d[m] = c[m],
         NEW n \in Name, f[n] # NoFile, d[n] = k
  PROVE  g[n] = f[n] /\ c[n] = d[n]
<1>1. PICK r \in Requirement :
        r.name = n /\ AskedAt(f, d, r, k) /\ RightChoice(n, r.specs, f[n])
  BY DEF LayeredSolution, ChosenFirst
<1>2. ASSUME NEW q, AskedAt(f, d, q, k) PROVE AskedAt(g, c, q, k)
  <2>1. ASSUME NEW p \in Name, f[p] # NoFile, k = d[p] + 1, q \in ToSet(f[p].deps)
        PROVE  AskedAt(g, c, q, k)
    <3>1. d[p] < k
      BY <2>1
    <3> QED
      BY <2>1, <3>1 DEF AskedAt
  <2> QED
    BY <1>2, <2>1 DEF AskedAt
<1>3. ASSUME NEW q, AskedAt(g, c, q, k) PROVE AskedAt(f, d, q, k)
  <2>1. ASSUME NEW p \in Name, g[p] # NoFile, k = c[p] + 1, q \in ToSet(g[p].deps)
        PROVE  AskedAt(f, d, q, k)
    <3>1. c[p] < k
      BY <2>1
    <3> QED
      BY <2>1, <3>1 DEF AskedAt
  <2> QED
    BY <1>3, <2>1 DEF AskedAt
<1>4. g[n] # NoFile /\ c[n] <= k /\ Admits(r.specs, g[n].ver)
  BY <1>1, <1>2 DEF LayeredSolution
<1>5. c[n] = k
  <2>1. ~ (c[n] < k)
    BY <1>4
  <2> QED
    BY <1>4, <2>1
<1>6. PICK q \in Requirement :
        q.name = n /\ AskedAt(g, c, q, k) /\ RightChoice(n, q.specs, g[n])
  BY <1>4, <1>5 DEF LayeredSolution, ChosenFirst
<1>7. Admits(q.specs, f[n].ver)
  BY <1>3, <1>6 DEF LayeredSolution
<1>8. f[n] = g[n]
  BY <1>1, <1>4, <1>6, <1>7, SameChoice
<1> QED
  BY <1>5, <1>8

(* Two solutions in layers are the same.                                   *)
LEMMA SolutionsAgree ==
  ASSUME PlainOffers, DistinctOffers, TypeOK,
         NEW f \in Choice, NEW g \in Choice, NEW d \in [Name -> Nat],
         NEW c \in [Name -> Nat], LayeredSolution(f, d), LayeredSolution(g, c)
  PROVE  f = g
<1> DEFINE Apart(k) ==
      \E n \in Name :
        \/ f[n] # NoFile /\ d[n] = k /\ ~ (g[n] = f[n] /\ c[n] = d[n])
        \/ g[n] # NoFile /\ c[n] = k /\ ~ (f[n] = g[n] /\ d[n] = c[n])
      K == {k \in Nat : Apart(k)}
<1>1. K = {}
  <2>1. SUFFICES ASSUME K # {} PROVE FALSE
    OBVIOUS
  <2>2. K \subseteq Nat
    OBVIOUS
  <2>3. PICK k \in K : \A j \in K : k <= j
    <3> HIDE DEF K
    <3> QED
      BY <2>1, <2>2, LeastOfNaturals
  <2>4. k \in Nat /\ Apart(k) /\ \A j \in Nat : j < k => ~Apart(j)
    BY <2>3
  <2>5. /\ \A m \in Name : f[m] # NoFile /\ d[m] < k => g[m] = f[m] /\ c[m] = d[m]
        /\ \A m \in Name : g[m] # NoFile /\ c[m] < k => f[m] = g[m] /\ d[m] = c[m]
    BY <2>4
  <2>6. \A n \in Name : f[n] # NoFile /\ d[n] = k => g[n] = f[n] /\ c[n] = d[n]
    BY <2>4, <2>5, AgreeAt
  <2>7. \A n \in Name : g[n] # NoFile /\ c[n] = k => f[n] = g[n] /\ d[n] = c[n]
    BY <2>4, <2>5, AgreeAt
  <2> QED
    BY <2>4, <2>6, <2>7
<1>2. \A n \in Name : ~Apart(d[n]) /\ ~Apart(c[n])
  BY <1>1
<1>3. \A n \in Name : f[n] = g[n]
  BY <1>2
<1> QED
  BY <1>3 DEF Choice

(* Whatever an index offers of plain versions: without losses each version *)
(* that is chosen is the newest, as PEP 440 orders them, of the versions   *)
(* for this platform that meet all requirements on the name together.  One *)
(* of them chose it before the others were known.                          *)
THEOREM ResolvedNewest ==
  ASSUME PlainOffers
  PROVE  Spec => []Newest
<1>1. ASSUME TypeInv, LayerInv PROVE Newest
  <2>1. SUFFICES ASSUME status = "done", ~lossy, NEW n \in Chosen, Immutable(n) = <<>>,
                        NEW i \in Candidates(Offer(n),
                          UNION {r.specs : r \in {q \in Requirements(resolved) : q.name = n}})
                 PROVE  PepOrder(Offer(n)[i].ver, resolved[n].ver) <= 0
    BY DEF Newest
  <2>2. TypeOK /\ n \in Name /\ resolved[n] # NoFile
    BY <1>1, <2>1 DEF TypeInv, Chosen
  <2>3. PICK d \in [Name -> Nat], e \in [DOMAIN queue -> Nat] :
          Layers(resolved, queue, d, e)
    BY <1>1, <2>1 DEF LayerInv, Layered
  <2>4. PICK r \in Requirement :
          /\ r.name = n /\ AskedAt(resolved, d, r, d[n])
          /\ RightChoice(n, r.specs, resolved[n])
    BY <2>2, <2>3 DEF Layers, ChosenFirst
  <2>5. r \in Requirements(resolved)
    BY <2>4, AskedBy DEF AskedAt
  <2>6. resolved[n] \in Top(Offer(n), r.specs)
    BY <2>1, <2>4 DEF RightChoice
  <2>7. /\ i \in DOMAIN Offer(n) /\ ~Offer(n)[i].yanked /\ Offer(n)[i].tags # {}
        /\ Admits(r.specs, Offer(n)[i].ver)
    BY <2>4, <2>5 DEF Candidates, Admits
  <2>8. Compare(Offer(n)[i].ver, resolved[n].ver) <= 0
    BY <2>2, <2>6, <2>7, TopIsNewest
  <2>9. /\ Offer(n)[i].ver \in Version /\ Plain(Offer(n)[i].ver)
        /\ resolved[n].ver \in Version /\ Plain(resolved[n].ver)
    <3>1. Offer(n)[i] \in Wheel /\ Plain(Offer(n)[i].ver)
      BY <2>2, <2>7, OfferWheels
    <3> QED
      BY <2>2, <2>6, <3>1, TopIsOffered DEF Wheel
  <2> QED
    BY <2>8, <2>9, ComparePlain, PepPlain
<1> QED
  BY <1>1, TypeInvariant, LayerInvariant, PTL

(* Whatever an index offers of plain versions that differ in more than     *)
(* zeros: two resolutions of the same requirements that succeed without    *)
(* losses choose the same files, whatever the order of the requirements,   *)
(* the cache and the retries.                                              *)
THEOREM ResolvedOrderFree ==
  ASSUME PlainOffers, DistinctOffers
  PROVE  Spec => []OrderFree
<1>1. ASSUME TypeInv, LayerInv PROVE OrderFree
  <2>1. TypeOK /\ results \subseteq Choice
    BY <1>1 DEF TypeInv, TypeOK
  <2>2. \A f \in results : \A g \in results : f = g
    BY <1>1, <2>1, SolutionsAgree DEF LayerInv, ResultsLayered
  <2>3. CASE results = {}
    BY <2>3, FS_EmptySet DEF OrderFree
  <2>4. CASE results # {}
    <3>1. PICK f : results = {f}
      BY <2>2, <2>4
    <3> QED
      BY <3>1, FS_Singleton DEF OrderFree
  <2> QED
    BY <2>3, <2>4
<1> QED
  BY <1>1, TypeInvariant, LayerInvariant, PTL

---------------------------------------------------------------------------
(* How markers are read                                                    *)

(* What is written between the parentheses and words of a marker.          *)
Token ==
  [kind : {"comparison"}, var : STRING, text : Text, valueFirst : BOOLEAN,
   op : {"in", "not in", "==", "!=", "<", "<=", ">", ">="}]
  \cup {Word(w) : w \in {"and", "or", "(", ")"}}

KindAt(tokens, i) == IF i \in DOMAIN tokens THEN tokens[i].kind ELSE "end"

Joined(level, a, b) == IF Joins(level) = "or" THEN a \/ b ELSE a /\ b

Truth(t, env) == Holds(t, env)

(* What the parsers read at a token.                                       *)
Result == [ok : BOOLEAN, holds : BOOLEAN, next : Nat]

(* parseMarkerAtom at i, with what is read after a parenthesis there.      *)
AtomAt(tokens, env, inner, i) ==
  CASE KindAt(tokens, i) = "(" ->
         IF inner.ok /\ KindAt(tokens, inner.next) = ")"
         THEN [inner EXCEPT !.next = @ + 1] ELSE inner
    [] KindAt(tokens, i) = "comparison" ->
         [ok |-> TRUE, next |-> i + 1, holds |-> Truth(tokens[i], env)]
    [] OTHER -> Broken

(* parseMarkerOr or parseMarkerAnd, with the operands read.                *)
JoinAt(tokens, level, left, right) ==
  IF ~left.ok \/ KindAt(tokens, left.next) # Joins(level) THEN left
  ELSE [ok |-> right.ok, next |-> right.next,
        holds |-> Joined(level, left.holds, right.holds)]

(* What the parsers read everywhere, when they read g further on.          *)
Step(tokens, env, g) ==
  [at \in (1..3) \X Nat |->
     IF at[1] = 3 THEN AtomAt(tokens, env, g[<<1, at[2] + 1>>], at[2])
     ELSE JoinAt(tokens, at[1], g[<<at[1] + 1, at[2]>>],
                 g[<<at[1], g[<<at[1] + 1, at[2]>>].next + 1>>])]

LEMMA ParseIs ==
  ASSUME NEW tokens, NEW env
  PROVE  Parse(tokens, env) = (CHOOSE g : g = Step(tokens, env, g))[<<1, 1>>]
  BY DEF Parse, Step, AtomAt, JoinAt, Joined, KindAt, Truth

LEMMA TruthType ==
  ASSUME NEW t \in Token, NEW env, t.kind = "comparison"
  PROVE  Truth(t, env) \in BOOLEAN
<1>1. t.op \in {"in", "not in", "==", "!=", "<", "<=", ">", ">="}
  <2>1. \A w \in {"and", "or", "(", ")"} : Word(w).kind = w /\ w # "comparison"
    BY DEF Word
  <2> QED
    BY <2>1 DEF Token
<1> DEFINE x == Lookup(t.var, env)
<1> HIDE DEF x
<1> DEFINE y == t.text
<1> HIDE DEF y
<1>2. /\ EvaluateOp(x, "in", y) \in BOOLEAN /\ EvaluateOp(x, "not in", y) \in BOOLEAN
      /\ EvaluateOp(x, "==", y) \in BOOLEAN /\ EvaluateOp(x, "!=", y) \in BOOLEAN
  BY DEF EvaluateOp
<1>3. EvaluateOp(x, "<", y) \in BOOLEAN /\ EvaluateOp(x, "<=", y) \in BOOLEAN
  BY DEF EvaluateOp
<1>4. EvaluateOp(x, ">", y) \in BOOLEAN /\ EvaluateOp(x, ">=", y) \in BOOLEAN
  BY DEF EvaluateOp
<1>5. EvaluateOp(x, t.op, y) \in BOOLEAN
  BY <1>1, <1>2, <1>3, <1>4
<1> QED
  BY <1>5 DEF Truth, Holds, x, y

(* An atom is read further on than it starts.                              *)
LEMMA AtomType ==
  ASSUME NEW tokens \in Seq(Token), NEW env, NEW i \in Nat, NEW inner \in Result,
         inner.ok => inner.next > i + 1
  PROVE  /\ AtomAt(tokens, env, inner, i) \in Result
         /\ AtomAt(tokens, env, inner, i).ok => AtomAt(tokens, env, inner, i).next > i
<1>1. CASE KindAt(tokens, i) = "("
  BY <1>1 DEF AtomAt, Result
<1>2. CASE KindAt(tokens, i) = "comparison"
  <2>1. tokens[i] \in Token /\ tokens[i].kind = "comparison"
    BY <1>2 DEF KindAt
  <2>2. Truth(tokens[i], env) \in BOOLEAN
    BY <2>1, TruthType
  <2>3. AtomAt(tokens, env, inner, i) =
          [ok |-> TRUE, next |-> i + 1, holds |-> Truth(tokens[i], env)]
    BY <1>2 DEF AtomAt
  <2> QED
    BY <2>2, <2>3 DEF Result
<1>3. CASE KindAt(tokens, i) \notin {"(", "comparison"}
  BY <1>3 DEF AtomAt, Broken, Result
<1> QED
  BY <1>1, <1>2, <1>3

LEMMA JoinType ==
  ASSUME NEW tokens, NEW level, NEW i \in Nat, NEW left \in Result, NEW right \in Result,
         left.ok => left.next > i, right.ok => right.next > left.next + 1
  PROVE  /\ JoinAt(tokens, level, left, right) \in Result
         /\ JoinAt(tokens, level, left, right).ok
              => JoinAt(tokens, level, left, right).next > i
<1>1. CASE ~left.ok \/ KindAt(tokens, left.next) # Joins(level)
  BY <1>1 DEF JoinAt
<1>2. CASE left.ok /\ KindAt(tokens, left.next) = Joins(level)
  <2>1. Joined(level, left.holds, right.holds) \in BOOLEAN
    BY DEF Joined, Result
  <2>2. JoinAt(tokens, level, left, right) =
          [ok |-> right.ok, next |-> right.next,
           holds |-> Joined(level, left.holds, right.holds)]
    BY <1>2 DEF JoinAt
  <2>3. /\ right.ok \in BOOLEAN /\ right.next \in Nat /\ left.next \in Nat
        /\ left.ok \in BOOLEAN
    BY DEF Result
  <2> HIDE DEF Result
  <2>4. right.ok => right.next > i
    BY <1>2, <2>3
  <2> QED
    BY <2>1, <2>2, <2>3, <2>4 DEF Result
<1> QED
  BY <1>1, <1>2

(* What a parser of a level reads at a token, according to g.              *)
Read(g, level, i) == g[<<level, i>>]

(* What is read from k on, and further on than it starts.                  *)
ReadFrom(tokens, env, g, k) ==
  /\ g \in [(1..3) \X Nat -> Result]
  /\ \A level \in 1..3, i \in Nat : i >= k =>
       /\ Read(g, level, i) = Read(Step(tokens, env, g), level, i)
       /\ Read(g, level, i).ok => Read(g, level, i).next > i

LEMMA ReadType ==
  ASSUME NEW g \in [(1..3) \X Nat -> Result], NEW level \in 1..3, NEW i \in Nat
  PROVE  Read(g, level, i) \in Result
<1>1. <<level, i>> \in (1..3) \X Nat
  OBVIOUS
<1> QED
  BY <1>1 DEF Read

LEMMA StepAtom ==
  ASSUME NEW tokens, NEW env, NEW g, NEW i \in Nat
  PROVE  Read(Step(tokens, env, g), 3, i) = AtomAt(tokens, env, Read(g, 1, i + 1), i)
<1>1. <<3, i>> \in (1..3) \X Nat
  OBVIOUS
<1> QED
  BY <1>1 DEF Step, Read

LEMMA StepJoin ==
  ASSUME NEW tokens, NEW env, NEW g, NEW i \in Nat, NEW level \in 1..2
  PROVE  Read(Step(tokens, env, g), level, i) =
           JoinAt(tokens, level, Read(g, level + 1, i),
                  Read(g, level, Read(g, level + 1, i).next + 1))
<1>1. <<level, i>> \in (1..3) \X Nat /\ level # 3
  OBVIOUS
<1> QED
  BY <1>1 DEF Step, Read

(* There is nothing to read after the last token.                          *)
LEMMA ReadEnd ==
  ASSUME NEW tokens \in Seq(Token), NEW env
  PROVE  \E g : ReadFrom(tokens, env, g, Len(tokens) + 1)
<1> DEFINE g == [at \in (1..3) \X Nat |-> Broken]
<1>1. g \in [(1..3) \X Nat -> Result] /\ ~Broken.ok
  BY DEF Broken, Result
<1>2. \A level \in 1..3, i \in Nat : Read(g, level, i) = Broken
  BY DEF Read
<1> HIDE DEF g
<1>3. ASSUME NEW level \in 1..3, NEW i \in Nat, i >= Len(tokens) + 1
      PROVE  Broken = Read(Step(tokens, env, g), level, i)
  <2>1. KindAt(tokens, i) = "end"
    BY <1>3 DEF KindAt
  <2>2. CASE level = 3
    BY <2>1, <2>2, StepAtom DEF AtomAt
  <2>3. CASE level \in 1..2
    <3>1. Read(g, level + 1, i) = Broken
      BY <1>2, <2>3
    <3> QED
      BY <1>1, <2>3, <3>1, StepJoin DEF JoinAt
  <2> QED
    BY <2>2, <2>3
<1> QED
  BY <1>1, <1>2, <1>3 DEF ReadFrom

(* What is read from k + 1 on tells what is read at k.                     *)
LEMMA ReadBefore ==
  ASSUME NEW tokens \in Seq(Token), NEW env, NEW k \in Nat, NEW g,
         ReadFrom(tokens, env, g, k + 1)
  PROVE  \E h : ReadFrom(tokens, env, h, k)
<1> DEFINE a == AtomAt(tokens, env, Read(g, 1, k + 1), k)
           b == JoinAt(tokens, 2, a, Read(g, 2, a.next + 1))
           c == JoinAt(tokens, 1, b, Read(g, 1, b.next + 1))
           h == [at \in (1..3) \X Nat |->
                   IF at[2] # k THEN g[at]
                   ELSE IF at[1] = 3 THEN a ELSE IF at[1] = 2 THEN b ELSE c]
<1>1. /\ \A level \in 1..3, i \in Nat : Read(g, level, i) \in Result
      /\ \A level \in 1..3, i \in Nat :
           i >= k + 1 /\ Read(g, level, i).ok => Read(g, level, i).next > i
  BY ReadType DEF ReadFrom
<1>2. a \in Result /\ (a.ok => a.next > k)
  BY <1>1, AtomType
<1> HIDE DEF a
<1>3. b \in Result /\ (b.ok => b.next > k)
  <2>1. CASE a.ok
    <3>1. a.next \in Nat /\ a.next > k
      BY <1>2, <2>1 DEF Result
    <3>2. Read(g, 2, a.next + 1) \in Result
          /\ (Read(g, 2, a.next + 1).ok => Read(g, 2, a.next + 1).next > a.next + 1)
      BY <1>1, <3>1
    <3> QED
      BY <1>2, <3>2, JoinType
  <2>2. CASE ~a.ok
    BY <1>2, <2>2 DEF JoinAt
  <2> QED
    BY <2>1, <2>2
<1> HIDE DEF b
<1>4. c \in Result /\ (c.ok => c.next > k)
  <2>1. CASE b.ok
    <3>1. b.next \in Nat /\ b.next > k
      BY <1>3, <2>1 DEF Result
    <3>2. Read(g, 1, b.next + 1) \in Result
          /\ (Read(g, 1, b.next + 1).ok => Read(g, 1, b.next + 1).next > b.next + 1)
      BY <1>1, <3>1
    <3> QED
      BY <1>3, <3>2, JoinType
  <2>2. CASE ~b.ok
    BY <1>3, <2>2 DEF JoinAt
  <2> QED
    BY <2>1, <2>2
<1> HIDE DEF c
<1>5. h \in [(1..3) \X Nat -> Result]
  BY <1>2, <1>3, <1>4 DEF ReadFrom
<1>6. /\ \A level \in 1..3, i \in Nat : i # k => Read(h, level, i) = Read(g, level, i)
      /\ Read(h, 3, k) = a /\ Read(h, 2, k) = b /\ Read(h, 1, k) = c
  BY DEF Read
<1> HIDE DEF h
<1>7. ASSUME NEW level \in 1..3
      PROVE  Read(h, level, k) = Read(Step(tokens, env, h), level, k)
  <2>1. CASE level = 3
    <3>1. Read(Step(tokens, env, h), 3, k) = AtomAt(tokens, env, Read(h, 1, k + 1), k)
      BY StepAtom
    <3>2. Read(h, 1, k + 1) = Read(g, 1, k + 1)
      BY <1>6
    <3> QED
      BY <1>6, <2>1, <3>1, <3>2 DEF a
  <2>2. CASE level = 2
    <3>1. Read(Step(tokens, env, h), 2, k) = JoinAt(tokens, 2, a, Read(h, 2, a.next + 1))
      <4>1. 2 \in 1..2 /\ a = Read(h, 2 + 1, k)
        BY <1>6
      <4> QED
        BY <4>1, StepJoin
    <3>2. CASE a.ok
      <4>1. a.next + 1 \in Nat /\ a.next + 1 # k
        BY <1>2, <3>2 DEF Result
      <4> QED
        BY <1>6, <2>2, <3>1, <4>1 DEF b
    <3>3. CASE ~a.ok
      BY <1>6, <2>2, <3>1, <3>3 DEF b, JoinAt
    <3> QED
      BY <3>2, <3>3
  <2>3. CASE level = 1
    <3>1. Read(Step(tokens, env, h), 1, k) = JoinAt(tokens, 1, b, Read(h, 1, b.next + 1))
      <4>1. 1 \in 1..2 /\ b = Read(h, 1 + 1, k)
        BY <1>6
      <4> QED
        BY <4>1, StepJoin
    <3>2. CASE b.ok
      <4>1. b.next + 1 \in Nat /\ b.next + 1 # k
        BY <1>3, <3>2 DEF Result
      <4> QED
        BY <1>6, <2>3, <3>1, <4>1 DEF c
    <3>3. CASE ~b.ok
      BY <1>6, <2>3, <3>1, <3>3 DEF c, JoinAt
    <3> QED
      BY <3>2, <3>3
  <2> QED
    BY <2>1, <2>2, <2>3
<1>8. ASSUME NEW level \in 1..3, NEW i \in Nat, i > k
      PROVE  Read(g, level, i) = Read(Step(tokens, env, h), level, i)
  <2>1. Read(g, level, i) = Read(Step(tokens, env, g), level, i)
    <3>1. i >= k + 1
      BY <1>8
    <3> QED
      BY <3>1 DEF ReadFrom
  <2>2. CASE level = 3
    <3>1. Read(h, 1, i + 1) = Read(g, 1, i + 1)
      BY <1>6, <1>8
    <3> QED
      BY <2>1, <2>2, <3>1, StepAtom
  <2>3. CASE level \in 1..2
    <3> DEFINE left == Read(g, level + 1, i)
    <3>1. left \in Result /\ (left.ok => left.next > i) /\ Read(h, level + 1, i) = left
      BY <1>1, <1>6, <1>8, <2>3
    <3>2. Read(Step(tokens, env, g), level, i) =
            JoinAt(tokens, level, left, Read(g, level, left.next + 1))
      BY <2>3, StepJoin
    <3> HIDE DEF left
    <3>3. Read(Step(tokens, env, h), level, i) =
            JoinAt(tokens, level, left, Read(h, level, left.next + 1))
      BY <2>3, <3>1, StepJoin
    <3>4. CASE left.ok
      <4>1. left.next + 1 \in Nat /\ left.next + 1 # k
        BY <1>8, <3>1, <3>4 DEF Result
      <4> QED
        BY <1>6, <2>1, <3>2, <3>3, <4>1
    <3>5. CASE ~left.ok
      BY <2>1, <3>2, <3>3, <3>5 DEF JoinAt
    <3> QED
      BY <3>4, <3>5
  <2> QED
    BY <2>2, <2>3
<1>9. ASSUME NEW level \in 1..3, NEW i \in Nat, i >= k
      PROVE  /\ Read(h, level, i) = Read(Step(tokens, env, h), level, i)
             /\ Read(h, level, i).ok => Read(h, level, i).next > i
  <2>1. CASE i = k
    BY <1>2, <1>3, <1>4, <1>6, <1>7, <2>1
  <2>2. CASE i > k
    BY <1>1, <1>6, <1>8, <2>2
  <2> QED
    BY <1>9, <2>1, <2>2
<1> QED
  BY <1>5, <1>9 DEF ReadFrom

(* So the recursion of the parsers is well defined: the positions they do  *)
(* not read yet have a least one.                                          *)
LEMMA ParsersEnd ==
  ASSUME NEW tokens \in Seq(Token), NEW env
  PROVE  \E g : g = Step(tokens, env, g)
<1> DEFINE S == {k \in Nat : \E g : ReadFrom(tokens, env, g, k)}
<1>1. Len(tokens) + 1 \in S
  BY ReadEnd
<1>2. PICK k \in S : \A j \in S : k <= j
  BY <1>1, LeastOfNaturals
<1>3. k = 0
  <2>1. SUFFICES ASSUME k # 0 PROVE FALSE
    OBVIOUS
  <2>2. k - 1 \in Nat /\ (k - 1) + 1 = k
    BY <1>2, <2>1
  <2>3. k - 1 \in S
    BY <1>2, <2>2, ReadBefore
  <2> QED
    BY <1>2, <2>2, <2>3
<1>4. PICK g : ReadFrom(tokens, env, g, 0)
  BY <1>2, <1>3
<1>5. /\ g = [at \in (1..3) \X Nat |-> g[at]]
      /\ \A level \in 1..3, i \in Nat : Read(g, level, i) = Read(Step(tokens, env, g), level, i)
  <2>1. g \in [(1..3) \X Nat -> Result]
    BY <1>4 DEF ReadFrom
  <2>2. \A i \in Nat : i >= 0
    OBVIOUS
  <2>3. \A level \in 1..3, i \in Nat : Read(g, level, i) = Read(Step(tokens, env, g), level, i)
    BY <1>4, <2>2 DEF ReadFrom
  <2> QED
    BY <2>1, <2>3
<1>6. \A at \in (1..3) \X Nat : g[at] = Step(tokens, env, g)[at]
  <2>1. \A at \in (1..3) \X Nat : at = <<at[1], at[2]>> /\ at[1] \in 1..3 /\ at[2] \in Nat
    OBVIOUS
  <2> QED
    BY <1>5, <2>1 DEF Read
<1>7. Step(tokens, env, g) = [at \in (1..3) \X Nat |-> Step(tokens, env, g)[at]]
  BY DEF Step
<1>8. g = Step(tokens, env, g)
  BY <1>5, <1>6, <1>7
<1> QED
  BY <1>8

(* What the parsers read in tokens.                                        *)
Parsers(tokens, env) == CHOOSE g : g = Step(tokens, env, g)

LEMMA ParseReads ==
  ASSUME NEW tokens, NEW env
  PROVE  Parse(tokens, env) = Read(Parsers(tokens, env), 1, 1)
  BY ParseIs DEF Parsers, Read

LEMMA ParserAtom ==
  ASSUME NEW tokens \in Seq(Token), NEW env, NEW i \in Nat
  PROVE  Read(Parsers(tokens, env), 3, i) =
           AtomAt(tokens, env, Read(Parsers(tokens, env), 1, i + 1), i)
<1> DEFINE P == Parsers(tokens, env)
<1>1. P = Step(tokens, env, P)
  BY ParsersEnd DEF Parsers
<1> QED
  BY <1>1, StepAtom

LEMMA ParserJoin ==
  ASSUME NEW tokens \in Seq(Token), NEW env, NEW i \in Nat, NEW level \in 1..2,
         NEW left, left = Read(Parsers(tokens, env), level + 1, i)
  PROVE  Read(Parsers(tokens, env), level, i) =
           JoinAt(tokens, level, left, Read(Parsers(tokens, env), level, left.next + 1))
<1> DEFINE P == Parsers(tokens, env)
<1>1. P = Step(tokens, env, P)
  BY ParsersEnd DEF Parsers
<1> HIDE DEF P
<1>2. Read(P, level, i) = JoinAt(tokens, level, Read(P, level + 1, i),
                                 Read(P, level, Read(P, level + 1, i).next + 1))
  BY <1>1, StepJoin
<1> QED
  BY <1>2 DEF P

(* t stands in tokens after the first p.                                   *)
Placed(tokens, p, t) ==
  p + Len(t) <= Len(tokens) /\ \A i \in 1..Len(t) : tokens[p + i] = t[i]

(* Nothing at i goes on with what a parser of the level reads.             *)
Ends(level, tokens, i) == \A l \in level..2 : KindAt(tokens, i) # Joins(l)

(* Wherever it stands, the parser of the level reads t to its end, as b.   *)
ReadAs(env, level, t, b) ==
  \A tokens \in Seq(Token), p \in Nat :
    Placed(tokens, p, t) /\ Ends(level, tokens, p + Len(t) + 1) =>
      Read(Parsers(tokens, env), level, p + 1) =
        [ok |-> TRUE, holds |-> b, next |-> p + Len(t) + 1]

LEMMA ReadComparison ==
  ASSUME NEW env, NEW c \in Token, c.kind = "comparison"
  PROVE  ReadAs(env, 3, <<c>>, Truth(c, env))
<1> SUFFICES ASSUME NEW tokens \in Seq(Token), NEW p \in Nat, Placed(tokens, p, <<c>>)
             PROVE  Read(Parsers(tokens, env), 3, p + 1) =
                      [ok |-> TRUE, holds |-> Truth(c, env), next |-> p + Len(<<c>>) + 1]
  BY DEF ReadAs
<1>1. p + 1 \in DOMAIN tokens /\ tokens[p + 1] = c /\ Len(<<c>>) = 1
  BY DEF Placed
<1>2. KindAt(tokens, p + 1) = "comparison"
  BY <1>1 DEF KindAt
<1>3. Read(Parsers(tokens, env), 3, p + 1) =
        AtomAt(tokens, env, Read(Parsers(tokens, env), 1, (p + 1) + 1), p + 1)
  BY ParserAtom
<1> QED
  BY <1>1, <1>2, <1>3 DEF AtomAt

(* A marker in parentheses, and two of them joined at a level.             *)
Grouped(t) == <<Word("(")>> \o t \o <<Word(")")>>

Between(t, level, u) == t \o <<Word(Joins(level))>> \o u

LEMMA WrittenType ==
  /\ \A c \in Token : <<c>> \in Seq(Token)
  /\ \A t \in Seq(Token) : Grouped(t) \in Seq(Token)
  /\ \A level \in 1..2, t \in Seq(Token), u \in Seq(Token) :
       Between(t, level, u) \in Seq(Token)
<1>1. /\ Word("(") \in Token /\ Word(")") \in Token
      /\ \A level \in 1..2 : Word(Joins(level)) \in Token
  BY DEF Token, Joins
<1>2. \A c \in Token : <<c>> \in Seq(Token)
  OBVIOUS
<1>3. \A t \in Seq(Token) : Grouped(t) \in Seq(Token)
  BY <1>1 DEF Grouped
<1>4. ASSUME NEW level \in 1..2, NEW t \in Seq(Token), NEW u \in Seq(Token)
      PROVE  Between(t, level, u) \in Seq(Token)
  <2> DEFINE w == Word(Joins(level))
  <2>1. w \in Token
    BY <1>1
  <2> HIDE DEF w
  <2>2. t \o <<w>> \o u \in Seq(Token)
    BY <2>1
  <2> QED
    BY <2>2 DEF Between, w
<1> QED
  BY <1>2, <1>3, <1>4

LEMMA ReadGroup ==
  ASSUME NEW env, NEW t \in Seq(Token), NEW b \in BOOLEAN, ReadAs(env, 1, t, b)
  PROVE  ReadAs(env, 3, Grouped(t), b)
<1> DEFINE u == Grouped(t)
<1>1. /\ Len(u) = Len(t) + 2 /\ u[1] = Word("(") /\ u[Len(t) + 2] = Word(")")
      /\ \A i \in 1..Len(t) : u[i + 1] = t[i]
  BY DEF Grouped
<1> HIDE DEF u
<1> SUFFICES ASSUME NEW tokens \in Seq(Token), NEW p \in Nat, Placed(tokens, p, u)
             PROVE  Read(Parsers(tokens, env), 3, p + 1) =
                      [ok |-> TRUE, holds |-> b, next |-> p + Len(u) + 1]
  BY DEF ReadAs, u
<1> DEFINE end == (p + 1) + Len(t) + 1
<1>2. /\ p + 1 \in DOMAIN tokens /\ tokens[p + 1] = Word("(")
      /\ end \in DOMAIN tokens /\ tokens[end] = Word(")")
      /\ Placed(tokens, p + 1, t)
  <2>1. p + Len(u) <= Len(tokens) /\ \A i \in 1..Len(u) : tokens[p + i] = u[i]
    BY DEF Placed
  <2>2. /\ 1 \in 1..Len(u) /\ Len(t) + 2 \in 1..Len(u) /\ p + (Len(t) + 2) = end
        /\ \A i \in 1..Len(t) : i + 1 \in 1..Len(u) /\ p + (i + 1) = (p + 1) + i
    BY <1>1
  <2>3. tokens[p + 1] = Word("(") /\ tokens[end] = Word(")")
    BY <1>1, <2>1, <2>2
  <2>4. \A i \in 1..Len(t) : tokens[(p + 1) + i] = t[i]
    BY <1>1, <2>1, <2>2
  <2>5. p + 1 \in DOMAIN tokens /\ end \in DOMAIN tokens /\ (p + 1) + Len(t) <= Len(tokens)
    BY <1>1, <2>1
  <2> QED
    BY <2>3, <2>4, <2>5 DEF Placed
<1>3. KindAt(tokens, p + 1) = "(" /\ KindAt(tokens, end) = ")"
  <2>1. \A w : Word(w).kind = w
    BY DEF Word
  <2> HIDE DEF end
  <2> QED
    BY <1>2, <2>1 DEF KindAt
<1>4. Ends(1, tokens, end)
  BY <1>3 DEF Ends, Joins
<1>5. Read(Parsers(tokens, env), 1, (p + 1) + 1) = [ok |-> TRUE, holds |-> b, next |-> end]
  BY <1>2, <1>4 DEF ReadAs
<1>6. Read(Parsers(tokens, env), 3, p + 1) =
        AtomAt(tokens, env, Read(Parsers(tokens, env), 1, (p + 1) + 1), p + 1)
  BY ParserAtom
<1>7. end \in Nat /\ end + 1 = p + Len(u) + 1
  BY <1>1
<1> HIDE DEF end
<1> DEFINE inner == [ok |-> TRUE, holds |-> b, next |-> end]
<1>8. /\ inner.ok /\ inner.next = end
      /\ [inner EXCEPT !.next = @ + 1] = [ok |-> TRUE, holds |-> b, next |-> end + 1]
  <2>1. inner.ok /\ inner.next = end
    OBVIOUS
  <2>2. [inner EXCEPT !.next = @ + 1] = [inner EXCEPT !.next = end + 1]
    BY <2>1
  <2>3. \A ok, holds, next, later :
          [[ok |-> ok, holds |-> holds, next |-> next] EXCEPT !.next = later] =
            [ok |-> ok, holds |-> holds, next |-> later]
    OBVIOUS
  <2>4. [inner EXCEPT !.next = end + 1] = [ok |-> TRUE, holds |-> b, next |-> end + 1]
    BY <2>3
  <2> QED
    BY <2>1, <2>2, <2>4
<1>9. Read(Parsers(tokens, env), 3, p + 1) = AtomAt(tokens, env, inner, p + 1)
  BY <1>5, <1>6
<1> HIDE DEF inner
<1>10. AtomAt(tokens, env, inner, p + 1) = [inner EXCEPT !.next = @ + 1]
  BY <1>3, <1>8 DEF AtomAt
<1> QED
  BY <1>7, <1>8, <1>9, <1>10

LEMMA ReadAlone ==
  ASSUME NEW env, NEW t \in Seq(Token), NEW b \in BOOLEAN, NEW level \in 1..2,
         ReadAs(env, level + 1, t, b)
  PROVE  ReadAs(env, level, t, b)
<1> SUFFICES ASSUME NEW tokens \in Seq(Token), NEW p \in Nat, Placed(tokens, p, t),
                    Ends(level, tokens, p + Len(t) + 1)
             PROVE  Read(Parsers(tokens, env), level, p + 1) =
                      [ok |-> TRUE, holds |-> b, next |-> p + Len(t) + 1]
  BY DEF ReadAs
<1> DEFINE left == [ok |-> TRUE, holds |-> b, next |-> p + Len(t) + 1]
<1>1. Ends(level + 1, tokens, p + Len(t) + 1) /\ KindAt(tokens, p + Len(t) + 1) # Joins(level)
  BY DEF Ends
<1>2. left = Read(Parsers(tokens, env), level + 1, p + 1)
  BY <1>1 DEF ReadAs
<1>3. Read(Parsers(tokens, env), level, p + 1) =
        JoinAt(tokens, level, left, Read(Parsers(tokens, env), level, left.next + 1))
  BY <1>2, ParserJoin
<1> QED
  BY <1>1, <1>3 DEF JoinAt

LEMMA ReadJoined ==
  ASSUME NEW env, NEW level \in 1..2, NEW t \in Seq(Token), NEW u \in Seq(Token),
         NEW b \in BOOLEAN, NEW c \in BOOLEAN,
         ReadAs(env, level + 1, t, b), ReadAs(env, level, u, c)
  PROVE  ReadAs(env, level, Between(t, level, u), Joined(level, b, c))
<1> DEFINE w == Between(t, level, u)
<1>1. /\ Len(w) = Len(t) + 1 + Len(u)
      /\ \A i \in 1..Len(t) : w[i] = t[i]
      /\ w[Len(t) + 1] = Word(Joins(level))
      /\ \A i \in 1..Len(u) : w[Len(t) + 1 + i] = u[i]
  BY DEF Between
<1> HIDE DEF w
<1> SUFFICES ASSUME NEW tokens \in Seq(Token), NEW p \in Nat, Placed(tokens, p, w),
                    Ends(level, tokens, p + Len(w) + 1)
             PROVE  Read(Parsers(tokens, env), level, p + 1) =
                      [ok |-> TRUE, holds |-> Joined(level, b, c), next |-> p + Len(w) + 1]
  BY DEF ReadAs, w
<1> DEFINE q == p + Len(t) + 1
           left == [ok |-> TRUE, holds |-> b, next |-> q]
           right == [ok |-> TRUE, holds |-> c, next |-> q + Len(u) + 1]
<1>2. /\ Placed(tokens, p, t) /\ Placed(tokens, q, u)
      /\ q \in DOMAIN tokens /\ tokens[q] = Word(Joins(level))
      /\ q \in Nat /\ q + Len(u) + 1 = p + Len(w) + 1
  <2>1. p + Len(w) <= Len(tokens) /\ \A i \in 1..Len(w) : tokens[p + i] = w[i]
    BY DEF Placed
  <2>2. /\ Len(t) + 1 \in 1..Len(w) /\ p + (Len(t) + 1) = q
        /\ \A i \in 1..Len(t) : i \in 1..Len(w)
        /\ \A i \in 1..Len(u) : Len(t) + 1 + i \in 1..Len(w) /\ p + (Len(t) + 1 + i) = q + i
    BY <1>1
  <2>3. /\ tokens[q] = Word(Joins(level))
        /\ \A i \in 1..Len(t) : tokens[p + i] = t[i]
        /\ \A i \in 1..Len(u) : tokens[q + i] = u[i]
    BY <1>1, <2>1, <2>2
  <2>4. /\ q \in DOMAIN tokens /\ p + Len(t) <= Len(tokens) /\ q + Len(u) <= Len(tokens)
        /\ q \in Nat /\ q + Len(u) + 1 = p + Len(w) + 1
    BY <1>1, <2>1
  <2> QED
    BY <2>3, <2>4 DEF Placed
<1>3. KindAt(tokens, q) = Joins(level) /\ Ends(level + 1, tokens, q)
  <2>1. Word(Joins(level)).kind = Joins(level)
    BY DEF Word
  <2> HIDE DEF q
  <2>2. KindAt(tokens, q) = Joins(level)
    BY <1>2, <2>1 DEF KindAt
  <2>3. \A l \in (level + 1)..2 : Joins(l) # Joins(level)
    BY DEF Joins
  <2> QED
    BY <2>2, <2>3 DEF Ends
<1>4. left = Read(Parsers(tokens, env), level + 1, p + 1)
  BY <1>2, <1>3 DEF ReadAs
<1>5. right = Read(Parsers(tokens, env), level, q + 1)
  BY <1>2 DEF ReadAs
<1>6. Read(Parsers(tokens, env), level, p + 1) =
        JoinAt(tokens, level, left, Read(Parsers(tokens, env), level, left.next + 1))
  BY <1>4, ParserJoin
<1>7. left.next = q /\ left.ok /\ left.holds = b
  OBVIOUS
<1> HIDE DEF left
<1>8. Read(Parsers(tokens, env), level, p + 1) = JoinAt(tokens, level, left, right)
  BY <1>5, <1>6, <1>7
<1>9. JoinAt(tokens, level, left, right) =
        [ok |-> right.ok, next |-> right.next, holds |-> Joined(level, left.holds, right.holds)]
  BY <1>3, <1>7 DEF JoinAt
<1>10. right.ok = TRUE /\ right.holds = c /\ right.next = p + Len(w) + 1
  BY <1>2
<1> HIDE DEF right
<1> QED
  BY <1>7, <1>8, <1>9, <1>10

Reading == (1..3) \X Seq(Token) \X BOOLEAN

(* One of S: t is written at a level, and means b.                         *)
Among(S, level, t, b) == <<level, t, b>> \in S

(* S has what the rules of the grammar make of what it has.               *)
Obeys(S, env) ==
  /\ \A c \in Token : c.kind = "comparison" => Among(S, 3, <<c>>, Truth(c, env))
  /\ \A t \in Seq(Token), b \in BOOLEAN :
       Among(S, 1, t, b) => Among(S, 3, Grouped(t), b)
  /\ \A level \in 1..2, t \in Seq(Token), b \in BOOLEAN :
       Among(S, level + 1, t, b) => Among(S, level, t, b)
  /\ \A level \in 1..2, t \in Seq(Token), u \in Seq(Token), b \in BOOLEAN, c \in BOOLEAN :
       Among(S, level + 1, t, b) /\ Among(S, level, u, c) =>
         Among(S, level, Between(t, level, u), Joined(level, b, c))

(* The grammar of markers: what is written at a level, and whether it      *)
(* holds in env; the least set with these rules.                           *)
Grammar(env) == {x \in Reading : \A S \in SUBSET Reading : Obeys(S, env) => x \in S}

LEMMA GrammarRead ==
  ASSUME NEW env, NEW t \in Seq(Token), NEW b \in BOOLEAN, NEW level \in 1..3,
         Among(Grammar(env), level, t, b)
  PROVE  ReadAs(env, level, t, b)
<1> DEFINE S == {x \in Reading : ReadAs(env, x[1], x[2], x[3])}
<1>1. \A l \in 1..3, u \in Seq(Token), c \in BOOLEAN :
        Among(S, l, u, c) <=> ReadAs(env, l, u, c)
  BY DEF Among, Reading
<1>2. S \in SUBSET Reading
  OBVIOUS
<1> HIDE DEF S
<1>3. \A c \in Token : c.kind = "comparison" => Among(S, 3, <<c>>, Truth(c, env))
  <2> SUFFICES ASSUME NEW c \in Token, c.kind = "comparison"
               PROVE  Among(S, 3, <<c>>, Truth(c, env))
    OBVIOUS
  <2> DEFINE u == <<c>>
             means == Truth(c, env)
  <2>1. u \in Seq(Token) /\ means \in BOOLEAN /\ ReadAs(env, 3, u, means)
    BY WrittenType, TruthType, ReadComparison
  <2> HIDE DEF u, means
  <2>2. Among(S, 3, u, means)
    BY <1>1, <2>1
  <2> QED
    BY <2>2 DEF u, means
<1>4. \A u \in Seq(Token), c \in BOOLEAN :
        Among(S, 1, u, c) => Among(S, 3, Grouped(u), c)
  BY <1>1, WrittenType, ReadGroup
<1>5. \A l \in 1..2, u \in Seq(Token), c \in BOOLEAN :
        Among(S, l + 1, u, c) => Among(S, l, u, c)
  BY <1>1, ReadAlone
<1>6. ASSUME NEW l \in 1..2, NEW u \in Seq(Token), NEW v \in Seq(Token),
             NEW c \in BOOLEAN, NEW d \in BOOLEAN, Among(S, l + 1, u, c), Among(S, l, v, d)
      PROVE  Among(S, l, Between(u, l, v), Joined(l, c, d))
  <2>1. Between(u, l, v) \in Seq(Token)
    BY WrittenType
  <2>2. Joined(l, c, d) \in BOOLEAN
    BY DEF Joined
  <2>3. ReadAs(env, l + 1, u, c) /\ ReadAs(env, l, v, d)
    BY <1>1, <1>6
  <2>4. ReadAs(env, l, Between(u, l, v), Joined(l, c, d))
    BY <2>3, ReadJoined
  <2> QED
    BY <1>1, <2>1, <2>2, <2>4
<1>7. Obeys(S, env)
  BY <1>3, <1>4, <1>5, <1>6 DEF Obeys
<1>8. Among(S, level, t, b)
  BY <1>2, <1>7 DEF Grammar, Among
<1> QED
  BY <1>1, <1>8

(* Whatever is written by the grammar, nested as deep as one likes, is read*)
(* to its end, and as what the grammar says: parseMarkerOr, parseMarkerAnd *)
(* and parseMarkerAtom group as PEP 508 does.  It is about the groups: a   *)
(* comparison counts as parseMarkerAtom reads it.                          *)
THEOREM MarkersGroup ==
  ASSUME NEW env, NEW t \in Seq(Token), NEW b \in BOOLEAN,
         Among(Grammar(env), 1, t, b)
  PROVE  Parse(t, env) = [ok |-> TRUE, holds |-> b, next |-> Len(t) + 1]
<1>1. ReadAs(env, 1, t, b)
  BY GrammarRead
<1>2. Placed(t, 0, t)
  BY DEF Placed
<1>3. Ends(1, t, 0 + Len(t) + 1)
  <2>1. KindAt(t, Len(t) + 1) = "end"
    BY DEF KindAt
  <2> QED
    BY <2>1 DEF Ends, Joins
<1>4. Read(Parsers(t, env), 1, 0 + 1) = [ok |-> TRUE, holds |-> b, next |-> 0 + Len(t) + 1]
  BY <1>1, <1>2, <1>3 DEF ReadAs
<1> QED
  BY <1>4, ParseReads

LEMMA GrammarObeys ==
  ASSUME NEW env
  PROVE  Obeys(Grammar(env), env)
<1> DEFINE G == Grammar(env)
<1>1. \A l \in 1..3, t \in Seq(Token), b \in BOOLEAN :
        Among(G, l, t, b) <=> \A S \in SUBSET Reading : Obeys(S, env) => Among(S, l, t, b)
  BY DEF Grammar, Among, Reading
<1> HIDE DEF G
<1>2. \A c \in Token : c.kind = "comparison" => Among(G, 3, <<c>>, Truth(c, env))
  <2> SUFFICES ASSUME NEW c \in Token, c.kind = "comparison"
               PROVE  Among(G, 3, <<c>>, Truth(c, env))
    OBVIOUS
  <2> DEFINE u == <<c>>
             means == Truth(c, env)
  <2>1. u \in Seq(Token) /\ means \in BOOLEAN
    BY WrittenType, TruthType
  <2>2. \A S \in SUBSET Reading : Obeys(S, env) => Among(S, 3, u, means)
    BY DEF Obeys
  <2> HIDE DEF u, means
  <2>3. Among(G, 3, u, means)
    BY <1>1, <2>1, <2>2
  <2> QED
    BY <2>3 DEF u, means
<1>3. \A t \in Seq(Token), b \in BOOLEAN : Among(G, 1, t, b) => Among(G, 3, Grouped(t), b)
  <2> SUFFICES ASSUME NEW t \in Seq(Token), NEW b \in BOOLEAN, Among(G, 1, t, b)
               PROVE  Among(G, 3, Grouped(t), b)
    OBVIOUS
  <2>1. \A S \in SUBSET Reading : Obeys(S, env) => Among(S, 1, t, b)
    BY <1>1
  <2>2. \A S \in SUBSET Reading : Obeys(S, env) => Among(S, 3, Grouped(t), b)
    BY <2>1 DEF Obeys
  <2> QED
    BY <1>1, <2>2, WrittenType
<1>4. \A level \in 1..2, t \in Seq(Token), b \in BOOLEAN :
        Among(G, level + 1, t, b) => Among(G, level, t, b)
  <2> SUFFICES ASSUME NEW level \in 1..2, NEW t \in Seq(Token), NEW b \in BOOLEAN,
                      Among(G, level + 1, t, b)
               PROVE  Among(G, level, t, b)
    OBVIOUS
  <2>1. \A S \in SUBSET Reading : Obeys(S, env) => Among(S, level + 1, t, b)
    BY <1>1
  <2>2. \A S \in SUBSET Reading : Obeys(S, env) => Among(S, level, t, b)
    BY <2>1 DEF Obeys
  <2> QED
    BY <1>1, <2>2
<1>5. ASSUME NEW level \in 1..2, NEW t \in Seq(Token), NEW u \in Seq(Token),
             NEW b \in BOOLEAN, NEW c \in BOOLEAN,
             Among(G, level + 1, t, b), Among(G, level, u, c)
      PROVE  Among(G, level, Between(t, level, u), Joined(level, b, c))
  <2>1. \A S \in SUBSET Reading :
          Obeys(S, env) => Among(S, level + 1, t, b) /\ Among(S, level, u, c)
    BY <1>1, <1>5
  <2>2. \A S \in SUBSET Reading :
          Obeys(S, env) => Among(S, level, Between(t, level, u), Joined(level, b, c))
    BY <2>1 DEF Obeys
  <2>3. Between(t, level, u) \in Seq(Token) /\ Joined(level, b, c) \in BOOLEAN
    BY WrittenType DEF Joined
  <2> QED
    BY <1>1, <2>2, <2>3
<1> QED
  BY <1>2, <1>3, <1>4, <1>5 DEF Obeys, G

(* Two texts of level 3 with a word between them.                          *)
Pair(t, word, u) == t \o <<Word(word)>> \o u

Join(word, b, c) == IF word = "and" THEN (b /\ c) ELSE (b \/ c)

LEMMA PairMeans ==
  ASSUME NEW env, NEW word \in {"and", "or"}, NEW t \in Seq(Token), NEW u \in Seq(Token),
         NEW b \in BOOLEAN, NEW c \in BOOLEAN,
         Among(Grammar(env), 3, t, b), Among(Grammar(env), 3, u, c)
  PROVE  /\ Pair(t, word, u) \in Seq(Token) /\ Join(word, b, c) \in BOOLEAN
         /\ Among(Grammar(env), 1, Pair(t, word, u), Join(word, b, c))
         /\ word = "and" => Among(Grammar(env), 2, Pair(t, word, u), Join(word, b, c))
<1> DEFINE G == Grammar(env)
<1>1. Among(G, 2, t, b) /\ Among(G, 2, u, c) /\ Among(G, 1, u, c)
  <2>1. \A v \in Seq(Token), d \in BOOLEAN : Among(G, 2 + 1, v, d) => Among(G, 2, v, d)
    BY GrammarObeys DEF Obeys
  <2>2. \A v \in Seq(Token), d \in BOOLEAN : Among(G, 1 + 1, v, d) => Among(G, 1, v, d)
    BY GrammarObeys DEF Obeys
  <2> QED
    BY <2>1, <2>2
<1>2. CASE word = "and"
  <2>1. Pair(t, word, u) = Between(t, 2, u) /\ Join(word, b, c) = Joined(2, b, c)
    BY <1>2 DEF Pair, Between, Joins, Join, Joined
  <2>2. Between(t, 2, u) \in Seq(Token) /\ Joined(2, b, c) \in BOOLEAN
    BY WrittenType DEF Joined
  <2>3. Among(G, 2, Between(t, 2, u), Joined(2, b, c))
    BY <1>1, GrammarObeys DEF Obeys
  <2>4. Among(G, 1, Between(t, 2, u), Joined(2, b, c))
    BY <2>2, <2>3, GrammarObeys DEF Obeys
  <2> QED
    BY <2>1, <2>2, <2>3, <2>4
<1>3. CASE word = "or"
  <2>1. Pair(t, word, u) = Between(t, 1, u) /\ Join(word, b, c) = Joined(1, b, c)
    BY <1>3 DEF Pair, Between, Joins, Join, Joined
  <2>2. Between(t, 1, u) \in Seq(Token) /\ Joined(1, b, c) \in BOOLEAN
    BY WrittenType DEF Joined
  <2>3. Among(G, 1, Between(t, 1, u), Joined(1, b, c))
    BY <1>1, GrammarObeys DEF Obeys
  <2> QED
    BY <1>3, <2>1, <2>2, <2>3
<1> QED
  BY <1>2, <1>3

Cat(s, t) == s \o t

LEMMA CatLaws ==
  /\ \A s \in Seq(Token), t \in Seq(Token) : Cat(s, t) \in Seq(Token)
  /\ \A s \in Seq(Token), t \in Seq(Token), u \in Seq(Token) :
       Cat(Cat(s, t), u) = Cat(s, Cat(t, u))
<1>1. ASSUME NEW s \in Seq(Token), NEW t \in Seq(Token)
      PROVE  Cat(s, t) \in Seq(Token)
  BY DEF Cat
<1>2. ASSUME NEW s \in Seq(Token), NEW t \in Seq(Token), NEW u \in Seq(Token)
      PROVE  Cat(Cat(s, t), u) = Cat(s, Cat(t, u))
  <2>1. (s \o t) \o u = s \o (t \o u)
    OBVIOUS
  <2> QED
    BY <2>1, Zenon DEF Cat
<1> QED
  BY <1>1, <1>2

LEMMA WordType ==
  /\ \A w \in {"and", "or", "(", ")"} : Word(w) \in Token /\ <<Word(w)>> \in Seq(Token)
<1>1. ASSUME NEW w \in {"and", "or", "(", ")"} PROVE Word(w) \in Token
  BY DEF Token
<1> QED
  BY <1>1

LEMMA PairIs ==
  /\ \A t, w, u : Pair(t, w, u) = Cat(Cat(t, <<Word(w)>>), u)
  /\ \A t : Grouped(t) = Cat(Cat(<<Word("(")>>, t), <<Word(")")>>)
  BY Zenon DEF Pair, Grouped, Cat

LEMMA PairType ==
  ASSUME NEW t \in Seq(Token), NEW u \in Seq(Token), NEW v \in {"and", "or"}
  PROVE  Pair(t, v, u) \in Seq(Token)
<1>1. <<Word(v)>> \in Seq(Token)
  BY WordType
<1> QED
  BY <1>1, PairIs, CatLaws

LEMMA PairAgain ==
  ASSUME NEW t \in Seq(Token), NEW u \in Seq(Token), NEW z \in Seq(Token),
         NEW v \in {"and", "or"}, NEW w \in {"and", "or"}
  PROVE  Pair(t, v, Pair(u, w, z)) = Pair(Pair(t, v, u), w, z)
<1> DEFINE x == <<Word(v)>>
           y == <<Word(w)>>
<1>1. x \in Seq(Token) /\ y \in Seq(Token)
  BY WordType
<1>2. /\ Pair(t, v, Pair(u, w, z)) = Cat(Cat(t, x), Cat(Cat(u, y), z))
      /\ Pair(Pair(t, v, u), w, z) = Cat(Cat(Cat(Cat(t, x), u), y), z)
  BY PairIs
<1> HIDE DEF x, y
<1>3. Cat(Cat(t, x), Cat(Cat(u, y), z)) = Cat(Cat(Cat(t, x), Cat(u, y)), z)
  BY <1>1, CatLaws
<1>4. Cat(Cat(t, x), Cat(u, y)) = Cat(Cat(Cat(t, x), u), y)
  BY <1>1, CatLaws
<1> QED
  BY <1>2, <1>3, <1>4

(* Three texts of level 3 with words between them: "and" binds tighter.    *)
LEMMA ThreeMean ==
  ASSUME NEW env, NEW v \in {"and", "or"}, NEW w \in {"and", "or"},
         NEW t \in Seq(Token), NEW u \in Seq(Token), NEW z \in Seq(Token),
         NEW b \in BOOLEAN, NEW c \in BOOLEAN, NEW d \in BOOLEAN,
         Among(Grammar(env), 3, t, b), Among(Grammar(env), 3, u, c),
         Among(Grammar(env), 3, z, d)
  PROVE  Among(Grammar(env), 1, Pair(Pair(t, v, u), w, z),
               IF v = "or" /\ w = "and" THEN Join(v, b, Join(w, c, d))
               ELSE Join(w, Join(v, b, c), d))
<1> DEFINE G == Grammar(env)
<1>1. /\ \A x \in Seq(Token), e \in BOOLEAN : Among(G, 2 + 1, x, e) => Among(G, 2, x, e)
      /\ \A x \in Seq(Token), e \in BOOLEAN : Among(G, 1 + 1, x, e) => Among(G, 1, x, e)
  BY GrammarObeys DEF Obeys
<1>2. Among(G, 2, t, b) /\ Among(G, 2, z, d) /\ Among(G, 1, z, d)
  BY <1>1
<1>3. /\ Pair(t, v, u) \in Seq(Token) /\ Join(v, b, c) \in BOOLEAN
      /\ v = "and" => Among(G, 2, Pair(t, v, u), Join(v, b, c))
  BY PairMeans
<1>4. /\ Pair(u, w, z) \in Seq(Token) /\ Join(w, c, d) \in BOOLEAN
      /\ Among(G, 1, Pair(u, w, z), Join(w, c, d))
      /\ w = "and" => Among(G, 2, Pair(u, w, z), Join(w, c, d))
  BY PairMeans
<1>5. CASE v = "or"
  <2>1. Among(G, 1, Between(t, 1, Pair(u, w, z)), Joined(1, b, Join(w, c, d)))
    BY <1>2, <1>4, GrammarObeys DEF Obeys
  <2>2. Between(t, 1, Pair(u, w, z)) = Pair(t, v, Pair(u, w, z))
    BY <1>5 DEF Between, Pair, Joins
  <2>3. Between(t, 1, Pair(u, w, z)) = Pair(Pair(t, v, u), w, z)
    BY <2>2, PairAgain
  <2>4. Joined(1, b, Join(w, c, d)) =
          IF v = "or" /\ w = "and" THEN Join(v, b, Join(w, c, d))
          ELSE Join(w, Join(v, b, c), d)
    BY <1>5 DEF Joined, Joins, Join
  <2> QED
    BY <2>1, <2>3, <2>4
<1>6. CASE v = "and" /\ w = "and"
  <2>1. /\ Between(t, 2, Pair(u, w, z)) \in Seq(Token)
        /\ Joined(2, b, Join(w, c, d)) \in BOOLEAN
        /\ Among(G, 2, Between(t, 2, Pair(u, w, z)), Joined(2, b, Join(w, c, d)))
    <3>1. Joined(2, b, Join(w, c, d)) \in BOOLEAN
      BY DEF Joined
    <3>2. Between(t, 2, Pair(u, w, z)) \in Seq(Token)
      BY <1>4, WrittenType
    <3>3. Among(G, 2 + 1, t, b)
      OBVIOUS
    <3>4. Among(G, 2, Between(t, 2, Pair(u, w, z)), Joined(2, b, Join(w, c, d)))
      BY <1>4, <1>6, <3>3, GrammarObeys DEF Obeys
    <3> QED
      BY <3>1, <3>2, <3>4
  <2>2. Among(G, 1, Between(t, 2, Pair(u, w, z)), Joined(2, b, Join(w, c, d)))
    BY <1>1, <2>1
  <2>3. Between(t, 2, Pair(u, w, z)) = Pair(t, v, Pair(u, w, z))
    BY <1>6 DEF Between, Pair, Joins
  <2>4. Between(t, 2, Pair(u, w, z)) = Pair(Pair(t, v, u), w, z)
    BY <2>3, PairAgain
  <2>5. Joined(2, b, Join(w, c, d)) =
          IF v = "or" /\ w = "and" THEN Join(v, b, Join(w, c, d))
          ELSE Join(w, Join(v, b, c), d)
    BY <1>6 DEF Joined, Joins, Join
  <2> QED
    BY <2>2, <2>4, <2>5
<1>7. CASE v = "and" /\ w = "or"
  <2>1. Among(G, 1, Between(Pair(t, v, u), 1, z), Joined(1, Join(v, b, c), d))
    <3>1. Among(G, 1 + 1, Pair(t, v, u), Join(v, b, c))
      BY <1>3, <1>7
    <3> QED
      BY <1>2, <1>3, <3>1, GrammarObeys DEF Obeys
  <2>2. Between(Pair(t, v, u), 1, z) = Pair(Pair(t, v, u), w, z)
    BY <1>7 DEF Between, Pair, Joins
  <2>3. Joined(1, Join(v, b, c), d) =
          IF v = "or" /\ w = "and" THEN Join(v, b, Join(w, c, d))
          ELSE Join(w, Join(v, b, c), d)
    BY <1>7 DEF Joined, Joins, Join
  <2> QED
    BY <2>1, <2>2, <2>3
<1> QED
  BY <1>5, <1>6, <1>7

LEMMA PartType ==
  ASSUME NEW m \in Marker
  PROVE  /\ \A i \in 1..3 : m.parts[i] \in Token /\ m.parts[i].kind = "comparison"
         /\ m.words[1] \in {"and", "or"} /\ m.words[2] \in {"and", "or"}
         /\ m.group \in {"none", "first", "last"}
<1>1. m.words \in [1..2 -> {"and", "or"}] /\ m.group \in {"none", "first", "last"}
  BY DEF Marker
<1>2. m.parts \in [1..3 -> [kind : {"comparison"}, var : STRING, text : Text,
                            valueFirst : BOOLEAN,
                            op : {"in", "not in", "==", "!=", "<", "<=", ">", ">="}]]
  BY DEF Marker
<1>3. \A i \in 1..3 : m.parts[i] \in Token /\ m.parts[i].kind = "comparison"
  BY <1>2 DEF Token
<1> QED
  BY <1>1, <1>3

LEMMA CatFirst ==
  ASSUME NEW s \in Seq(Token), NEW p \in Seq(Token), NEW x \in Seq(Token),
         NEW q \in Seq(Token)
  PROVE  Cat(s, Cat(Cat(p, x), q)) = Cat(Cat(Cat(s, p), x), q)
<1>1. Cat(s, Cat(Cat(p, x), q)) = Cat(Cat(s, Cat(p, x)), q)
  BY CatLaws
<1>2. Cat(s, Cat(p, x)) = Cat(Cat(s, p), x)
  BY CatLaws
<1> QED
  BY <1>1, <1>2

(* How a marker is written, in terms of its parts.                         *)
LEMMA WrittenIs ==
  ASSUME NEW m \in Marker
  PROVE  LET p == <<m.parts[1]>>
             q == <<m.parts[2]>>
             r == <<m.parts[3]>>
             v == m.words[1]
             w == m.words[2]
         IN  /\ m.group = "none" => Written(m) = Pair(Pair(p, v, q), w, r)
             /\ m.group = "first" => Written(m) = Pair(Grouped(Pair(p, v, q)), w, r)
             /\ m.group = "last" => Written(m) = Pair(p, v, Grouped(Pair(q, w, r)))
<1> DEFINE p == <<m.parts[1]>>
           q == <<m.parts[2]>>
           r == <<m.parts[3]>>
           v == m.words[1]
           w == m.words[2]
           open == <<Word("(")>>
           close == <<Word(")")>>
           x == <<Word(v)>>
           y == <<Word(w)>>
<1>1. /\ open \in Seq(Token) /\ close \in Seq(Token) /\ x \in Seq(Token) /\ y \in Seq(Token)
      /\ p \in Seq(Token) /\ q \in Seq(Token) /\ r \in Seq(Token)
  BY PartType, WordType, WrittenType
<1>2. /\ m.group = "none" => Written(m) = Cat(Cat(Cat(Cat(p, x), q), y), r)
      /\ m.group = "first" =>
           Written(m) = Cat(Cat(Cat(Cat(Cat(Cat(open, p), x), q), close), y), r)
      /\ m.group = "last" =>
           Written(m) = Cat(Cat(Cat(Cat(Cat(Cat(p, x), open), q), y), r), close)
  BY DEF Written, Cat
<1>3. /\ Pair(Pair(p, v, q), w, r) = Cat(Cat(Cat(Cat(p, x), q), y), r)
      /\ Pair(Grouped(Pair(p, v, q)), w, r) =
           Cat(Cat(Cat(Cat(open, Cat(Cat(p, x), q)), close), y), r)
      /\ Pair(p, v, Grouped(Pair(q, w, r))) =
           Cat(Cat(p, x), Cat(Cat(open, Cat(Cat(q, y), r)), close))
  BY PairIs
<1> HIDE DEF open, close, x, y, p, q, r, v, w
<1>4. Cat(open, Cat(Cat(p, x), q)) = Cat(Cat(Cat(open, p), x), q)
  BY <1>1, CatFirst
<1>5. Cat(Cat(p, x), Cat(Cat(open, Cat(Cat(q, y), r)), close)) =
        Cat(Cat(Cat(Cat(Cat(Cat(p, x), open), q), y), r), close)
  <2> DEFINE s == Cat(p, x)
             t == Cat(Cat(q, y), r)
             z == Cat(s, open)
  <2>1. s \in Seq(Token) /\ t \in Seq(Token)
    BY <1>1, CatLaws
  <2>2. z \in Seq(Token)
    BY <1>1, <2>1, CatLaws
  <2> HIDE DEF z
  <2>3. Cat(z, t) = Cat(Cat(Cat(z, q), y), r)
    BY <1>1, <2>2, CatFirst
  <2> HIDE DEF s, t
  <2>4. Cat(s, Cat(Cat(open, t), close)) = Cat(Cat(z, t), close)
    BY <1>1, <2>1, CatFirst DEF z
  <2> QED
    BY <2>3, <2>4 DEF s, t, z
<1>6. /\ m.group = "none" => Written(m) = Pair(Pair(p, v, q), w, r)
      /\ m.group = "first" => Written(m) = Pair(Grouped(Pair(p, v, q)), w, r)
      /\ m.group = "last" => Written(m) = Pair(p, v, Grouped(Pair(q, w, r)))
  BY <1>2, <1>3, <1>4, <1>5
<1> QED
  BY <1>6 DEF p, q, r, v, w

(* Equality does not mind which side is written first.                     *)
LEMMA StraightSays ==
  ASSUME NEW env, NEW m \in Marker, Straight(m), NEW i \in 1..3
  PROVE  Says(m.parts[i], env) = Truth(m.parts[i], env)
<1> DEFINE c == m.parts[i]
           x == Lookup(c.var, env)
           y == c.text
<1>1. CASE ~c.valueFirst
  BY <1>1 DEF Says, Truth, Holds
<1>2. CASE c.valueFirst
  <2>1. c.op \in {"==", "!="}
    BY <1>2 DEF Straight
  <2>2. Says(c, env) = EvaluateOp(y, c.op, x) /\ Truth(c, env) = EvaluateOp(x, c.op, y)
    BY <1>2 DEF Says, Truth, Holds
  <2> HIDE DEF x, y, c
  <2>3. /\ EvaluateOp(y, "==", x) = (y = x) /\ EvaluateOp(x, "==", y) = (x = y)
        /\ EvaluateOp(y, "!=", x) = (y # x) /\ EvaluateOp(x, "!=", y) = (x # y)
    BY DEF EvaluateOp
  <2> QED
    BY <2>1, <2>2, <2>3 DEF c
<1> QED
  BY <1>1, <1>2

(* What is read of a marker: the comparisons as the code evaluates them,   *)
(* in the groups they are written in.                                      *)
GroupedAs(m, v, w, h, j, k) ==
  IF m.group = "last" \/ (m.group = "none" /\ v = "or" /\ w = "and")
  THEN Join(v, h, Join(w, j, k)) ELSE Join(w, Join(v, h, j), k)

AsRead(m, env) ==
  GroupedAs(m, m.words[1], m.words[2], Truth(m.parts[1], env), Truth(m.parts[2], env),
            Truth(m.parts[3], env))

LEMMA MeaningIs ==
  ASSUME NEW env, NEW m \in Marker, Straight(m)
  PROVE  Meaning(m, env) = AsRead(m, env)
<1> DEFINE h == Says(m.parts[1], env)
           j == Says(m.parts[2], env)
           k == Says(m.parts[3], env)
           v == m.words[1]
           w == m.words[2]
<1>1. Meaning(m, env) = GroupedAs(m, v, w, h, j, k)
  <2>1. CASE m.group = "last" \/ (m.group = "none" /\ v = "or" /\ w = "and")
    BY <2>1, Zenon DEF Meaning, Join, GroupedAs
  <2>2. CASE ~(m.group = "last" \/ (m.group = "none" /\ v = "or" /\ w = "and"))
    BY <2>2, Zenon DEF Meaning, Join, GroupedAs
  <2> QED
    BY <2>1, <2>2
<1>2. /\ h = Truth(m.parts[1], env) /\ j = Truth(m.parts[2], env)
      /\ k = Truth(m.parts[3], env)
  BY StraightSays
<1> QED
  BY <1>1, <1>2, Zenon DEF AsRead

LEMMA WrittenMeans ==
  ASSUME NEW env, NEW m \in Marker
  PROVE  /\ Written(m) \in Seq(Token) /\ AsRead(m, env) \in BOOLEAN
         /\ Among(Grammar(env), 1, Written(m), AsRead(m, env))
<1> DEFINE G == Grammar(env)
           p == <<m.parts[1]>>
           q == <<m.parts[2]>>
           r == <<m.parts[3]>>
           h == Truth(m.parts[1], env)
           j == Truth(m.parts[2], env)
           k == Truth(m.parts[3], env)
           v == m.words[1]
           w == m.words[2]
<1>1. v \in {"and", "or"} /\ w \in {"and", "or"} /\ m.group \in {"none", "first", "last"}
  BY PartType
<1>2. /\ p \in Seq(Token) /\ h \in BOOLEAN /\ Among(G, 3, p, h)
      /\ q \in Seq(Token) /\ j \in BOOLEAN /\ Among(G, 3, q, j)
      /\ r \in Seq(Token) /\ k \in BOOLEAN /\ Among(G, 3, r, k)
  <2>1. \A c \in Token : c.kind = "comparison" =>
          <<c>> \in Seq(Token) /\ Truth(c, env) \in BOOLEAN /\ Among(G, 3, <<c>>, Truth(c, env))
    BY WrittenType, TruthType, GrammarObeys DEF Obeys
  <2> QED
    BY <2>1, PartType
<1>3. AsRead(m, env) =
        IF m.group = "last" \/ (m.group = "none" /\ v = "or" /\ w = "and")
        THEN Join(v, h, Join(w, j, k)) ELSE Join(w, Join(v, h, j), k)
  BY DEF AsRead, GroupedAs
<1>4. /\ m.group = "none" => Written(m) = Pair(Pair(p, v, q), w, r)
      /\ m.group = "first" => Written(m) = Pair(Grouped(Pair(p, v, q)), w, r)
      /\ m.group = "last" => Written(m) = Pair(p, v, Grouped(Pair(q, w, r)))
  BY WrittenIs
<1> HIDE DEF p, q, r, h, j, k, v, w
<1>5. AsRead(m, env) \in BOOLEAN
  BY <1>3 DEF Join
<1>6. CASE m.group = "none"
  <2>1. Pair(Pair(p, v, q), w, r) \in Seq(Token)
    BY <1>1, <1>2, PairType
  <2>2. Among(G, 1, Pair(Pair(p, v, q), w, r),
              IF v = "or" /\ w = "and" THEN Join(v, h, Join(w, j, k))
              ELSE Join(w, Join(v, h, j), k))
    BY <1>1, <1>2, ThreeMean
  <2> QED
    BY <1>3, <1>4, <1>5, <1>6, <2>1, <2>2
<1>7. CASE m.group = "first"
  <2> DEFINE inner == Pair(p, v, q)
             means == Join(v, h, j)
  <2>1. inner \in Seq(Token) /\ means \in BOOLEAN /\ Among(G, 1, inner, means)
    BY <1>1, <1>2, PairMeans
  <2> HIDE DEF inner, means
  <2>2. Grouped(inner) \in Seq(Token) /\ Among(G, 3, Grouped(inner), means)
    BY <2>1, WrittenType, GrammarObeys DEF Obeys
  <2>3. /\ Pair(Grouped(inner), w, r) \in Seq(Token)
        /\ Among(G, 1, Pair(Grouped(inner), w, r), Join(w, means, k))
    BY <1>1, <1>2, <2>1, <2>2, PairMeans
  <2> QED
    BY <1>3, <1>4, <1>5, <1>7, <2>3 DEF inner, means
<1>8. CASE m.group = "last"
  <2> DEFINE inner == Pair(q, w, r)
             means == Join(w, j, k)
  <2>1. inner \in Seq(Token) /\ means \in BOOLEAN /\ Among(G, 1, inner, means)
    BY <1>1, <1>2, PairMeans
  <2> HIDE DEF inner, means
  <2>2. Grouped(inner) \in Seq(Token) /\ Among(G, 3, Grouped(inner), means)
    BY <2>1, WrittenType, GrammarObeys DEF Obeys
  <2>3. /\ Pair(p, v, Grouped(inner)) \in Seq(Token)
        /\ Among(G, 1, Pair(p, v, Grouped(inner)), Join(v, h, means))
    BY <1>1, <1>2, <2>1, <2>2, PairMeans
  <2> QED
    BY <1>3, <1>4, <1>5, <1>8, <2>3 DEF inner, means
<1> QED
  BY <1>1, <1>6, <1>7, <1>8

(* A marker is read to its end; straight ones as what they say.            *)
LEMMA MarkerReads ==
  ASSUME NEW env, NEW m \in Marker
  PROVE  /\ Parse(Written(m), env).ok
         /\ Straight(m) => Parse(Written(m), env).holds = Meaning(m, env)
<1>1. Parse(Written(m), env) =
        [ok |-> TRUE, holds |-> AsRead(m, env), next |-> Len(Written(m)) + 1]
  BY WrittenMeans, MarkersGroup
<1> QED
  BY <1>1, MeaningIs

(* An ordering of two versions whose text is written first is read as the  *)
(* opposite of what it says, unless the versions are equal: the operands   *)
(* change places and the operator does not, so that "3.8" <= python_version*)
(* keeps what is older and drops what is newer.                            *)
THEOREM ValueFirstMisread ==
  ASSUME NEW env, NEW c \in Token, c.kind = "comparison", c.valueFirst,
         c.op \in {"<", "<=", ">", ">="}, NEW v \in Version, NEW w \in Version,
         Plain(v), Plain(w), Compare(v, w) # 0,
         Lookup(c.var, env).ver = <<v>>, c.text.ver = <<w>>
  PROVE  Parse(<<c>>, env).ok /\ Parse(<<c>>, env).holds = ~Says(c, env)
<1> DEFINE x == Lookup(c.var, env)
           y == c.text
<1>1. /\ <<c>> \in Seq(Token) /\ Truth(c, env) \in BOOLEAN /\ Len(<<c>>) = 1
      /\ Among(Grammar(env), 3, <<c>>, Truth(c, env))
  BY WrittenType, TruthType, GrammarObeys DEF Obeys
<1>2. Parse(<<c>>, env) = [ok |-> TRUE, holds |-> Truth(c, env), next |-> 1 + 1]
  <2> DEFINE t == <<c>>
             b == Truth(c, env)
             G == Grammar(env)
  <2>1. t \in Seq(Token) /\ b \in BOOLEAN /\ Among(G, 3, t, b) /\ Len(t) = 1
    BY <1>1
  <2> HIDE DEF t, b
  <2>2. \A u \in Seq(Token), d \in BOOLEAN : Among(G, 2 + 1, u, d) => Among(G, 2, u, d)
    BY GrammarObeys DEF Obeys
  <2>3. \A u \in Seq(Token), d \in BOOLEAN : Among(G, 1 + 1, u, d) => Among(G, 1, u, d)
    BY GrammarObeys DEF Obeys
  <2>4. Among(G, 1, t, b)
    BY <2>1, <2>2, <2>3
  <2>5. Parse(t, env) = [ok |-> TRUE, holds |-> b, next |-> Len(t) + 1]
    BY <2>1, <2>4, MarkersGroup
  <2> QED
    BY <2>1, <2>5 DEF t, b
<1>3. /\ Compare(v, w) \in {-1, 0, 1} /\ Compare(w, v) = - Compare(v, w)
  BY ComparesInOrder
<1>4. Truth(c, env) = EvaluateOp(x, c.op, y) /\ Says(c, env) = EvaluateOp(y, c.op, x)
  BY DEF Truth, Holds, Says
<1>5. x.ver = <<v>> /\ y.ver = <<w>>
  OBVIOUS
<1> HIDE DEF x, y
<1>6. /\ EvaluateOp(x, "<", y) = (Compare(v, w) < 0)
      /\ EvaluateOp(x, "<=", y) = (Compare(v, w) <= 0)
      /\ EvaluateOp(x, ">", y) = (Compare(v, w) > 0)
      /\ EvaluateOp(x, ">=", y) = (Compare(v, w) >= 0)
  BY <1>5 DEF EvaluateOp
<1>7. /\ EvaluateOp(y, "<", x) = (Compare(w, v) < 0)
      /\ EvaluateOp(y, "<=", x) = (Compare(w, v) <= 0)
      /\ EvaluateOp(y, ">", x) = (Compare(w, v) > 0)
      /\ EvaluateOp(y, ">=", x) = (Compare(w, v) >= 0)
  BY <1>5 DEF EvaluateOp
<1>8. /\ (Compare(v, w) < 0) = ~(Compare(w, v) < 0)
      /\ (Compare(v, w) <= 0) = ~(Compare(w, v) <= 0)
      /\ (Compare(v, w) > 0) = ~(Compare(w, v) > 0)
      /\ (Compare(v, w) >= 0) = ~(Compare(w, v) >= 0)
  <2>1. CASE Compare(v, w) = -1
    BY <1>3, <2>1
  <2>2. CASE Compare(v, w) = 1
    BY <1>3, <2>2
  <2> QED
    BY <1>3, <2>1, <2>2
<1>9. /\ EvaluateOp(x, "<", y) = ~EvaluateOp(y, "<", x)
      /\ EvaluateOp(x, "<=", y) = ~EvaluateOp(y, "<=", x)
      /\ EvaluateOp(x, ">", y) = ~EvaluateOp(y, ">", x)
      /\ EvaluateOp(x, ">=", y) = ~EvaluateOp(y, ">=", x)
  BY <1>6, <1>7, <1>8, Zenon
<1>10. EvaluateOp(x, c.op, y) = ~EvaluateOp(y, c.op, x)
  <2>1. c.op = "<" \/ c.op = "<=" \/ c.op = ">" \/ c.op = ">="
    OBVIOUS
  <2> QED
    BY <1>9, <2>1, Zenon
<1>11. Truth(c, env) = ~Says(c, env)
  BY <1>4, <1>10, Zenon
<1> QED
  BY <1>2, <1>11

(* The cache has the page that was chosen from.                            *)
ChosenFrom ==
  fetch.what = "wheel" => cache[First.name] \in DOMAIN Pages

LEMMA ChosenFromNext ==
  ASSUME TypeInv, ChosenFrom, [Next]_vars
  PROVE  ChosenFrom'
<1>1. fetch = NoFetch => fetch.what = "none"
  BY DEF NoFetch
<1>2. ASSUME NEW reqs \in Orders(world.reqs), Begin(reqs) PROVE ChosenFrom'
  <2>1. fetch = NoFetch /\ fetch' = fetch
    BY <1>2 DEF Begin, TypeInv, TypeOK
  <2> QED
    BY <1>1, <2>1 DEF ChosenFrom
<1>3. ASSUME NEW n \in Name, Expire(n) PROVE ChosenFrom'
  <2>1. fetch = NoFetch /\ fetch' = fetch
    BY <1>3 DEF Expire, TypeInv, TypeOK
  <2> QED
    BY <1>1, <2>1 DEF ChosenFrom
<1>4. CASE Retry
  <2>1. fetch'.what = fetch.what /\ UNCHANGED <<cache, queue>>
    BY <1>4 DEF Retry, TypeInv, TypeOK, Fetch
  <2> QED
    BY <2>1 DEF ChosenFrom, First
<1>5. CASE Pick
  <2>1. /\ cache[First.name] # NoPage /\ UNCHANGED <<cache, queue>>
        /\ First.name \in Name /\ cache \in [Name -> MaybePage]
    BY <1>5, FirstType DEF Pick, Fail, Unpinned, Working, TypeInv, TypeOK
  <2> QED
    BY <2>1 DEF ChosenFrom, MaybePage, First
<1>6. CASE fetch'.what # "wheel"
  BY <1>6 DEF ChosenFrom
<1>7. CASE Ask
  BY <1>6, <1>7 DEF Ask, NoFetch
<1>8. CASE TryNext
  <2>1. \A i \in Nat : [NoFetch EXCEPT !.what = "page", !.index = i].what = "page"
    BY DEF NoFetch
  <2>2. NoFetch.what = "none"
    BY DEF NoFetch
  <2>3. fetch.index + 1 \in Nat
    BY DEF TypeInv, TypeOK, Fetch
  <2> QED
    BY <1>6, <1>8, <2>1, <2>2, <2>3 DEF TryNext, Fail
<1>9. CASE Answer \/ ReadMetadata \/ LoseMetadata
  <2>1. fetch' = NoFetch /\ NoFetch.what = "none"
    BY <1>9 DEF Answer, ReadMetadata, LoseMetadata, Settle, NoFetch
  <2> QED
    BY <1>6, <2>1
<1>10. CASE CheckAgain \/ Conflict \/ UsePin
  <2>1. fetch = NoFetch /\ (fetch' = fetch \/ fetch' = NoFetch)
    BY <1>10 DEF CheckAgain, Conflict, UsePin, Working, Fail
  <2> QED
    BY <1>1, <1>6, <2>1
<1>11. CASE Finish
  <2>1. fetch.what = "none" /\ fetch' = fetch
    BY <1>11 DEF Finish, TypeInv, FetchInv, TypeOK, Fetch
  <2> QED
    BY <1>6, <2>1
<1>12. CASE UNCHANGED vars
  BY <1>12 DEF vars, ChosenFrom, First
<1> QED
  BY <1>2, <1>3, <1>4, <1>5, <1>7, <1>8, <1>9, <1>10, <1>11, <1>12 DEF Next, Work

(* Every marker of a page is read to its end, and as what PEP 508 says     *)
(* when no ordering and no "in" has its text first: pages, markers and     *)
(* environments are arbitrary.                                             *)
THEOREM ResolvedMarkersRead == Spec => []MarkersRead
<1>1. Init => ChosenFrom
  BY DEF Init, NoFetch, ChosenFrom
<1>2. TypeInv /\ ChosenFrom /\ [Next]_vars => ChosenFrom'
  BY ChosenFromNext
<1>3. ASSUME ChosenFrom PROVE MarkersRead
  <2> SUFFICES ASSUME fetch.what = "wheel",
                      NEW f \in ToSet(Pages[cache[First.name]].files),
                      NEW m \in UNION {ToSet(d.marker) : d \in ToSet(f.deps)},
                      NEW env \in Environments
               PROVE  /\ Parse(Written(m), env).ok
                      /\ Straight(m) => Parse(Written(m), env).holds = Meaning(m, env)
    BY DEF MarkersRead
  <2>1. cache[First.name] \in DOMAIN Pages
    BY <1>3 DEF ChosenFrom
  <2>2. Pages[cache[First.name]] \in Page
    BY <2>1, ResolverAssumption
  <2>3. f \in PageFile
    BY <2>2 DEF Page, ToSet
  <2>4. f.deps \in Seq(Line)
    BY <2>3 DEF PageFile
  <2>5. PICK d \in ToSet(f.deps) : m \in ToSet(d.marker)
    OBVIOUS
  <2>6. d \in Line
    BY <2>4, <2>5 DEF ToSet
  <2>7. d.marker \in AtMostOne(Marker)
    BY <2>6 DEF Line
  <2>8. m \in Marker
    BY <2>5, <2>7 DEF AtMostOne, ToSet
  <2> QED
    BY <2>8, MarkerReads
<1> QED
  BY <1>1, <1>2, <1>3, TypeInvariant, PTL DEF Spec

---------------------------------------------------------------------------
(* What brings a resolution to its end                                     *)

(* A name that gets a file is one name less.                               *)
LEMMA FewerUnresolved ==
  ASSUME IsFiniteSet(Name), TypeInv, NEW f \in Wheel,
         First.name \in Name,
         resolved[First.name] = NoFile,
         resolved' = [resolved EXCEPT ![First.name] = f]
  PROVE  Unresolved' < Unresolved
<1> DEFINE S == Name \ Chosen
<1>1. f # NoFile /\ resolved \in [Name -> Wheel \cup {NoFile}]
  BY ResolverAssumption DEF TypeInv, TypeOK, Choice
<1>2. (Name \ Chosen)' = S \ {First.name} /\ First.name \in S
  BY <1>1 DEF Chosen
<1>3. IsFiniteSet(S)
  BY FS_Subset
<1> HIDE DEF S
<1>4. Cardinality(S \ {First.name}) = Cardinality(S) - 1 /\ Cardinality(S) \in Nat
  BY <1>2, <1>3, FS_RemoveElement, FS_CardinalityType
<1>5. Unresolved' = Cardinality(S) - 1 /\ Unresolved = Cardinality(S)
  BY <1>2, <1>4 DEF Unresolved, S
<1> QED
  BY <1>4, <1>5

(* The queue loses its first requirement, and gets none.                   *)
LEMMA ShorterQueue ==
  ASSUME TypeInv, queue # <<>>, queue' = Tail(queue), resolved' = resolved
  PROVE  Nearer
<1>1. Unresolved' = Unresolved
  BY DEF Unresolved, Chosen
<1>2. queue \in Seq(Requirement)
  BY DEF TypeInv, TypeOK
<1>3. Len(queue') < Len(queue)
  BY <1>2
<1> QED
  BY <1>1, <1>3 DEF Nearer

LEMMA StepNearer ==
  ASSUME UNCHANGED <<queue, resolved>>,
         \/ StepsToWheel' < StepsToWheel
         \/ StepsToWheel' = StepsToWheel /\ Attempts' < Attempts
  PROVE  Nearer
<1>1. Unresolved' = Unresolved
  BY DEF Unresolved, Chosen
<1> QED
  BY <1>1 DEF Nearer

LEMMA RetryNearer ==
  ASSUME TypeInv, Retry
  PROVE  Nearer
<1>1. /\ fetch \in Fetch /\ Len(world.pages) \in Nat
      /\ UNCHANGED <<world, cache, queue, resolved>>
  BY WorldType DEF TypeInv, TypeOK, Retry
<1>2. /\ fetch'.what = fetch.what /\ fetch'.index = fetch.index
      /\ fetch'.attempt = fetch.attempt + 1
      /\ fetch.index \in Nat /\ fetch.attempt \in Nat
  BY <1>1 DEF Retry, Fetch
<1>3. StepsToWheel' = StepsToWheel
  BY <1>1, <1>2 DEF StepsToWheel, First
<1>4. Attempts' < Attempts
  BY <1>1, <1>2 DEF Attempts, MaxRetries
<1> QED
  BY <1>1, <1>3, <1>4, StepNearer

LEMMA TryNextNearer ==
  ASSUME TypeInv, TryNext
  PROVE  status' # "running" \/ Nearer
<1>1. CASE fetch.index < Len(world.pages)
  <2>1. /\ fetch' = [NoFetch EXCEPT !.what = "page", !.index = fetch.index + 1]
        /\ UNCHANGED <<world, cache, queue, resolved>> /\ fetch.what = "page"
    BY <1>1 DEF TryNext
  <2>2. /\ fetch'.what = "page" /\ fetch'.index = fetch.index + 1 /\ fetch'.attempt = 0
    BY <2>1 DEF NoFetch
  <2>3. /\ fetch.index \in Nat /\ fetch.attempt \in 0..3 /\ Len(world.pages) \in Nat
    BY WorldType DEF TypeInv, TypeOK, Fetch, MaxRetries
  <2>4. StepsToWheel' = StepsToWheel
    BY <2>1, <2>2 DEF StepsToWheel
  <2>5. Attempts' < Attempts
    <3>1. Attempts = (Len(world.pages) - fetch.index) * 4 + 3 - fetch.attempt
      BY DEF Attempts, MaxRetries
    <3>2. Attempts' = (Len(world.pages) - (fetch.index + 1)) * 4 + 3
      BY <2>1, <2>2, <2>3 DEF Attempts, MaxRetries
    <3>3. \A m \in Nat, i \in Nat, k \in 0..3 :
            (m - (i + 1)) * 4 + 3 < (m - i) * 4 + 3 - k
      OBVIOUS
    <3> QED
      BY <2>3, <3>1, <3>2, <3>3
  <2> QED
    BY <2>1, <2>4, <2>5, StepNearer
<1>2. CASE ~ fetch.index < Len(world.pages)
  BY <1>2 DEF TryNext, Fail
<1> QED
  BY <1>1, <1>2

LEMMA SettleNearer ==
  ASSUME IsFiniteSet(Name), TypeInv, fetch.what = "wheel",
         NEW deps \in Seq(Requirement), Settle(deps)
  PROVE  Nearer
<1>1. [fetch.file EXCEPT !.deps = deps] \in Wheel
  BY SettleIsWheel DEF TypeInv, FetchInv
<1>2. queue # <<>> /\ resolved[First.name] = NoFile /\ First.name \in Name
  <2>1. queue # <<>> /\ fetch # NoFetch
    BY FetchType DEF TypeInv, FetchInv
  <2> QED
    BY <2>1, FirstType DEF TypeInv, TypeOK, First
<1>3. Unresolved' < Unresolved
  BY <1>1, <1>2, FewerUnresolved DEF Settle
<1> QED
  BY <1>3 DEF Nearer

LEMMA FetchNearer ==
  ASSUME TypeInv, Ask \/ Answer
  PROVE  Nearer
<1>1. UNCHANGED <<queue, resolved>>
  BY DEF Ask, Answer
<1>2. CASE Ask
  <2>1. /\ fetch = NoFetch /\ queue # <<>> /\ cache[First.name] = NoPage
        /\ fetch' = [NoFetch EXCEPT !.what = "page", !.index = 1]
    BY <1>2 DEF Ask, Unpinned, Working
  <2>2. fetch.what = "none" /\ fetch'.what = "page"
    BY <2>1 DEF NoFetch
  <2>3. StepsToWheel = 3 /\ StepsToWheel' = 2
    BY <2>1, <2>2 DEF StepsToWheel
  <2> QED
    BY <1>1, <2>3, StepNearer
<1>3. CASE Answer
  <2>1. /\ fetch.what = "page" /\ queue # <<>> /\ Asked # NoPage
        /\ cache' = [cache EXCEPT ![First.name] = Asked] /\ fetch' = NoFetch
    BY <1>3 DEF Answer, WriteCache, TypeInv, FetchInv
  <2>2. First.name \in Name /\ cache \in [Name -> MaybePage]
    BY <2>1, FirstType DEF TypeInv, TypeOK
  <2>3. fetch'.what = "none" /\ cache'[First.name] # NoPage /\ First' = First
    BY <1>1, <2>1, <2>2 DEF NoFetch, First
  <2>4. StepsToWheel = 2 /\ StepsToWheel' = 1
    BY <2>1, <2>3 DEF StepsToWheel
  <2> QED
    BY <1>1, <2>4, StepNearer
<1> QED
  BY <1>2, <1>3

LEMMA PickNearer ==
  ASSUME TypeInv, Pick
  PROVE  status' # "running" \/ Nearer
<1>1. PICK files \in {BestFiles(WheelsOn[cache[First.name]], First.specs)} :
        IF files = {} THEN Fail /\ UNCHANGED lossy
        ELSE /\ \E f \in FirstSorted(files) :
                  fetch' = [NoFetch EXCEPT !.what = "wheel", !.file = f]
             /\ UNCHANGED <<world, cache, queue, resolved, status, lossy, results, rounds>>
  BY DEF Pick
<1>2. fetch = NoFetch /\ queue # <<>> /\ cache[First.name] # NoPage
  BY DEF Pick, Unpinned, Working
<1>3. CASE files = {}
  BY <1>1, <1>3 DEF Fail
<1>4. CASE files # {}
  <2>1. PICK f \in FirstSorted(files) :
          fetch' = [NoFetch EXCEPT !.what = "wheel", !.file = f]
    BY <1>1, <1>4
  <2>2. fetch.what = "none" /\ fetch'.what = "wheel"
    BY <1>2, <2>1 DEF NoFetch
  <2>3. StepsToWheel = 1 /\ StepsToWheel' = 0
    BY <1>2, <2>2 DEF StepsToWheel
  <2>4. UNCHANGED <<queue, resolved>>
    BY <1>1, <1>4
  <2> QED
    BY <2>3, <2>4, StepNearer
<1> QED
  BY <1>3, <1>4

LEMMA UsePinNearer ==
  ASSUME IsFiniteSet(Name), TypeInv, UsePin
  PROVE  status' # "running" \/ Nearer
<1>1. PICK ver \in ToSet(Immutable(First.name)) :
        IF Admits(First.specs, ver)
        THEN /\ resolved' = [resolved EXCEPT ![First.name] =
                  [ver |-> ver, tags |-> {}, pure |-> TRUE, yanked |-> FALSE,
                   deps |-> <<>>]]
             /\ queue' = Tail(queue)
             /\ UNCHANGED <<world, cache, fetch, status, lossy, results, rounds>>
        ELSE Fail /\ UNCHANGED lossy
  BY DEF UsePin
<1>2. CASE Admits(First.specs, ver)
  <2>1. queue # <<>> /\ resolved[First.name] = NoFile
    BY DEF UsePin, Working
  <2>2. First.name \in Name
    BY <2>1, FirstType DEF TypeInv
  <2>3. Unresolved' < Unresolved
    BY <1>1, <1>2, <2>1, <2>2, PinIsWheel, FewerUnresolved DEF TypeInv
  <2> QED
    BY <2>3 DEF Nearer
<1>3. CASE ~Admits(First.specs, ver)
  BY <1>1, <1>3 DEF Fail
<1> QED
  BY <1>2, <1>3

(* Every step of a resolution ends it or brings it nearer to its end, for  *)
(* any finite set of names, whatever pages, dependencies and failures.     *)
THEOREM ResolutionGoesOn ==
  ASSUME IsFiniteSet(Name)
  PROVE  Spec => ResolutionAdvances
<1>1. ASSUME TypeInv, Work PROVE status' # "running" \/ Nearer
  <2>1. CASE Retry
    BY <1>1, <2>1, RetryNearer
  <2>2. CASE TryNext
    BY <1>1, <2>2, TryNextNearer
  <2>3. CASE LoseMetadata
    <3>1. fetch.what = "wheel" /\ <<>> \in Seq(Requirement) /\ Settle(<<>>)
      BY <2>3 DEF LoseMetadata
    <3> QED
      BY <1>1, <3>1, SettleNearer
  <2>4. CASE Ask \/ Answer
    BY <1>1, <2>4, FetchNearer
  <2>5. CASE CheckAgain
    BY <1>1, <2>5, ShorterQueue DEF CheckAgain, Working
  <2>6. CASE Conflict
    BY <2>6 DEF Conflict, Fail
  <2>7. CASE UsePin
    BY <1>1, <2>7, UsePinNearer
  <2>8. CASE Finish
    BY <2>8 DEF Finish
  <2>9. CASE Pick
    BY <1>1, <2>9, PickNearer
  <2>10. CASE ReadMetadata
    <3>1. fetch.what = "wheel" /\ fetch.file \in Wheel /\ Settle(fetch.file.deps)
      BY <1>1, <2>10 DEF ReadMetadata, TypeInv, FetchInv
    <3>2. fetch.file.deps \in Seq(Requirement)
      BY <3>1 DEF Wheel
    <3> QED
      BY <1>1, <3>1, <3>2, SettleNearer
  <2> QED
    BY <1>1, <2>1, <2>2, <2>3, <2>4, <2>5, <2>6, <2>7, <2>8, <2>9, <2>10 DEF Work
<1>2. TypeInv /\ [Next]_vars => [Work => status' # "running" \/ Nearer]_vars
  BY <1>1
<1> QED
  BY <1>2, TypeInvariant, PTL DEF Spec, ResolutionAdvances

=============================================================================
