-------------------------- MODULE SitePackagesProofs --------------------------
(***************************************************************************)
(* What the operators of SitePackages return, for every set of names and   *)
(* versions: types, the directory a name finds, and what a link, a mark,   *)
(* a removal and a clean-up leave alone.                                   *)
(***************************************************************************)
EXTENDS SitePackages, WellFoundedInduction, TLAPS

USE SiteAssumption

(* A non-empty set of naturals has a least element.                        *)
LEMMA LeastNatural ==
  ASSUME NEW S, S \subseteq Nat, S # {}
  PROVE  \E x \in S : \A y \in S : x <= y
<1>1. IsWellFoundedOn(OpToRel(<, Nat), Nat)
  BY NatLessThanWellFounded
<1>2. PICK x \in S : \A y \in S : ~ (<<y, x>> \in OpToRel(<, Nat))
  BY <1>1, WFMin
<1>3. OpToRel(<, Nat) = {ss \in Nat \X Nat : ss[1] < ss[2]}
  BY DEF OpToRel
<1>4. \A y \in S : ~ (<<y, x>> \in {ss \in Nat \X Nat : ss[1] < ss[2]})
  BY <1>2, <1>3
<1>5. \A y \in S : y < x => <<y, x>> \in {ss \in Nat \X Nat : ss[1] < ss[2]}
  OBVIOUS
<1>6. \A y \in S : ~ (y < x)
  BY <1>4, <1>5
<1>7. \A y \in S : x <= y
  BY <1>6
<1> QED
  BY <1>7

---------------------------------------------------------------------------
(* The directory a name finds                                              *)

(* Of the directories of a set one comes first in the listing.             *)
LEMMA FirstOf ==
  ASSUME NEW D \in SUBSET Dist, D # {}
  PROVE  \E d \in D : {e \in D : \A f \in D : Rank[e] <= Rank[f]} = {d}
<1> DEFINE R == {Rank[e] : e \in D}
<1>1. \A e \in D : Rank[e] \in Nat
  OBVIOUS
<1>2. R \subseteq Nat /\ R # {}
  BY <1>1
<1>3. PICK x \in R : \A y \in R : x <= y
  BY <1>2, LeastNatural
<1>4. PICK d \in D : Rank[d] = x
  BY <1>3
<1>5. \A f \in D : Rank[d] <= Rank[f]
  BY <1>3, <1>4
<1>6. ASSUME NEW e \in D, \A f \in D : Rank[e] <= Rank[f]
      PROVE  e = d
  <2>1. Rank[e] = Rank[d]
    BY <1>1, <1>5, <1>6
  <2> QED
    BY <2>1
<1> QED
  BY <1>5, <1>6

(* A name with a match finds one of its matches.                           *)
LEMMA FirstMatchIsOne ==
  ASSUME NEW s, NEW n, Matches(s, n) # {}
  PROVE  \E d \in Matches(s, n) : FirstMatch(s, n) = {d}
<1>1. Matches(s, n) \in SUBSET Dist
  BY DEF Matches, Present
<1> QED
  BY <1>1, FirstOf DEF FirstMatch

LEMMA FirstMatchPresent ==
  ASSUME NEW s, NEW n
  PROVE  FirstMatch(s, n) \subseteq Present(s)
  BY DEF FirstMatch, Matches

(* A listing has the directory of a name before those of the longer names: *)
(* "-" sorts before "_", and neither name has capital letters.             *)
SortedListing ==
  \A d, e \in Dist :
    e.name # d.name /\ e.name \in Prefixed[d.name] => Rank[d] < Rank[e]

(* In a sorted listing a name finds its own directory if it has one, and   *)
(* the first of these.                                                     *)
LEMMA FindsOwn ==
  ASSUME SortedListing, NEW s, NEW n \in Name, Of(s, n) # {}
  PROVE  \E d \in Of(s, n) : /\ FirstMatch(s, n) = {d}
                             /\ \A e \in Of(s, n) : Rank[d] <= Rank[e]
<1>1. Of(s, n) \subseteq Matches(s, n) /\ Matches(s, n) \subseteq Dist
  BY DEF Of, Matches, Present
<1>2. PICK d \in Matches(s, n) : FirstMatch(s, n) = {d}
  BY <1>1, FirstMatchIsOne
<1>3. \A e \in Matches(s, n) : Rank[d] <= Rank[e]
  BY <1>2 DEF FirstMatch
<1>4. PICK o \in Of(s, n) : TRUE
  OBVIOUS
<1>5. o \in Dist /\ o.name = n /\ Rank[d] <= Rank[o]
  BY <1>1, <1>3, <1>4 DEF Of
<1>6. d \in Dist /\ d.name \in Prefixed[n] /\ d \in Present(s)
  BY <1>1 DEF Matches
<1>7. d.name = n
  <2>1. Rank[d] \in Nat /\ Rank[o] \in Nat
    BY <1>5, <1>6
  <2>2. d.name # n => Rank[o] < Rank[d]
    BY <1>5, <1>6 DEF SortedListing
  <2> QED
    BY <1>5, <2>1, <2>2
<1> QED
  BY <1>1, <1>2, <1>3, <1>6, <1>7 DEF Of

---------------------------------------------------------------------------
(* Types                                                                   *)

LEMMA MarkOfSite ==
  ASSUME NEW s \in Site
  PROVE  /\ s.mark \in [Dist -> Mark] /\ s.code \in [Name -> Version \cup {NoVersion}]
         /\ s = [mark |-> s.mark, code |-> s.code]
  BY DEF Site

LEMMA EmptySiteType == EmptySite \in Site
  BY DEF EmptySite, Site, Mark

LEMMA WithoutType ==
  ASSUME NEW s \in Site, NEW D, NEW N
  PROVE  Without(s, D, N) \in Site
  BY MarkOfSite DEF Without, Site, Mark

LEMMA UninstallType ==
  ASSUME NEW s \in Site, NEW n, NEW force
  PROVE  Uninstall(s, n, force) \in Site
  BY WithoutType DEF Uninstall

LEMMA LinkType ==
  ASSUME NEW s \in Site, NEW d \in Dist
  PROVE  Link(s, d) \in Site
  BY MarkOfSite DEF Link, Site, Mark, Dist

LEMMA SwapType ==
  ASSUME NEW s \in Site, NEW D \in SUBSET Dist
  PROVE  Swap(s, D) \in Site
<1>1. \A n \in NamesOf(D) : (CHOOSE d \in D : d.name = n) \in D
  BY DEF NamesOf
<1>2. \A n \in NamesOf(D) : (CHOOSE d \in D : d.name = n).ver \in Version
  BY <1>1 DEF Dist
<1> QED
  BY <1>2, MarkOfSite DEF Swap, Site, Mark

LEMMA MarkNamesType ==
  ASSUME NEW s \in Site, NEW N
  PROVE  MarkNames(s, N) \in Site
  BY MarkOfSite DEF MarkNames, Site, Mark

LEMMA PipTargetType ==
  ASSUME NEW s \in Site, NEW d \in Dist
  PROVE  PipTarget(s, d) \in Site
  BY MarkOfSite DEF PipTarget, Site, Mark, Dist

LEMMA PipInstallType ==
  ASSUME NEW s \in Site, NEW d \in Dist
  PROVE  PipInstall(s, d) \in Site
  BY MarkOfSite DEF PipInstall, Site, Mark, Dist

LEMMA PipUninstallType ==
  ASSUME NEW s \in Site, NEW n
  PROVE  PipUninstall(s, n) \in Site
  BY WithoutType DEF PipUninstall
---------------------------------------------------------------------------
(* What the operations do to the directories                               *)

LEMMA WithoutPresent ==
  ASSUME NEW s \in Site, NEW D, NEW N
  PROVE  /\ Present(Without(s, D, N)) = Present(s) \ D
         /\ FpmDists(Without(s, D, N)) = FpmDists(s) \ D
         /\ \A d \in Dist : Without(s, D, N).mark[d] = IF d \in D THEN "absent"
                                                     ELSE s.mark[d]
  BY DEF Without, Present, FpmDists

LEMMA LinkPresent ==
  ASSUME NEW s \in Site, NEW d \in Dist
  PROVE  /\ Present(Link(s, d)) = Present(s) \cup {d}
         /\ FpmDists(Link(s, d)) = FpmDists(s)
         /\ \A e \in Dist : Link(s, d).mark[e] = "pip" <=> s.mark[e] = "pip"
<1>1. \A e \in Dist : Link(s, d).mark[e] =
        IF e = d /\ s.mark[d] = "absent" THEN "none" ELSE s.mark[e]
  BY MarkOfSite DEF Link
<1> QED
  BY <1>1 DEF Present, FpmDists

LEMMA SwapPresent ==
  ASSUME NEW s \in Site, NEW D \in SUBSET Dist
  PROVE  /\ Present(Swap(s, D)) = Present(s) \cup D
         /\ FpmDists(Swap(s, D)) = FpmDists(s) \ D
         /\ \A e \in Dist : Swap(s, D).mark[e] = IF e \in D THEN "none" ELSE s.mark[e]
  BY DEF Swap, Present, FpmDists

LEMMA MarkNamesPresent ==
  ASSUME NEW s \in Site, NEW N
  PROVE  /\ Present(MarkNames(s, N)) = Present(s)
         /\ MarkNames(s, N).code = s.code
         /\ \A e \in Dist : MarkNames(s, N).mark[e] =
              IF \E n \in N : e \in FirstMatch(s, n) THEN "fpm" ELSE s.mark[e]
<1>1. /\ MarkNames(s, N).code = s.code
      /\ \A e \in Dist : MarkNames(s, N).mark[e] =
           IF \E n \in N : e \in FirstMatch(s, n) THEN "fpm" ELSE s.mark[e]
  BY MarkOfSite DEF MarkNames
<1>2. \A e \in Dist, n \in N : e \in FirstMatch(s, n) => s.mark[e] # "absent"
  BY DEF FirstMatch, Matches, Present
<1> QED
  BY <1>1, <1>2 DEF Present

---------------------------------------------------------------------------
(* Whose directory comes first                                             *)

(* Of one name, fpm's directories are listed before other managers'.       *)
FpmBeforePip(s) ==
  \A d, e \in Dist :
    s.mark[d] = "fpm" /\ s.mark[e] = "pip" /\ e.name = d.name => Rank[d] < Rank[e]

(* Then what fpm has of a name is never shadowed: uninstalling it takes    *)
(* the name's first directory, which is not another manager's, and nothing *)
(* else.                                                                   *)
LEMMA UninstallsOwn ==
  ASSUME SortedListing, NEW s \in Site, FpmBeforePip(s), NEW d \in FpmDists(s)
  PROVE  \E m \in Of(s, d.name) :
           /\ s.mark[m] # "pip"
           /\ CanUninstall(s, d.name, FALSE)
           /\ Uninstall(s, d.name, FALSE) = Without(s, {m}, {d.name})
<1>1. d \in Dist /\ s.mark[d] = "fpm" /\ d.name \in Name /\ d \in Of(s, d.name)
  BY DEF FpmDists, Of, Present, Dist
<1>2. PICK m \in Of(s, d.name) : /\ FirstMatch(s, d.name) = {m}
                                 /\ \A e \in Of(s, d.name) : Rank[m] <= Rank[e]
  BY <1>1, FindsOwn
<1>3. m \in Dist /\ m.name = d.name /\ Rank[m] <= Rank[d]
  BY <1>1, <1>2 DEF Of, Present
<1>4. s.mark[m] # "pip"
  <2>1. Rank[m] \in Nat /\ Rank[d] \in Nat
    BY <1>1, <1>3
  <2>2. s.mark[m] = "pip" => Rank[d] < Rank[m]
    BY <1>1, <1>3 DEF FpmBeforePip
  <2> QED
    BY <1>3, <2>1, <2>2
<1>5. CanUninstall(s, d.name, FALSE)
  BY <1>2, <1>4 DEF CanUninstall, Refused
<1>6. NamesOf({m}) \cup {d.name} = {d.name}
  BY <1>3 DEF NamesOf
<1> QED
  BY <1>2, <1>4, <1>5, <1>6 DEF Uninstall

(* Removing directories keeps the order,                                   *)
LEMMA WithoutKeepsOrder ==
  ASSUME NEW s \in Site, FpmBeforePip(s), NEW D, NEW N
  PROVE  FpmBeforePip(Without(s, D, N))
  BY WithoutPresent DEF FpmBeforePip

LEMMA UninstallKeepsOrder ==
  ASSUME NEW s \in Site, FpmBeforePip(s), NEW n, NEW force
  PROVE  FpmBeforePip(Uninstall(s, n, force))
  BY WithoutKeepsOrder DEF Uninstall

(* linking without a mark too,                                             *)
LEMMA LinkKeepsOrder ==
  ASSUME NEW s \in Site, FpmBeforePip(s), NEW d \in Dist
  PROVE  FpmBeforePip(Link(s, d))
<1>1. \A e \in Dist : e \in FpmDists(Link(s, d)) <=> e \in FpmDists(s)
  BY LinkPresent
<1> QED
  BY <1>1, LinkPresent DEF FpmBeforePip, FpmDists

LEMMA SwapKeepsOrder ==
  ASSUME NEW s \in Site, FpmBeforePip(s), NEW D \in SUBSET Dist
  PROVE  FpmBeforePip(Swap(s, D))
  BY SwapPresent DEF FpmBeforePip

(* and marking the first directory of names that are there.                *)
LEMMA MarkKeepsOrder ==
  ASSUME SortedListing, NEW s \in Site, FpmBeforePip(s), NEW N \in SUBSET Name,
         \A n \in N : Of(s, n) # {}
  PROVE  FpmBeforePip(MarkNames(s, N))
<1> DEFINE t == MarkNames(s, N)
<1> SUFFICES ASSUME NEW d \in Dist, NEW e \in Dist,
                    t.mark[d] = "fpm", t.mark[e] = "pip", e.name = d.name
             PROVE  Rank[d] < Rank[e]
  BY DEF FpmBeforePip
<1>1. s.mark[e] = "pip" /\ ~ \E n \in N : e \in FirstMatch(s, n)
  BY MarkNamesPresent
<1>2. CASE s.mark[d] = "fpm"
  BY <1>1, <1>2 DEF FpmBeforePip
<1>3. CASE s.mark[d] # "fpm"
  <2>1. PICK n \in N : d \in FirstMatch(s, n)
    BY <1>3, MarkNamesPresent
  <2>2. PICK m \in Of(s, n) : /\ FirstMatch(s, n) = {m}
                              /\ \A f \in Of(s, n) : Rank[m] <= Rank[f]
    BY FindsOwn
  <2>3. d = m /\ d.name = n /\ e \in Of(s, n)
    BY <1>1, <2>1, <2>2 DEF Of, Present
  <2>4. Rank[d] <= Rank[e] /\ d # e
    BY <1>1, <2>1, <2>2, <2>3
  <2>5. Rank[d] \in Nat /\ Rank[e] \in Nat /\ Rank[d] # Rank[e]
    BY <2>4
  <2> QED
    BY <2>4, <2>5
<1> QED
  BY <1>2, <1>3

(* pip leaves one directory of the name it installs, its own.              *)
LEMMA PipInstallKeepsOrder ==
  ASSUME NEW s \in Site, FpmBeforePip(s), NEW d \in Dist
  PROVE  FpmBeforePip(PipInstall(s, d))
<1>1. \A e \in Dist : PipInstall(s, d).mark[e] =
        IF e = d THEN "pip" ELSE IF e.name = d.name THEN "absent" ELSE s.mark[e]
  BY DEF PipInstall
<1> QED
  BY <1>1 DEF FpmBeforePip
=============================================================================
