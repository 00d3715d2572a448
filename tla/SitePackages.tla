---------------------------- MODULE SitePackages ----------------------------
(***************************************************************************)
(* site-packages as a value, and what the commands of internal/cli and     *)
(* internal/snapshot do to it: link a wheel, mark it, uninstall by name,   *)
(* clean, and what pip does next to them.                                  *)
(*                                                                         *)
(* A site holds dist-info directories, one per name and version, each with *)
(* the manager its INSTALLER file names, and per name a package directory  *)
(* with the files of the version linked last.  Nothing keeps the two       *)
(* together: several dist-info directories of one name may exist, and a    *)
(* dist-info directory may outlive the files.                              *)
(***************************************************************************)
EXTENDS Integers, FiniteSets

CONSTANTS
  Name,      \* normalized package names
  Version,   \* the versions of every package
  NoVersion, \* no files, no pin, no lock entry
  Prefixed,  \* per name n the names that start with n or with n and a "_"
  Rank       \* the place of every dist-info directory in a sorted listing

Dist == [name: Name, ver: Version]

ASSUME SiteAssumption ==
  /\ NoVersion \notin Version
  /\ Prefixed \in [Name -> SUBSET Name]
  /\ \A n \in Name : n \in Prefixed[n]
  /\ Rank \in [Dist -> Nat]
  /\ \A d, e \in Dist : Rank[d] = Rank[e] => d = e

(* "none" is a dist-info directory without INSTALLER, "pip" one of any     *)
(* other manager.                                                          *)
Mark == {"absent", "none", "fpm", "pip"}

Site == [mark: [Dist -> Mark], code: [Name -> Version \cup {NoVersion}]]

EmptySite == [mark |-> [d \in Dist |-> "absent"],
              code |-> [n \in Name |-> NoVersion]]

Present(s) == {d \in Dist : s.mark[d] # "absent"}

Of(s, n) == {d \in Present(s) : d.name = n}

(* detectManager: no INSTALLER means another manager's.                    *)
FpmDists(s) == {d \in Dist : s.mark[d] = "fpm"}

Foreign(s) == Present(s) \ FpmDists(s)

NamesOf(D) == {d.name : d \in D}

(* The dist-info directories a name finds: uninstallPackage, install and   *)
(* writeInstallerFile compare a prefix of the directory's name and take    *)
(* the first of the listing.                                               *)
Matches(s, n) == {d \in Present(s) : d.name \in Prefixed[n]}

(* A lookup that takes the last match (a mutant).                          *)
LastMatch(s, n) ==
  {d \in Matches(s, n) : \A e \in Matches(s, n) : Rank[e] <= Rank[d]}

(* The first match, in a set that is empty when there is none.             *)
FirstMatch(s, n) ==
  {d \in Matches(s, n) : \A e \in Matches(s, n) : Rank[d] <= Rank[e]}

(* The directory D is gone, and with it the files of the names in N.       *)
Without(s, D, N) ==
  [mark |-> [d \in Dist |-> IF d \in D THEN "absent" ELSE s.mark[d]],
   code |-> [n \in Name |-> IF n \in N THEN NoVersion ELSE s.code[n]]]

(* uninstallPackage refuses what another manager installed, but only when  *)
(* a package of that very name is there.                                   *)
Refused(s, n, force) ==
  /\ ~force
  /\ \E d \in FirstMatch(s, n) : s.mark[d] = "pip"
  /\ Of(s, n) # {}

CanUninstall(s, n, force) == FirstMatch(s, n) # {} /\ ~Refused(s, n, force)

(* uninstallPackage: the first match, the files its RECORD lists and the   *)
(* directory of the name; an error leaves everything alone.                *)
Uninstall(s, n, force) ==
  IF CanUninstall(s, n, force)
  THEN Without(s, FirstMatch(s, n), NamesOf(FirstMatch(s, n)) \cup {n})
  ELSE s

(* fs.LinkDir of one wheel into site-packages: an INSTALLER that is there  *)
(* stays, the files of another version are overwritten.                    *)
Link(s, d) ==
  [mark |-> [s.mark EXCEPT ![d] = IF @ = "absent" THEN "none" ELSE @],
   code |-> [s.code EXCEPT ![d.name] = d.ver]]

(* install's swap: every top-level entry of the staged wheels replaces its *)
(* counterpart.                                                            *)
Swap(s, D) ==
  [mark |-> [d \in Dist |-> IF d \in D THEN "none" ELSE s.mark[d]],
   code |-> [n \in Name |-> IF n \in NamesOf(D)
                            THEN (CHOOSE d \in D : d.name = n).ver
                            ELSE s.code[n]]]

(* Marking the last match (a mutant).                                      *)
MarkLast(s, N) ==
  [s EXCEPT !.mark = [d \in Dist |->
     IF \E n \in N : d \in LastMatch(s, n) THEN "fpm" ELSE s.mark[d]]]

(* The loop that writes INSTALLER for the names in N.                      *)
MarkNames(s, N) ==
  [s EXCEPT !.mark = [d \in Dist |->
     IF \E n \in N : d \in FirstMatch(s, n) THEN "fpm" ELSE s.mark[d]]]

(* Cleaning that leaves the dist-info directories (a mutant).              *)
CleanFiles(s) == Without(s, {}, NamesOf(FpmDists(s)))

(* CleanSitePackages: every fpm dist-info directory, with the directory    *)
(* named like it.  That directory stands for the code of a name: what a    *)
(* wheel has outside it (a single module, a script) is not in the model,   *)
(* and cleaning leaves it there.                                           *)
Clean(s) == Without(s, FpmDists(s), NamesOf(FpmDists(s)))

(* removePackageFromSitePackages: "-" has become "_" in the directory's    *)
(* name before distInfoToPackageDir looks for the "-", so that only the    *)
(* files go.                                                               *)
RemoveFiles(s, n) == Without(s, {}, {n})

(* pip install --target --no-deps: what is there already stays.            *)
PipTarget(s, d) ==
  [mark |-> [s.mark EXCEPT ![d] = IF @ = "absent" THEN "pip" ELSE @],
   code |-> [s.code EXCEPT ![d.name] = IF @ = NoVersion THEN d.ver ELSE @]]

(* pip install and pip uninstall replace or take what they find of a name. *)
PipInstall(s, d) ==
  [mark |-> [e \in Dist |-> IF e = d THEN "pip"
                            ELSE IF e.name = d.name THEN "absent" ELSE s.mark[e]],
   code |-> [s.code EXCEPT ![d.name] = d.ver]]

PipUninstall(s, n) == Without(s, Of(s, n), {n})
=============================================================================
