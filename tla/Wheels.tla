-------------------------------- MODULE Wheels --------------------------------
(***************************************************************************)
(* The name of a wheel (internal/wheel) and the tags this interpreter and  *)
(* this platform accept, the best one first (internal/platform).           *)
(*                                                                         *)
(* A file of a project page is                                             *)
(*   [version, python, abi, platform, yanked, deps]                        *)
(* with the version's text (module Pep440), the three sets of tags of its  *)
(* name and its Requires-Dist lines; a source distribution has no tags.    *)
(***************************************************************************)
EXTENDS Pep440, SequencesExt

(* GenerateTags of an interpreter's tag ("cp311"), its major version's     *)
(* ("py3"), the platform's own tag and the ones of older or newer systems. *)
(* The plain cp tag goes with each of those, abi3 only with this           *)
(* interpreter's own, "py311" and the older "cp" tags with nothing.        *)
GenerateTags(cpython, py, own, others) ==
  <<<<cpython, cpython, own>>, <<cpython, "abi3", own>>, <<cpython, "none", own>>,
    <<cpython, "none", "any">>, <<py, "none", own>>, <<py, "none", "any">>>>
  \o FlattenSeq([i \in DOMAIN others |->
       <<<<cpython, cpython, others[i]>>, <<cpython, "abi3", others[i]>>,
         <<cpython, "none", others[i]>>>>])

(* ParseWheelTags: every combination of the three.                         *)
ParseWheelTags(f) == f.python \X f.abi \X f.platform

(* TagSet.Compatible: the places of the tags; a tag that is there twice    *)
(* has the first.                                                          *)
Places(f, accepted) ==
  {i \in DOMAIN accepted : /\ accepted[i] \in ParseWheelTags(f)
                           /\ \A j \in 1..(i - 1) : accepted[j] # accepted[i]}

IsPureWheel(f) == "any" \in f.platform

(* ParseFilename.                                                          *)
ParseFilename(f, accepted) ==
  [ver |-> Parse440(f.version)[1], tags |-> Places(f, accepted),
   pure |-> IsPureWheel(f), yanked |-> f.yanked, deps |-> f.deps]

(* The elements of a sequence at some of its places, in their order.       *)
ElementsAt(s, places) ==
  [k \in 1..Cardinality(places) |->
     s[CHOOSE i \in places : Cardinality({j \in places : j < i}) = k - 1]]

(* The files of a page whose names can be read.                            *)
WheelsOf(page, accepted) ==
  LET readable == ElementsAt(page,
                    {i \in DOMAIN page : Parse440(page[i].version) # <<>>})
  IN  [i \in DOMAIN readable |-> ParseFilename(readable[i], accepted)]
=============================================================================
