------------------------------ MODULE MCResolver ------------------------------
(* Instances of Resolver for TLC: three projects, two indexes.             *)
EXTENDS Resolver

CONSTANTS a, b, c

(* Texts of versions: 1.0, 1.0-1, 2.0, 2c1, 2.dev3, 1.0.post2.dev1, and    *)
(* one that is none.                                                       *)
Labelled(label, digits) == <<[label |-> label, digits |-> digits]>>
t1 == TextOf(<<1, 0>>, <<>>, <<>>, <<>>)
t1post == TextOf(<<1, 0>>, <<>>, Labelled("-", <<1>>), <<>>)
t2 == TextOf(<<2, 0>>, <<>>, <<>>, <<>>)
t2rc == TextOf(<<2>>, Labelled("c", <<1>>), <<>>, <<>>)
t2dev == TextOf(<<2>>, <<>>, <<>>, Labelled("dev", <<3>>))
unreadable == TextOf(<<>>, <<>>, <<>>, <<>>)

v1 == Parse440(t1)[1]
v2 == Parse440(t2)[1]

Spec440(op, text) == [op |-> op, text |-> text, wild |-> FALSE]
Prefix440(op, text) == [op |-> op, text |-> text, wild |-> TRUE]

Requires(n, specs) == [name |-> n, url |-> FALSE, specs |-> specs, marker |-> <<>>]
Marked(n, m) == [Requires(n, {}) EXCEPT !.marker = <<m>>]
Req(n, specs) == ParseRequirement(Requires(n, specs))[1]

(* A CPython 3.11 on Linux.                                                *)
LinuxTags == GenerateTags("cp311", "py3", "manylinux_2_17",
                          <<"manylinux_2_35", "manylinux_2_17", "linux">>)

File(text, deps) ==
  [version |-> text, python |-> {"py2", "py3"}, abi |-> {"none"}, platform |-> {"any"},
   yanked |-> FALSE, deps |-> deps]

Built(text, python, abi, platform) ==
  [File(text, <<>>) EXCEPT !.python = {python}, !.abi = {abi}, !.platform = {platform}]

Sdist(text) == [File(text, <<>>) EXCEPT !.python = {}]

Below2 == {Spec440("<", t2)}
About1 == {Spec440("~=", t1)}

(* Markers: true and false where every variable is empty.                  *)
Ranked(rank) == [ver |-> <<>>, rank |-> rank]
Old == Comparison("python_version", "<", [ver |-> <<v2>>, rank |-> 2])
Security == Comparison("extra", "==", Ranked(5))
Turned == ValueFirst(Ranked(5), "==", "extra")
Above2 == ValueFirst([ver |-> <<v2>>, rank |-> 2], "<=", "python_version")
Some == [parts |-> <<Security, Old, Security>>, words |-> <<"or", "and">>,
         group |-> "first"]

(* All 96 markers of three such comparisons, some with the text first, and *)
(* one that is read the other way round.                                   *)
MarkerAt(i) ==
  LET bit(k) == (i \div 2^k) % 2 = 1
  IN  [parts |-> [k \in 1..3 |-> IF i = 96 THEN Above2
                                 ELSE IF bit(k - 1) THEN Old
                                 ELSE IF k = 2 THEN Turned ELSE Security],
       words |-> [k \in 1..2 |-> IF bit(k + 2) THEN "and" ELSE "or"],
       group |-> <<"none", "first", "last", "none">>[i \div 32 + 1]]

Vars == {"python_version", "extra"}
Envs == {[x \in Vars |-> EmptyText],
         [x \in Vars |-> IF x = "extra" THEN Ranked(5)
                         ELSE [ver |-> <<v1>>, rank |-> 1]],
         [x \in Vars |-> IF x = "extra" THEN EmptyText
                         ELSE [ver |-> <<v2>>, rank |-> 2]]}

(* With wheels of another system and of another interpreter, a slower tag, *)
(* a source distribution, a yanked file and one whose name is no wheel's.  *)
Mixed == <<File(t2rc, <<>>), [File(t2, <<>>) EXCEPT !.yanked = TRUE],
           File(unreadable, <<>>), File(t2dev, <<>>),
           Built(t2, "cp39", "abi3", "manylinux_2_17"),
           Built(t1, "cp311", "cp311", "linux"),
           Built(t1, "cp311", "abi3", "manylinux_2_17"),
           Built(t2, "cp311", "cp311", "win_amd64")>>

Json(files) == [html |-> FALSE, files |-> files]
Html(files) == [html |-> TRUE, files |-> files]
OldAndNew(deps) == Json(<<File(t1, <<>>), File(t2, deps)>>)

(* The pages of a and b (1 to 8), of c (9 to 12), and of a with a marker.   *)
AllPages ==
  << OldAndNew(<<>>), OldAndNew(<<Requires(c, Below2), Requires(b, {})>>),
     OldAndNew(<<Requires(b, About1)>>),
     OldAndNew(<<Requires(b, {}), Requires(c, {Prefix440("==", t2)})>>),
     OldAndNew(<<Marked(c, Some), Requires(c, {Spec440("!=", t2)})>>),
     OldAndNew(<<Requires(b, {Spec440("<", unreadable)}),
                 [Requires(c, About1) EXCEPT !.url = TRUE]>>),
     OldAndNew(<<Requires(c, {Spec440("<=", t2rc)})>>),
     OldAndNew(<<Requires(a, {}), Requires(c, {})>>),
     Json(<<File(t1, <<>>), File(t1post, <<>>), File(t2, <<>>), Sdist(t2)>>),
     Json(Mixed), Html(Mixed), Json(<<File(t1, <<>>)>>) >>
  \o [i \in 1..97 |-> OldAndNew(<<Marked(c, MarkerAt(i - 1))>>)]

WorldOf(onA, onB, onC, reqs, pins) ==
  [pages |-> <<(a :> onA) @@ (b :> onB) @@ (c :> onC),
               (a :> NoPage) @@ (b :> NoPage) @@ (c :> 12)>>,
   reqs |-> reqs, pins |-> pins]

NoPins == [n \in {a, b, c} |-> <<>>]
PinC == [NoPins EXCEPT ![c] = <<v1>>]

Asks == {<<Req(a, {})>>, <<Req(a, {}), Req(b, {})>>,
         <<Req(b, {}), Req(c, Below2)>>,
         <<Req(c, {Spec440("===", t2)}), Req(a, {})>>}

ManyWorlds ==
  {WorldOf(onA, onB, onC, reqs, NoPins) :
     onA \in 1..6, onB \in {1, 7, 8}, onC \in {9, 10}, reqs \in Asks}
  \cup {WorldOf(onA, 7, 9, reqs, PinC) : onA \in 1..6, reqs \in Asks}
  \cup {WorldOf(onA, 1, NoPage, reqs, NoPins) : onA \in 1..6, reqs \in Asks}
  \cup {WorldOf(onA, 1, 11, <<Req(c, {}), Req(a, {})>>, NoPins) : onA \in 1..6}
  \cup {WorldOf(i, 1, NoPage, <<Req(a, {})>>, NoPins) : i \in 13..109}

(* flask, and then flask below 2.                                          *)
TwoRequirements ==
  {WorldOf(1, 1, NoPage, <<Req(a, {}), Req(a, Below2)>>, NoPins)}
=============================================================================
