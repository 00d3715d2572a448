------------------------------- MODULE Resolver -------------------------------
(***************************************************************************)
(* What `fpm install` and `fpm lock` ask of the indexes and make of the    *)
(* answers: Resolver.Resolve (internal/resolver) on top of the registry    *)
(* client (internal/client) with its retries, its list of indexes and its  *)
(* cache, versions (Pep440) and markers (Pep508).                          *)
(*                                                                         *)
(*   world     the pages of every index, the requirements asked for and    *)
(*             the versions fpm.toml pins                                  *)
(*   cache     the project pages in the HTTP cache                         *)
(*   fetch     the request that is under way                               *)
(*   queue     the requirements not yet looked at                          *)
(*   resolved  the file chosen for a name                                  *)
(*   lossy     a page or a wheel could not be had (history)                *)
(*   results   what resolutions without losses have returned (history)     *)
(*   rounds    resolutions begun                                           *)
(*                                                                         *)
(* There is no backtracking: the first requirement on a name chooses its   *)
(* version, and a later one that does not contain it ends the resolution.  *)
(* Each resolution may be asked for its requirements in another order.     *)
(***************************************************************************)
EXTENDS Pep508, Wheels

CONSTANTS
  Name,
  Pages,         \* the project pages, by a name for each
  Worlds,        \* what the program may meet
  Environments,  \* marker environments
  Variables,     \* the variables of markers
  TagSet,        \* the tags accepted here, the best first
  NoPage,        \* an index does not have the project, the cache no page
  NoFile,        \* nothing chosen
  MaxRounds      \* bound: resolutions, one after the other

(* A Requires-Dist line, and the requirement that is read from it.         *)
Line == [name : Name, url : BOOLEAN, specs : SUBSET SpecifierText,
         marker : AtMostOne(Marker)]

Requirement == [name : Name, specs : SUBSET Specifier, marker : AtMostOne(Marker)]

(* A project page: JSON or HTML, with its files in their order.            *)
PageFile == [version : VersionText, python : SUBSET STRING, abi : SUBSET STRING,
             platform : SUBSET STRING, yanked : BOOLEAN, deps : Seq(Line)]

Page == [html : BOOLEAN, files : Seq(PageFile)]

(* A wheel that can be chosen, and the requirements of its METADATA.       *)
Wheel == [ver : Version, tags : SUBSET Nat, pure : BOOLEAN, yanked : BOOLEAN,
          deps : Seq(Requirement)]

MaybePage == DOMAIN Pages \cup {NoPage}

World == [pages : Seq([Name -> MaybePage]) \ {<<>>}, reqs : Seq(Requirement),
          pins : [Name -> AtMostOne(Version)]]

(* There is one index at least: PyPI when none is configured.              *)
ASSUME ResolverAssumption ==
  /\ Pages \in Seq(Page)
  /\ Worlds \subseteq World
  /\ TagSet \in Seq(STRING \X STRING \X STRING)
  /\ NoPage \notin DOMAIN Pages
  /\ NoFile \notin Wheel
  /\ MaxRounds \in Nat

(* doWithRetry's maxRetries.                                               *)
MaxRetries == 3

VARIABLES world, cache, fetch, queue, resolved, status, lossy, results, rounds

vars == <<world, cache, fetch, queue, resolved, status, lossy, results, rounds>>

NoFetch == [what |-> "none", index |-> 0, attempt |-> 0, file |-> NoFile]

Fetch == [what : {"none", "page", "wheel"}, index : 0..Len(world.pages),
          attempt : 0..MaxRetries, file : Wheel \cup {NoFile}]

Choice == [Name -> Wheel \cup {NoFile}]

TypeOK ==
  /\ world \in World
  /\ cache \in [Name -> MaybePage]
  /\ \A n \in Name : cache[n] = NoPage
       \/ \E i \in DOMAIN world.pages : cache[n] = world.pages[i][n]
  /\ fetch \in Fetch
  /\ queue \in Seq(Requirement)
  /\ resolved \in Choice
  /\ status \in {"idle", "running", "done", "failed"}
  /\ fetch # NoFetch => status = "running" /\ resolved[Head(queue).name] = NoFile
  /\ lossy \in BOOLEAN
  /\ results \subseteq Choice
  /\ rounds \in 0..MaxRounds

NothingResolved == [n \in Name |-> NoFile]

Init ==
  /\ world \in Worlds
  /\ cache = [n \in Name |-> NoPage]
  /\ fetch = NoFetch
  /\ queue = <<>>
  /\ resolved = NothingResolved
  /\ status = "idle"
  /\ lossy = FALSE
  /\ results = {}
  /\ rounds = 0

---------------------------------------------------------------------------
(* The marker environment the resolver uses: every variable is empty.      *)
ResolverEnvironment == [x \in Variables |-> EmptyText]

(* The requirements of the Requires-Dist lines that can be read and whose  *)
(* marker holds.                                                           *)
Kept(lines) ==
  LET holds(m) == LET read == Parse(Written(m), ResolverEnvironment)
                  IN  read.ok /\ read.holds
      stay == ElementsAt(lines, {i \in DOMAIN lines :
                                   /\ ParseRequirement(lines[i]) # <<>>
                                   /\ \A m \in ToSet(lines[i].marker) : holds(m)})
  IN  [i \in DOMAIN stay |-> ParseRequirement(stay[i])[1]]

(* parseSimpleHTML of an index that does not answer with JSON: data-yanked *)
(* is not looked at.                                                       *)
FromHtml(files) == [i \in DOMAIN files |-> [files[i] EXCEPT !.yanked = FALSE]]

(* The wheels of every page, and the requirements their METADATA will give.*)
WheelsOn ==
  [page \in DOMAIN Pages |->
     LET files == IF Pages[page].html THEN FromHtml(Pages[page].files)
                  ELSE Pages[page].files
         wheels == WheelsOf(files, TagSet)
     IN  [i \in DOMAIN wheels |-> [wheels[i] EXCEPT !.deps = Kept(@)]]]

Orders(reqs) == {[i \in DOMAIN reqs |-> reqs[p[i]]] :
                   p \in {q \in [DOMAIN reqs -> DOMAIN reqs] :
                            \A i, j \in DOMAIN reqs : q[i] = q[j] => i = j}}

Begin(reqs) ==
  /\ status # "running" /\ rounds < MaxRounds
  /\ reqs \in Orders(world.reqs)
  /\ queue' = reqs
  /\ resolved' = NothingResolved
  /\ status' = "running"
  /\ rounds' = rounds + 1
  /\ UNCHANGED <<world, cache, fetch, lossy, results>>

(* Ten minutes pass between two resolutions.                               *)
Expire(n) ==
  /\ status # "running"
  /\ cache[n] # NoPage
  /\ cache' = [cache EXCEPT ![n] = NoPage]
  /\ UNCHANGED <<world, fetch, queue, resolved, status, lossy, results, rounds>>

Working == status = "running" /\ queue # <<>> /\ fetch = NoFetch

First == Head(queue)

(* Mutant: the request is left open.                                       *)
FailAsking ==
  /\ status' = "failed"
  /\ UNCHANGED <<world, cache, fetch, queue, resolved, results, rounds>>

(* Resolve returns an error.                                               *)
Fail ==
  /\ status' = "failed"
  /\ fetch' = NoFetch
  /\ UNCHANGED <<world, cache, queue, resolved, results, rounds>>

(* Mutant: what is resolved is not looked at again.                        *)
CheckNothing ==
  /\ Working /\ resolved[First.name] # NoFile
  /\ queue' = Tail(queue)
  /\ UNCHANGED <<world, cache, fetch, resolved, status, lossy, results, rounds>>

(* Another requirement on a resolved name: the version must satisfy it.    *)
CheckAgain ==
  /\ Working /\ resolved[First.name] # NoFile
  /\ Admits(First.specs, resolved[First.name].ver)
  /\ queue' = Tail(queue)
  /\ UNCHANGED <<world, cache, fetch, resolved, status, lossy, results, rounds>>

Conflict ==
  /\ Working /\ resolved[First.name] # NoFile
  /\ ~Admits(First.specs, resolved[First.name].ver)
  /\ Fail
  /\ UNCHANGED lossy

(* getImmutableVersion: the version fpm.toml pins, in a sequence.          *)
Immutable(n) == world.pins[n]

(* A pinned package has its version, whatever the index says, and no       *)
(* dependencies; a requirement it does not satisfy ends the resolution.    *)
UsePin ==
  /\ Working /\ resolved[First.name] = NoFile
  /\ \E ver \in ToSet(Immutable(First.name)) :
       IF Admits(First.specs, ver)
           THEN /\ resolved' = [resolved EXCEPT ![First.name] =
                     [ver |-> ver, tags |-> {}, pure |-> TRUE, yanked |-> FALSE,
                      deps |-> <<>>]]
                /\ queue' = Tail(queue)
                /\ UNCHANGED <<world, cache, fetch, status, lossy, results, rounds>>
           ELSE Fail /\ UNCHANGED lossy

Unpinned == Working /\ resolved[First.name] = NoFile /\ Immutable(First.name) = <<>>

---------------------------------------------------------------------------
(* The registry client                                                     *)

(* FetchPackageVersions: the cache has no page that is young enough.       *)
Ask ==
  /\ Unpinned /\ cache[First.name] = NoPage
  /\ fetch' = [NoFetch EXCEPT !.what = "page", !.index = 1]
  /\ UNCHANGED <<world, cache, queue, resolved, status, lossy, results, rounds>>

Asked == world.pages[fetch.index][First.name]

(* writeCache: the page, and not the index it came from.                   *)
WriteCache(n, page) == cache' = [cache EXCEPT ![n] = page]

Answer ==
  /\ fetch.what = "page" /\ Asked # NoPage
  /\ WriteCache(First.name, Asked)
  /\ fetch' = NoFetch
  /\ UNCHANGED <<world, queue, resolved, status, lossy, results, rounds>>

(* Mutant: the attempts start again.                                       *)
RetryForever ==
  /\ fetch.what # "none"
  /\ fetch' = [fetch EXCEPT !.attempt = (@ + 1) % (MaxRetries + 1)]
  /\ UNCHANGED <<world, cache, queue, resolved, status, lossy, results, rounds>>

(* doWithRetry: a timeout, a refused connection, 429, 500, 502, 503.       *)
Retry ==
  /\ fetch.what # "none" /\ fetch.attempt < MaxRetries
  /\ fetch' = [fetch EXCEPT !.attempt = @ + 1]
  /\ UNCHANGED <<world, cache, queue, resolved, status, lossy, results, rounds>>

(* No page: the index does not have the project, the attempts are used up  *)
(* or the answer is not one that is tried again.  Then the next index is   *)
(* asked; after the last one the resolution fails.                         *)
TryNext ==
  /\ fetch.what = "page"
  /\ lossy' = (lossy \/ Asked # NoPage)
  /\ IF fetch.index < Len(world.pages)
     THEN /\ fetch' = [NoFetch EXCEPT !.what = "page", !.index = fetch.index + 1]
          /\ UNCHANGED <<world, cache, queue, resolved, status, results, rounds>>
     ELSE Fail

---------------------------------------------------------------------------
(* Choosing a file                                                         *)

Least(S) == CHOOSE k \in S : \A j \in S : k <= j

(* resolvePackage's candidates among the wheels of a page: not yanked,     *)
(* within the specifiers, and for this platform.                           *)
Candidates(page, specs) ==
  {i \in DOMAIN page : /\ ~page[i].yanked
                       /\ Admits(specs, page[i].ver)
                       /\ page[i].tags # {}}

(* Of the files of one version: a pure one, then the best tag, then the    *)
(* first of the page.                                                      *)
Better(page, i, j) ==
  LET f == page[i]
      g == page[j]
  IN  \/ f.pure /\ ~g.pure
      \/ f.pure = g.pure /\ Least(f.tags) < Least(g.tags)
      \/ f.pure = g.pure /\ Least(f.tags) = Least(g.tags) /\ i < j

BestFiles(page, specs) ==
  UNION {{page[i] : i \in {j \in fit :
            \A k \in fit : k # j /\ page[k].ver = page[j].ver => Better(page, j, k)}} :
         fit \in {Candidates(page, specs)}}

(* Mutants: sorted the other way round, not sorted at all.                 *)
FirstAscending(files) ==
  {s[1] : s \in {t \in SetToSeqs(files) :
     \A i \in 1..(Len(t) - 1) : Compare(t[i].ver, t[i + 1].ver) <= 0}}
FirstWalked(files) == files

(* The first file after sort.Slice: the map is walked in any order, and    *)
(* the sort only sees to it that no file is below the one that follows it. *)
FirstSorted(files) ==
  {s[1] : s \in {t \in SetToSeqs(files) :
     \A i \in 1..(Len(t) - 1) : Compare(t[i].ver, t[i + 1].ver) >= 0}}

Pick ==
  /\ Unpinned /\ cache[First.name] # NoPage
  /\ \E files \in {BestFiles(WheelsOn[cache[First.name]], First.specs)} :
       IF files = {} THEN Fail /\ UNCHANGED lossy
       ELSE /\ \E f \in FirstSorted(files) :
                 fetch' = [NoFetch EXCEPT !.what = "wheel", !.file = f]
            /\ UNCHANGED <<world, cache, queue, resolved, status, lossy, results, rounds>>

(* The name is resolved; its dependencies go to the end of the queue.      *)
Settle(deps) ==
  /\ resolved' = [resolved EXCEPT ![First.name] = [fetch.file EXCEPT !.deps = deps]]
  /\ queue' = Tail(queue) \o deps
  /\ fetch' = NoFetch
  /\ UNCHANGED <<world, cache, status, results, rounds>>

ReadMetadata ==
  /\ fetch.what = "wheel"
  /\ Settle(fetch.file.deps)
  /\ UNCHANGED lossy

(* The wheel cannot be had: the package counts as one without dependencies *)
(* from here on, whatever its METADATA would have asked for.               *)
LoseMetadata ==
  /\ fetch.what = "wheel"
  /\ Settle(<<>>)
  /\ lossy' = TRUE

Finish ==
  /\ status = "running" /\ queue = <<>>
  /\ status' = "done"
  /\ results' = IF lossy THEN results ELSE results \cup {resolved}
  /\ UNCHANGED <<world, cache, fetch, queue, resolved, lossy, rounds>>

Work == Retry \/ TryNext \/ LoseMetadata \/ Ask \/ Answer \/ CheckAgain
        \/ Conflict \/ UsePin \/ Finish \/ Pick \/ ReadMetadata

Next ==
  \/ \E reqs \in Orders(world.reqs) : Begin(reqs)
  \/ \E n \in Name : Expire(n)
  \/ Work

Spec == Init /\ [][Next]_vars

(* A resolution that runs goes on.                                         *)
FairSpec == Spec /\ WF_vars(Work)
---------------------------------------------------------------------------
(* What a resolution promises                                              *)

(* The requirements an assignment of files to names has to meet.           *)
Requirements(f) ==
  ToSet(world.reqs) \cup UNION {ToSet(f[n].deps) : n \in {m \in Name : f[m] # NoFile}}

Solution(f) ==
  \A r \in Requirements(f) :
    f[r.name] # NoFile /\ Admits(r.specs, f[r.name].ver)

Chosen == {n \in Name : resolved[n] # NoFile}

(* The wheels of a name, as the indexes have them.                         *)
Published(n) ==
  UNION {ToSet(WheelsOn[world.pages[i][n]]) :
           i \in {j \in DOMAIN world.pages : world.pages[j][n] # NoPage}}

(* The file chosen asks for what the METADATA of its wheel asks for; only  *)
(* a loss leaves it with nothing to ask for.                               *)
AsPublished(n) ==
  \E w \in Published(n) :
    resolved[n] = w \/ (lossy /\ resolved[n] = [w EXCEPT !.deps = <<>>])

(* A resolution that succeeds meets every requirement of the project and   *)
(* of every package it chose whose METADATA it read (without losses, those *)
(* of every wheel it chose that is not pinned), keeps the pins and chooses *)
(* nothing that is not needed: conflicts are seen whatever the order they  *)
(* come in.  A wheel whose METADATA was lost is installed without its      *)
(* dependencies.                                                           *)
Consistent ==
  status = "done" =>
    /\ Solution(resolved)
    /\ \A n \in Chosen : Immutable(n) = <<>> => AsPublished(n)
    /\ \A n \in Chosen : \A ver \in ToSet(Immutable(n)) : resolved[n].ver = ver
    /\ \A S \in SUBSET Chosen :
         (\A r \in ToSet(world.reqs) \cup UNION {ToSet(resolved[n].deps) : n \in S} :
            r.name \in S) => S = Chosen

(* The wheels of the first index that has the project.                     *)
Offer(n) ==
  LET having == {i \in DOMAIN world.pages : world.pages[i][n] # NoPage}
  IN  IF having = {} THEN <<>> ELSE WheelsOn[world.pages[Least(having)][n]]

(* Without losses, each version is the newest for this platform, of the    *)
(* first index, that meets all requirements on its name together: choosing *)
(* after the first requirement loses nothing when the resolution succeeds. *)
Newest ==
  status = "done" /\ ~lossy =>
    \A n \in Chosen : Immutable(n) = <<>> =>
      LET on == UNION {r.specs : r \in {q \in Requirements(resolved) : q.name = n}}
      IN  \A i \in Candidates(Offer(n), on) :
            PepOrder(Offer(n)[i].ver, resolved[n].ver) <= 0

(* Two resolutions of the same requirements that succeed without losses    *)
(* choose the same files, in whatever order the requirements are written   *)
(* (when no two offered versions compare as equal).                        *)
OrderFree == Cardinality(results) <= 1

(* However long the network fails and whatever cycle the dependencies      *)
(* make, a resolution ends.                                                *)
Terminates == status = "running" ~> status # "running"

(* What there is left to do: names without a file, requirements, steps     *)
(* until the first requirement has a wheel, attempts at all indexes.       *)
Unresolved == Cardinality(Name \ Chosen)

StepsToWheel ==
  IF fetch.what = "wheel" THEN 0
  ELSE IF fetch.what = "page" THEN 2
  ELSE IF queue # <<>> /\ cache[First.name] = NoPage THEN 3 ELSE 1

Attempts == (Len(world.pages) - fetch.index) * (MaxRetries + 1) + MaxRetries - fetch.attempt

Nearer ==
  \/ Unresolved' < Unresolved
  \/ /\ Unresolved' = Unresolved
     /\ \/ Len(queue') < Len(queue)
        \/ /\ Len(queue') = Len(queue)
           /\ \/ StepsToWheel' < StepsToWheel
              \/ StepsToWheel' = StepsToWheel /\ Attempts' < Attempts

(* No step of a resolution goes in a circle: each brings it nearer to its  *)
(* end, whatever the network does, though a wheel may add any number of    *)
(* requirements to the queue, and a failed index all attempts of the next. *)
ResolutionAdvances == [][Work => status' # "running" \/ Nearer]_vars

(* The markers of a page that is chosen from are read to the end, and as   *)
(* what PEP 508 says, in every environment - if no ordering and no "in"    *)
(* has its text before its variable: such a comparison is read the other   *)
(* way round.                                                              *)
MarkersRead ==
  fetch.what = "wheel" =>
    \A f \in ToSet(Pages[cache[First.name]].files) :
    \A m \in UNION {ToSet(d.marker) : d \in ToSet(f.deps)} :
    \A env \in Environments :
      LET read == Parse(Written(m), env)
      IN  read.ok /\ (Straight(m) => read.holds = Meaning(m, env))

(* What install and lock write of a version is read back as that version:  *)
(* sync and the scanner compare texts.                                     *)
VersionsReread ==
  status = "done" =>
    \A n \in Chosen : Parse440(VersionString(resolved[n].ver)) = <<resolved[n].ver>>

(* "Repeats until all packages are resolved or proven unsatisfiable": what *)
(* fails without losses has no solution.                                   *)
Offered(n) ==
  {NoFile} \cup
  IF Immutable(n) # <<>>
  THEN {[ver |-> Immutable(n)[1], tags |-> {}, pure |-> TRUE, yanked |-> FALSE,
         deps |-> <<>>]}
  ELSE {Offer(n)[i] : i \in Candidates(Offer(n), {})}

FailsOnlyUnsatisfiable ==
  status = "failed" /\ ~lossy =>
    ~\E f \in [Name -> UNION {Offered(n) : n \in Name}] :
        (\A n \in Name : f[n] \in Offered(n)) /\ Solution(f)
=============================================================================
