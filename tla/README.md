# TLA+ models of fpm

fpm is a package manager for Python written in Go. It resolves and downloads
wheels, unpacks each once into a store that all environments share, links them
into environments, and keeps a graph of who needs whom so that it can clean up.
This directory models the parts of it whose correctness depends on the order of
events, checks the models with TLC and proves what matters most about them with
TLAPS. Paths below are relative to the repository; `internal/` is omitted where
the package is clear.

Run a model with `tlc -config env_person.cfg MCFpmEnv`, check a proof with
`tlapm FpmEnvProofs.tla`. `PROJECT.json` lists the runs, the faults each property
was seen to notice, the source lines of every definition, the findings, the
hazards and the theorems.

## 1. The system

| Component | State it keeps | Operations | Hard about it |
|---|---|---|---|
| Dependency graph (`depgraph`) | `.fpm-depgraph.json` in the environment: nodes with a requested flag and edges | `AddRequested`, `AddTransitive`, `Remove`, `Orphans`, `DependentsOf`, `SyncFromInstalled`, `Load`, `Save` | truncate-then-write against readers and crashes, cycles |
| Environment commands (`cli/install_impl.go`, `remove_impl.go`, `mark.go`, `sync_impl.go`) | site-packages, INSTALLER marks, the graph, pyproject.toml, fpm.lock | `install`, `remove [--purge]`, `autoremove`, `mark`, `sync` | only install and sync take the environment lock; each is a load-change-save of several files |
| File locks (`fs/flock.go`) | kernel locks on `*.lock` | `LockFile` (30 s), `LockFileShared`, `UnlockFile` | death of a holder, missing permission, time-out |
| Wheel download (`client`) | `wheels/<file>`, HTTP cache | `DownloadWheel`, `GetProject`, retries | one shared path, streamed in place |
| Store (`cache`) | `cas/<digest>` trees, `tmp/` | `Store`, `Retrieve`, `Remove`, `GC`, `Prune`, `Clean` | no lock at all: rename is the commit point |
| Reference tracker (`cache/reference.go`) | `index/by-cas`, `index/by-env` | `AddReference`, `ListUnused` | references outlive environments |
| Linking (`fs/link.go`) | files in site-packages | `LinkDir`, `LinkFile` | partial copies |
| Bisect (`cli/bisect.go`) | `.fpm-bisect.json` | `start`, `good`, `bad`, `reset` | two saves a command |
| Project files (`workspace`, `lock`, `cli/lock_impl.go`) | pyproject.toml, fpm.lock | `AddDependency`, `RemoveDependency`, `Generate`, `Write`, `lock` | three descriptions of one environment, each written by another command |
| Snapshots (`snapshot`, `cli/snapshot.go`, `cli/cherrypick.go`) | `snapshots/<hash>/snap-*.json`, `current` | capture, restore, diff, delete, cherry-pick | clean first, then re-link; identifiers by the second; a scan older than the lock |
| Branches, stash, tags (`cli`) | `.fpm-branches.json`, `.fpm-stash.json`, `.fpm-tags.json` | create, switch, push, pop, tag | packages are put aside by name, one by one, and nothing brings them back |
| Journal (`journal`, `cli/revert.go`) | `.fpm-journal.jsonl` | record, revert | identifiers repeat, names are matched by prefix |
| Resolver (`resolver`) | nothing lasting | `Resolve` | greedy worklist without backtracking, a choice out of a map |
| Registry client (`client`) | project pages in the HTTP cache | `FetchPackageVersions`, retries | several indexes, a page cached without its index, lost answers |
| Versions, markers, wheel names (`pep440`, `pep508`, `wheel`, `platform`) | none | parse, print, compare, match, tags | an order and its boundaries, a text that must read back |
| Tools, venvs, scripts, Python discovery, publishing, self update, reports | their own directories or none | see `PROJECT.json` | mostly input and output |

How they interact. A command of `cli` runs alone in its process and calls the
other packages directly; processes meet only through files. `install` takes the
environment lock, resolves, downloads every wheel to the shared `wheels/`
directory, has the store extract it, links the entry into a staging directory and
records a reference, then swaps the staged packages into site-packages, writes
their INSTALLER marks, and loads, changes and saves the graph. `remove`,
`autoremove` and `mark` work on the same files without the environment lock.
`sync` links entries straight into site-packages, without marks. `snapshot restore`
cleans fpm's packages and links others under the environment lock, `branch switch`
uninstalls by name under it, `stash`, `revert` and `cherry-pick` uninstall by name without it.
`cache gc|prune|clean` work on the store whatever else is running. pip, which knows none of
these locks, and deleted directories are neighbours nobody announces.

What makes each part correct. *Graph*: an orphan is a transitive node nobody
needs, stays one while others are removed, and clean-up ends with no garbage but
cycles. *Graph file*: nobody sees a half-written graph; a save returns.
*Commands*: nothing fpm installed is forgotten; no clean-up takes what is needed,
requested or someone else's; installs exclude each other; clean-ups end.
*Store*: no environment gets a tree with files missing; what an existing
environment references stays. *Bisect*: the answer is the first bad snapshot, in
logarithmically many steps. *Projects*: fpm can remove what it installed, a command
takes nothing of another name, a sync leaves every locked version in place. *Shelf*: nothing is
put aside unlisted. *Snapshots*: an undisturbed restore brings fpm's packages back, and
what it cleans is saved first. *Resolution*: the result meets every requirement, is the
newest that does, does not depend on the order, and every resolution ends.

## 2. The modules

| Module | Models | Extends / refines |
|---|---|---|
| `DepGraph` | the operations of `depgraph/graph.go` as operators on a graph value, and the closure operators of `remove_impl.go` | |
| `FpmEnv` | one environment: the commands as processes, their neighbours, their faults | extends `DepGraph` |
| `AtomicGraph` | what `Load` and `Save` promise: an atomic register | |
| `GraphFile` | `Load` and `Save` by system call: lock, truncate, write, unlock, death | implements `AtomicGraph` |
| `CasStore` | the shared cache: downloads, store, references, maintenance | |
| `Bisect` | a bisect session and the truth it searches for | |
| `SitePackages` | site-packages as a value: dist-info directories by name and version, marks, files; link, swap, mark, uninstall, clean, pip | |
| `Project` | one project: install, remove, lock and sync on site-packages, pyproject.toml, fpm.lock, the graph's names and the journal | extends `SitePackages` |
| `Shelf` | stash, branch and revert | extends `Project` |
| `Snapshots` | snapshots, tags, restore and cherry-pick | extends `SitePackages` |
| `Pep440` | versions and specifiers, next to PEP 440's own order | |
| `Pep508` | requirements and markers, next to what a marker means | extends `Pep440` |
| `Wheels` | wheel names and platform tags | extends `Pep440` |
| `Resolver` | the worklist and the registry client under it | extends `Pep508`, `Wheels` |
| `MCFpmEnv`, `MCGraphFile`, `MCCasStore`, `MCShelf`, `MCSnapshots`, `MCResolver` | small instances for TLC | |
| `FpmEnvProofs`, `GraphFileProofs`, `CasProofs`, `BisectProofs`, `ShelfProofs`, `SnapshotsProofs`, `ResolverProofs` | theorems and proofs | extend the module they are named after |
| `SitePackagesProofs` | lemmas on site-packages that `ShelfProofs` and `SnapshotsProofs` share | extends `SitePackages` |

`FpmEnv` takes Load and Save for single steps; that is what `GraphFile =>
AtomicGraph` justifies. It leaves a crash in the middle of a Save visible
(`Crash` may empty the graph), as `AtomicGraph` does.

### FpmEnv

`site` is the manager of every package's dist-info (`detectManager`: the INSTALLER
file; a missing one counts as someone else's), `graph` the graph file, `declared`
the dependencies in pyproject.toml, `venvLock` the flock on `site-packages/.fpm.lock`.
A process has a program counter, a job (arguments, work left, the edges the
resolver read) and `mem`, its copy of the graph. `Removable` is what `uninstallPackage` may
take for a name: the package of the name, if it may be taken; and when there is none, any
whose name begins with it (`Prefixed`), whoever installed it, because the INSTALLER file is
looked at only when `FindByName` finds the very name (`remove_impl.go:428`, `:446`). `Exact` is an
assumption about people: they give `fpm remove` names of installed packages.

| Code | Actions |
|---|---|
| `runInstall` | `BeginInstall` (lock, scan, resolve, skip what others own), `AbandonInstall`, `SwapInstall` (swap and marks), `SwapStops` (an entry cannot be linked, or the process dies anywhere in the swap and the marks), `LoadForInstall`, `SaveInstalled`, `Declare` (pyproject.toml) |
| `runRemove` | `BeginRemove`, `RemoveArgument` (one call of `uninstallPackage`), `Undeclare` (pyproject.toml), `LoadForRemove`, with `--purge` `PurgeRound` and `RemoveOrphan` in rounds, `Save` |
| `runAutoremove` | `BeginAutoremove`, `PurgeRound`, `RemoveOrphan`, `Save` (only after a removal) |
| `confirmRemoval` | `Confirmed`: all, none, or all but what the person keeps and what that needs |
| `runMark` | `BeginMark`, `Save` |
| `runSync`, pip, kill | `Sync`, `PipInstall`, `PipUninstall`, `Crash` |

Abstractions: every package has one version and one dist-info directory; markers
and extras are resolved (`Deps` is what is left); one call of `uninstallPackage` is one step;
what `sync` does takes one step because it holds the lock; the lockfile is an arbitrary
closed set.

### GraphFile

`file` may be `Torn`, which `json.Unmarshal` makes an empty graph of. `writer` and
`readers` are the flock. A process of `Unprivileged` cannot open the lock file:
its Load reads anyway, its Save returns the error. The refinement mapping puts the
new value into the register at the truncation: nobody with a lock can look before
the write, and a death in between leaves the empty graph.

### CasStore

A key is a wheel and the digest of its content. `wheel`, `cas` and `refs` are the
three places on disk; `writing` tells which process's handle still reaches the
file at the shared path (os.Create truncates it under the others, os.Remove
unlinks it). Extraction goes to `tmp[p]`; `Rename` publishes it. `holes` collects
the pairs of an environment and a wheel that were linked from a tree with files
missing without an error; linking a whole tree repairs the pair. A reference is recorded in
two steps: `AddReference` waits for the file's lock, returns when the environment is listed,
and truncates the file otherwise; `WriteReference` writes it. gc takes no lock and reads a
truncated file as empty (`Listed`); a process that stops in between (`Abandon`) leaves it so, with
every environment forgotten that it listed. Two variables are history: `recorded`, for whom
`AddReference` has returned, and `torn`, the keys whose file was left truncated. Maintenance is
one process: `ListUnused`, then for each entry `RemoveSome`, `RemoveRest`,
`RemoveRefs`, or `RemoveFails` (an error, after which the loop goes on and keeps the
references); `Prune`; `Clean` and `EndClean`. `Delete` and `Make` are a person with
`rm -rf` and `python -m venv`.

`Careful` is an assumption about people: maintenance starts when no install is
running, installs wait for it, and nothing, neither a kill nor an error, stops it inside an
entry (a refusal before the first file is removed is allowed). The code has no
lock that would enforce it, and the store's safety depends on it: without it gc takes
an entry that an install references after gc has made its list, and a tree whose
temporary directory was pruned is published with files missing. Left out: a wheel that grows between being hashed and
being opened; entry sizes and ages (an age limit makes gc remove fewer entries,
which `ListUnused` allows: any subset may be listed).

### Bisect

Snapshots are numbered oldest first as `bisect start` lists them; `Stranger` is one
taken since. `firstBad` is the truth, which the person's answers follow. Every
command saves its answer, then `bisectStep` saves the next snapshot to test: a
command killed in between is `MaybeStep`.

### SitePackages, Project, Shelf

A package has versions here, and every version its own dist-info directory
(`name-version.dist-info`); the package's own directory is shared by them. So several
dist-info directories of one name may be there, and one may outlive its files. That directory
stands for the package's code: what a wheel has outside it (a single module, a script) is not
in the model, and `CleanSitePackages` leaves it there.
`FirstMatch` is the lookup that `uninstallPackage`, the marking loop of `install` and
`writeInstallerFile` have in common: the first directory of the listing whose name starts
with the wanted one and a separator. `Prefixed` gives, for every name, those that start
with it: `flask` finds `flask_cors`, and `Rank` the order of the listing.

`Project` has one command at a time, in as many steps as it leaves between writes:
`BeginInstall` (resolve, ask about other managers' packages), `SwapStaged` or
`SwapStops`, `RecordInstall` (graph, pyproject.toml, lock file, journal); `BeginSync`,
`SyncLink`, `SyncSkip`, `SyncRemove`, `EndSync`; `RemoveName`; `LockProject`. `Die` is a kill
at any of them. pip runs whenever it likes (`PipRuns`), between the scan of a command and its
uninstallations too; an editor comes between commands. `Writes` is what a file may hold when
`os.WriteFile` fails and nobody looks at the error: the new content, the old, or nothing. Two
fields of the command are history: `alone`, pip has not come in since it began, and `whole`, its
list was written and its wheels were linked. `Resolutions` is any resolution that is closed
under dependencies and available, because the index changes over time; what the resolver
really chooses is the question of `Resolver`. `Undeclared` keeps the difference between
`AddDependency`, for which `a.b` and `a_b` are one name, and `RemoveDependency`.

`Shelf` adds the commands that put packages aside: each writes its list first
(`StashPush`, `BeginSwitch`), goes on whether or not that succeeded, and then uninstalls name
by name (`PutAside`). `revert` has no
list. `pop` and `drop` are one action: pop prints what the person should install.

### Snapshots

`store` has a file for every second of the clock (`Id`): the counter in an identifier
restarts with the process, so two commands of one second write the same file. A restore
reads its snapshot and scans in `BeginRestore`, before it waits for the lock; `SaveScan`,
`CleanAll`, `Relink` for every package of fpm's, `RemoveNew`, `External` for every package of
another manager and `Finish` follow, each of which may fail (an error is collected) or be
killed. `snapshot create` and pip go on meanwhile, `install` (which respects the lock) until
the lock is taken. `alone` and `errors` are history: nobody else touched site-packages, no
step failed. `Wheel` is the file a search for a version's text finds.

### Pep440, Pep508, Wheels, Resolver

Texts are what the regular expression's groups make of them, so that parsing is what
`Parse` does with the groups: labels, missing numbers, errors. `Compare` follows the code
phase by phase; `PepOrder` is PEP 440's own sort key and the reference. Markers are tokens;
`Parse` is the recursive descent of `parseMarkerOr`, `parseMarkerAnd` and
`parseMarkerAtom` as one recursive function, `Holds` the `MarkerExpr` that it makes of a
comparison, whose operands it turns round, without the operator, when the text comes first.
`Meaning` is what PEP 508 says: its grouping, and left of the operator what was written left
(`Says`). `Straight` markers have no ordering or containment with its text first.

`Resolver` takes requirements from `queue` as `Resolve` does. `fetch` is the request under
way: which index, which attempt, which file. An index may answer (`Answer`), the attempt may
be repeated (`Retry`), or given up (`TryNext`, which also stands for an answer that is not
tried again); the page goes into `cache` without its index. `Pick` chooses among the wheels
of a page: the best file of every version, then the first after a sort that leaves equal
versions in any order. `LoseMetadata` is a wheel that cannot be had: the package is chosen
all the same, without dependencies. `lossy` remembers that something was lost, since the
properties about the right choice can only hold without losses; `Published` is what a name's
wheels say on the indexes, against which the chosen ones are compared.

## 3. The runs

| Run | Question | Outcome |
|---|---|---|
| `env_person` | One person, commands in any order and any answer to the prompts: is anything forgotten, left as a ghost, wrongly removed (needed, requested, or pip's) or demoted, does a clean-up leave garbage, is any of its steps in vain, does it end? | holds |
| `env_installers` | Do two concurrent installs exclude each other and lose nothing? | holds |
| `env_open` | Among sync, pip, swaps that stop, crashes, unreadable METADATA: is a declared dependency lost to the fallback? | holds |
| `env_loop` | Does every clean-up end when pip or sync may have removed an orphan? | **no** |
| `file_locked` | Do the file operations implement an atomic register; does Save return? | holds |
| `bisect` | Is the answer right and the search logarithmic, with commands killed anywhere? | holds |
| `cas` | Installs that share downloads, fail and die, with careful maintenance: is a truncated tree ever linked, an entry missing that was recorded for an existing environment (unless its reference file was left truncated)? | holds |
| `shelf` | Two versions and a name that begins like another one, under every command of a project, pip beside it, failing writes and kills: can fpm remove what it installed; while pip stays out, does a command take someone else's package, is something put aside that is not in the list it wrote, has a sync that linked every wheel left every locked version in place? | holds |
| `snapshots` | Restores among failures, kills, pip, installs and other snapshots of the same second: are fpm's packages back, was what is cleaned saved, does `diff` agree? | holds |
| `restore_exact` | Is the environment exactly the captured one after an undisturbed restore? | **no** |
| `resolver` | Three projects on two indexes, every order of the requirements, a network that fails: is the result consistent, newest, independent of the order, does its text read back, are markers (with their variable first) read rightly, does every step bring a resolution nearer to its end, does it end? | holds |
| `resolve_conflict` | Does a resolution fail only when no assignment exists? | **no** |

**Bounds.** In `env_person` a and b need each other and both need c: the smallest graph
with a cycle in which removing one package orphans another and that one a third; c's name
begins with b's, so that a ghost of b would take c, whoever installed it (in `env_open` b's
begins with a's). Two installers are enough for a lost update; two packages for one clean-up
among faults.
`file_locked` has a reader, a writer and a process without permission at once, and three
values, so that a stale one differs from the empty one. `cas` needs two installs of one
wheel (shared downloads, two renames), a second wheel so that gc has several entries
listed, and a second environment so that an entry can be referenced by one that exists and
one that does not. Keys, processes and (when none is global) environments are used
symmetrically by every definition, so their permutations are taken as symmetry; the runs
with symmetry check no liveness. Nine snapshots give an even and an odd number of
candidates on each of three levels.

Three models are bounded by guards. `shelf`: `MaxOps = 4` commands and kills (syncs are not
counted), enough for two installs, a command that removes and a kill in the middle; two
names of which one begins with the other, two versions each, since that is where prefix
matching goes wrong. `snapshots`: `MaxOps = 6` commands and failures within two seconds
(`MaxNow = 1`): a package of each manager, a snapshot, a change, a restore, a neighbour and
one failure. `resolver`: two resolutions after each other (`MaxRounds`), so that the second
one meets the cache of the first, with four attempts a request as in the code; the 295 worlds
choose the pages of three projects among ranges, conflicts, cycles, markers, unreadable and
yanked files, foreign wheels, a project on the second index only, and a pin; 97 of them have
a marker of three comparisons: every one of comparisons that are true or false in the
environments used, and one with an ordering whose text comes first.

**Fairness.** `WF_vars(Continue(p))` in `FpmEnv` and `WF_vars(Progress(c))` in `GraphFile`
say that the operating system schedules a running process; no command is ever obliged
to start. In `GraphFile` the polling loop of `LockFile` gives up after 30 s, so a save
returns under this alone, with no assumption that other holders let go. `Resolver` has
`WF_vars(Work)`: a resolution that runs goes on, and no answer is ever promised to arrive.
`Shelf` assumes no fairness: that repeated syncs come to rest would need people who run them
and downloads that succeed, so its property (`SyncMatches`) is about what one sync has done
when it returns.

## 4. Findings

1. *A clean-up can run for ever* (`env_loop`). When `uninstallPackage` fails for an
   orphan, because pip or a sync has removed it, `remove_impl.go:80` continues without `graph.Remove`; the next round of the
   loop "recursive until no new orphans" finds it again.
2. *A restore is not exact* (`restore_exact`). `docs/concepts/environment-snapshots.md:94`
   promises the exact captured state. `removePackageFromSitePackages` turns every `-` into `_`
   before it looks for the `-` in front of the version, so that the files of a package go and
   its dist-info directory stays: later scans list a package that cannot be imported.
3. *A satisfiable project may not resolve* (`resolve_conflict`).
   `docs/concepts/dependency-resolution.md:20` describes backtracking; `Resolve` keeps the first
   choice and ends with a conflict.

The docs exclude the following too, and it happens. The properties or the constants of the
runs except each by name; the first five appear as soon as the exception is dropped.

* *A clean-up may take pip's package.* `ForeignKept` is checked where one person works
  (`env_person`); among the properties of `env_open.cfg` it fails.
  `docs/concepts/dependency-graph.md:117` says of other managers' packages "never touched". A
  sync or pip takes an orphan away, its node stays in the graph, and its turn takes whatever
  begins with its name: `uninstallPackage` asks for the INSTALLER only if `FindByName` finds
  the very name (`remove_impl.go:446`). In the same way `fpm remove foo` takes `foo_bar`, and sync,
  stash and switch, when pip has removed a package since their scan, take another one
  (`StaleUninstallTakesForeign`; `TakesOwn` excepts commands that pip came into).
* *Requested packages are not protected from a second process.* With one in `Editors`
  (`env_person.cfg`, `SPECIFICATION Spec`), `MarkProtects` fails.
  `docs/concepts/dependency-graph.md:40` calls requested packages "protected from
  autoremove"; `runAutoremove` loads the graph without the environment lock
  (`remove_impl.go:58`) and reads it once, and what an install or a mark saves after that it
  does not know.
* *gc takes what an environment references.* `docs/concepts/caching-strategy.md:99` calls it
  safe. With `Global = {e2}` and the permutations `Interchangeable` (`cas.cfg`), `RefsBacked`
  fails: `install` records a global environment as `global:` and the interpreter
  (`install_impl.go:101`), and `isUnreferenced` (`reference.go:142`) asks whether a path of that
  name exists. Without the exception of `torn` it fails as well: `writeCASRef` truncates the file
  before it writes it (`reference.go:231`); after a death in between, `ListUnused` takes the
  unreadable file for no reference (`reference.go:112`) and gc removes the entry that other
  environments had listed.
* *Truncated trees are linked.* With `Careful = FALSE` (`cas.cfg`), `LinkedWhole` fails.
  `README.md:295` promises file locks and atomic operations for several users; `prune`, `clean`
  and `gc` take no lock and remove trees file by file (`cache.go:154`), and an install links what
  is left.
* *Packages are put aside unlisted.* `stash` and `branch switch` drop the error of saving their
  list and uninstall all the same (`stash.go:142`, `branch.go:178`). `PutAsideListed` excepts
  commands whose list could not be written (`whole`).
* *A sync does not match the lock file exactly*, as `internal/cli/sync.go:10` and
  `docs/reference/cli.md:56` say. It compares names when it removes: an older version of fpm's
  stays beside a locked one. It does not mark what it links, so that a package it linked is not
  removed when it is no longer locked. And it may remove an unmarked directory of a name that is
  listed before fpm's and report fpm's as removed. `SyncMatches` says what is left: every
  locked version is there, and of what is not locked no code of fpm's.
* *An install breaks the next sync.* The lock file it writes lists only what it has just
  installed (`install_impl.go:383`), and a sync then removes fpm's earlier packages, declared or
  not.
* *Dependencies may be missing although the resolution succeeded.* A wheel whose METADATA cannot
  be had is installed without its dependencies (`resolver.go:251-268`), and `Consistent` speaks
  of the requirements that were read. A dependency with a marker on `python_version` and the
  like is judged in an environment whose variables are all empty (`resolver.go:258`):
  `python_version >= "3.8"` drops it.
* *A marker with its text first is misread.* `parse.go:219` announces "value op variable";
  `parse.go:232` turns the operands round and keeps the operator, so that `"3.8" <=
  python_version` is read as `python_version <= "3.8"` (`ValueFirstMisread`).
* *Versions with two suffixes are misordered.* `internal/pep440/README.md:29` claims PEP 440's
  order; `compare.go:17` puts 1.0.post2.dev1 before 1.0.post1. The pages of `resolver` offer no
  such version; the theorem `TwoSuffixesMisordered` says it for every release.

Other behaviours the models contain and no run asks about: without graph data the METADATA
fallback proposes whatever pyproject.toml does not reach
(`docs/concepts/dependency-graph.md:128` says that all packages then count as requested); the
second of two processes that store one wheel fails and its install goes without the package;
`stash pop` installs nothing; a snapshot's search for a version's text may find another
version's wheel; `fpm remove a.b` leaves the requirement in pyproject.toml; among equal versions
(1.0, 1.0.0) the choice is random; an error half-way through the removal of an entry
leaves the rest in the store.

## 5. What is proved

Every theorem holds for all values of the constants that satisfy the ASSUME of its
module (finite or not).

* **Graph** (`FpmEnvProofs`): `OrphansHaveNoDependents`, `OrphansStayOrphans` (so a
  list of orphans stays valid while it is worked off), `SyncMakesNoOrphans`,
  `CyclesKeepThemselves`, `ClosureIsLeast`, `KeepSetIsClosed`, `FallbackSparesDeclared`,
  `NoOrphansNoGarbage`. `Closure` is defined as an intersection of closed sets, not by
  recursion, which is what makes it provable. The last theorem is what the rounds of a
  clean-up rest on, since `Orphans` looks at direct dependents only. Among the nodes outside
  the closure take one that the fewest of them need, directly or not; one of these needs it
  directly, is needed by as many, and so by itself: a cycle. The least number is the only
  induction, and the library's `WFMin` gives it without an operator parameter.
* **Environment** (`FpmEnvProofs`): `TypeCorrect` and `InstallsExclude` (also: nothing dead
  holds the lock) hold under `OpenSpec`, with neighbours and faults. Seven more hold under `Spec` with
  `Disciplined`: at most one process, or installs only. The invariant is `SerialInv`:
  types, the lock (`LockInv`), at most one command at work (`OneActive`), what is on
  disk is in the copy of the graph that will be saved (`RecordInv`), and requested
  packages keep their flag in that copy while what is being removed is an orphan of it
  (`KeepInv`). `Tracked` alone is not inductive: in the middle of a command disk and
  file differ and only the copy in memory agrees. `DisciplineAutoremoveSafe` adds that
  every edge in the graph is one METADATA has (`DepsInv`), which needs
  `Unreadable = {}`: a METADATA the resolver cannot read leaves no edges, and what it
  needs is then taken for an orphan.
  `DisciplineLeavesNoGhosts` is the converse of `Tracked`: every node of the graph stands for a
  package on disk. It needs `Exact` besides: who removes a name that is not there takes another
  package, whose node stays. `GhostInv` says it for the copy in memory at each point of a command;
  a removal has uninstalled its arguments before it loads the graph, so they are the exception
  until then. Because there are no ghosts, the turn of an orphan takes that orphan and never a
  package whose name it begins (`DisciplineKeepsForeign`), so that what a clean-up takes is what it
  listed: `DisciplineProtectsRequested` and `DisciplineAutoremoveSafe` rest on it too. From it follows `DisciplinedCleanUpAdvances`: since what a clean-up finds is on
  disk, uninstalling it succeeds and takes it out of the graph, so no step is in vain and
  there are at most two for each package. This is the safety half of termination, without
  ENABLED; in `env_loop` pip makes a ghost and it fails.
  Two theorems speak of clean-ups under `OpenSpec` again, in every interleaving.
  `CleanUpLeavesNoGarbage` (for finitely many packages) has the invariant `PurgedInv`: a
  clean-up that is done and asked nobody has a graph without orphans, and the rest is
  `NoOrphansNoGarbage`. `FallbackSparesNeeded`, about the packages on a clean-up's list, needs `FallbackInv`: what is left
  on the list is a node of the graph in memory, or outside the closure of what is declared.
  Its hypothesis `NoInstallBeside` (no installer next to another command) is needed: TLC
  finds an install that declares a package after the list was made.
* **Graph file** (`GraphFileProofs`): `FileIsAtomic`, for any number of processes, any of
  which may lack permission. It rests on `FileInv`: the lock excludes
  (`FileLocked`), and the file is torn while someone is between truncation and write.
* **Store** (`CasProofs`): types without assumptions; with `Careful = TRUE`, `CarefulLinksWhole`
  and `CarefulBacksPaths`: what was recorded for an environment at a path is in the store and
  whole, also when global ones share the entry, unless a death has left the reference file
  truncated. With `Global = {}` besides, every environment is at a
  path, and `CarefulBacksRefs` follows. The invariant `CasInv` says
  that every entry not being removed is whole, that nothing in `tmp` is holed, that
  whoever is past the store has a whole entry, and that what was recorded is still in the file
  of a key that is not torn. Both assumptions are necessary (section 4).
* **Bisect** (`BisectProofs`): types; with `Restate = FALSE`, `BisectIsRight` and
  `BisectHalves`. The invariant says that the boundaries bracket the truth, that tested
  snapshots lie outside them, and that the snapshot asked for is the middle of the
  candidates. A person who names a boundary a second time can hide untested snapshots
  behind old answers, which is why `Restate` is excluded.
* **Projects and shelf** (`ShelfProofs`): `ShelfTypeCorrect`, `SortedRemovable`,
  `SortedTakesOwn`, `SortedPutAsideListed`, `SortedSyncMatches`, `LockfileSynced`,
  `PrefixFreeTakesOwn` (names of which none begins another need no order) and two that say what
  the others have to assume: `UnsortedTakesAnother` (wherever a longer name is
  listed first, uninstalling the shorter one takes the other's directory and its own code) and
  `StaleUninstallTakesForeign` (a listed name that is gone finds the first that begins with it).
  pip may come in anywhere, so `SortedTakesOwn`, `SortedPutAsideListed`, `SortedSyncMatches` and
  `LockfileSynced` speak of commands it left alone; `SortedRemovable` holds whatever it does. The
  invariant `ShelfInv` says
  that among the directories of one name fpm's come before other managers'
  (`FpmBeforePip`), which is why the first match is never pip's while one of fpm's is left;
  and, of a command that pip has left alone (`ListInv`), that for everything left on its list
  fpm has a directory of the same name, a different one for each (`Backed`); that everything of
  fpm's it may still reach is in the list it wrote first, if it could write it; and that a sync
  has linked what it has no longer to link (`SyncInv`). `LockfileSynced` has an invariant of its own, `SwappedInv`: what was swapped
  in is there until it is recorded.
* **Snapshots** (`SnapshotsProofs`): `SnapshotsTypeCorrect`, `RestoreCleansSaved`,
  `RestoreBringsBack`, `RestoreLeavesNoDifference`. `SafetyInv` carries the first: fpm's
  marks and lists are of names fpm installs (`FpmNamed`), what the scan saw of fpm's is there
  until `CleanAll` (`ScanThere`), and after `SaveScan` what of it is still fpm's is in some
  snapshot of the store (`ScanSaved`): another command of the same second overwrites the
  safety snapshot, but with a scan taken while the same packages are there.
  `RestoreInv` carries the others: in each phase of an undisturbed restore without errors,
  what is relinked, and nothing else, is fpm's and has its own version's files, and what
  other managers own is the scan's plus what was reinstalled.
* **Resolver** (`ResolverProofs`): `ResolverTypeCorrect`, `ResolvedConsistent`,
  `ResolvedReread`, `ResolvedMarkersRead`, `MarkersGroup`, `ComparesAsPep440`,
  `ComparesInOrder`, `TwoSuffixesMisordered`, `ResolvedNewest`, `ResolvedOrderFree`,
  `ResolutionGoesOn`, for any number of projects, indexes and pages and any length of a release. `Consistent` follows
  from `ResolveInv`: every requirement of what was chosen is met or still queued, pins are
  kept, and whatever is chosen or queued is needed from the project on; and from `PublishedInv`:
  what a chosen file requires is what the wheel's own METADATA says, unless that was lost.
  `ResolvedMarkersRead` is about every marker for the grouping and about `Straight` ones for the
  meaning; `ValueFirstMisread` says what happens to the others. `Newest` adds
  `PageInv`: unless something was lost, a cached page is the one of the first index that has
  the project, and the file being fetched is one of its best. It also needs that `Compare`
  is PEP 440's order on what is offered. `OrderFree` needs to know why two orders of one
  queue choose alike although each choice sees only the requirement that is at the head:
  `LayerInv` says that the queue is worked off breadth-first, so that there are depths of
  the names with which every name was chosen by a requirement of least depth, in the order
  of the layer. Two finished resolutions are then compared at the least depth at which they
  differ (`SolutionsAgree`): above it they chose alike, so the same requirements ask for
  every name of that depth, and each of the two results admits all of them and is a newest
  that meets one of them.
  `MarkersGroup` is about markers of any length. `Parse` is a recursive function over levels
  and positions; that it has the value its body describes is shown by taking the first position
  at which it would not, which is again the least number of a set (`WFMin`). The grammar PEP
  508 gives is the least relation closed under its rules, so that "what the grammar derives
  is read as that" is shown by putting "is read as that" for the relation: no induction over
  derivations is needed either. `ResolutionGoesOn` has a lexicographic measure: names without
  a version, the queue, the steps to the wheel, the attempts left; the first decreases when a
  wheel makes the queue grow, and a failed index begins the attempts anew one step nearer.
  `TwoSuffixesMisordered` shows that `PlainOffers` cannot be dropped: in every release, with
  any numbers, `Compare` contradicts PEP 440 on a post-release and a development release of a
  later one, and calls two post-releases of a pre-release equal to the pre-release but not to
  each other, so that the sort is not given the order it requires.

**Hypotheses of these theorems.**

| Hypothesis | Where | Why, and where it fails |
|---|---|---|
| `SortedListing` | shelf, snapshots | the directory of `flask` is listed before that of `flask_cors`, as `os.ReadDir` sorts and `-` is less than `_`; it fails for directories that keep capital letters (`Flask_Cors-4.0.dist-info` comes before `flask-3.0.dist-info`), where fpm does take the wrong one (`UnsortedTakesAnother`); it holds for any listing of names none of which begins another |
| `NamesApart` | `RestoreCleansSaved` | pip and fpm install different packages; what pip removes of fpm's while a restore waits for the lock is gone, and a second snapshot of that second does not have it |
| `ExactWheels` | `RestoreBringsBack`, `RestoreLeavesNoDifference` | the search for a version's text finds that version; it looks for the text anywhere in a file name, so `1.0` may find `11.0` |
| `NoInstallBeside` | `FallbackSparesNeeded` | see above |
| `Disciplined` | the seven theorems under `Spec` | see sections 4 and 6 |
| `Exact` | `DisciplineLeavesNoGhosts`, `DisciplinedCleanUpAdvances`, `DisciplineProtectsRequested`, `DisciplineAutoremoveSafe`, `DisciplineKeepsForeign` | people remove only what is installed; a name that is not there may take a package whose name begins with it and leave its node in the graph |
| `Careful = TRUE` | `CarefulLinksWhole`, `CarefulBacksPaths`, `CarefulBacksRefs` | see sections 2 and 4 |
| `Global = {}` | `CarefulBacksRefs` | see section 4 |
| `IsFiniteSet(Pkg)` | `CleanUpLeavesNoGarbage` | in an infinite graph everybody may be needed by another without a cycle |
| `IsFiniteSet(Name)` | `ResolutionGoesOn` | with infinitely many projects the resolver may find a new one for ever |
| `PlainOffers` | `ResolvedNewest`, `ResolvedOrderFree` | versions have one suffix at most and no local part; on others `Compare` is not PEP 440's order (`TwoSuffixesMisordered`) |
| `DistinctOffers` | `ResolvedOrderFree` | no page offers two versions that compare as equal (1.0 and 1.0.0), between which the code chooses at random |

`ResolverAssumption` types the worlds and adds that the placeholders are not themselves
pages or files. The instances TLC checks satisfy these hypotheses in every run that
checks the property concerned.

**Only model-checked.** `PurgeTerminates`, `SaveReturns` and `Terminates`:
liveness under fairness, and with it ENABLED, is out of TLAPS's reach. For two of them the
measure that makes them true is an action property and a theorem (`CleanUpAdvances`,
`ResolutionAdvances`); that the steps are also taken is what TLC adds. `AtomicSpec` is proved;
every other invariant and action property of the passing runs is a theorem.

## 6. What is not modelled

See the components in `PROJECT.json`. Not modelled for good: text processing (regular
expressions, tokenisers, printers, shell scripts), searches of the file system that change
nothing, outside services and programs (index servers, git, pip, audit service, build back
ends), and code without a caller (`RemoveReference`, `RemoveEnvironment`, `CaptureWithCAS`,
`AtomicReplace`, `StrategyLowest`, `installer.Install` and `Uninstall`). Tool environments keep
directories of their own, made by pip. `repair` checks directories, links and permissions and
asks before each fix; `config set` rewrites the user's settings. pyproject.toml is written back
from the fields fpm knows and truncated first: other tables of it are not state here.

remove, autoremove and mark do not lock the environment. Overlapping, any of them can undo
another's graph (section 4), so no property about tracking is claimed for overlapping
commands; this is a limit of the code, stated here as the discipline the proofs assume.

`FpmEnv` and `Project` describe the same commands on purpose: the first their overlap and the
graph's edges, with one version a package, the second versions, names and the project's
files, one command at a time. Their product is out of TLC's reach.

## 7. What is left

Every invariant and action property of the passing runs is a theorem. What could still be
asked:

1. A measure for `SaveReturns`, the polls of a lock, as `CleanUpAdvances` is one for
   `PurgeTerminates`.
2. `Tracked` for an install beside a removal of packages it has nothing to do with.
3. `CarefulLinksWhole` from less than `Careful`: which of the collisions of gc and an install
   are harmless.
4. `VersionString` and `Parse440` on versions with all their parts: what is proved is that
   the versions chosen read back.
