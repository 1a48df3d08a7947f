# scarno in TLA+

scarno reads a project and reports, for each of its dependencies, whether it is
SAFE to remove, IN_USE, UNCERTAIN or UNDECLARED. A wrong SAFE breaks somebody's
build. This directory holds TLA+ models of the parts of the program where such
a verdict is decided, or where threads, processes and networks meet, the TLC
configurations that check them, and TLAPS proofs of every safety invariant and
action property that these configurations check. The models
reach from the arguments of the command line to the exit code, and from the text
of a dependency file to the verdict on each of its entries.

Paths below are relative to the repository; the package is `src/scarno/`.

## 1. Inventory

| Component | State it keeps | Operations | Talks to | What is hard |
|---|---|---|---|---|
| `cli.py`, pipeline | the merged `AnalysisResult` | discover, analyse per language, merge, filter, propagate, report, exit code | every analyser, the classifier, findings engine, reporters | order of the steps; same names in several ecosystems; Python set order |
| `core/classifier.py` | per-version nodes, statuses | classify, pin safety, cap, roll-up | Java and Python analysers | order in which rules are applied; cap; two classifications that must agree |
| `indexing/fetcher.py` | fetch counter, disclosure flag, time budget; files in `~/.cache/scarno` | fetch, cross-check, verify, write, evict | index servers (through `http_client`), the ABI differ's threads, other scarno processes | threads, lost answers, retries, crashes between write and rename, eviction races |
| `analysers/java/abi_diff.py` | slot counter, provider index | build index, resolve two JARs, compare, emit findings | fetcher, local repository, `javap` | thread pool with a shared cap; partial failure; "moved" versus "removed" |
| `analysers/java/maven.py` | worklist, visited, edges, discovered transitives | read modules and parents, walk POMs, detect pins | local repository, `mvn`, fetcher | cycles; versions that are absent or broken; node cap; detection before source analysis |
| `analysers/java/gradle*.py`, `source_analyser.py`, `ast_extractor.py` | parse results | parse scripts and sources | classifier | text processing |
| `*/dep_file_parser.py` of Python, npm, Go and C#, `container_ci_parser.py` | entries, lock graph, edges, notes, findings | read each file in a fixed order, follow includes, groups and references, merge by rank | the source analysers | cycles of includes; files that disagree; caps met in the middle of a file; a later file that rewrites an earlier one |
| `*/source_analyser.py` of Python, npm, Go and C# | what static, dynamic and gitignored files name; statuses; UNDECLARED | scan, classify, upgrade tools, downgrade, resolve transitives, report | dependency files, pipeline | a chain of passes that look at each other's results; two spellings of one name |
| `html_scanner.py`, `css/` | what templates load | scan, merge by name | pipeline | order of merge, filter and sweep |
| `indexing/resolver.py`, `endpoint.py` | ordered endpoints | merge command line, user configuration, environment | validator, fetcher | a rejected entry lets a weaker source own the ecosystem |
| `indexing/http_client.py`, `validator.py` | one connection | request, follow at most two redirects | network | every hop is validated, resolved and pinned anew |
| `findings/` | findings, suppressions | scan files, suppress | pipeline, exit code | suppressed findings and the exit code |
| `reporters/` | none | format a finished result | pipeline | grouping; determinism |
| `core/discovery.py`, `detector.py`, `test_scope.py`, `registry.py` | tables, file lists | walk the tree, choose analysers | pipeline | ignore rules, links |
| `security.py`, `models.py`, `name_counts.py` | none | pure checks, records | all | none that needs a state machine |

What makes each of them correct:

* *pipeline*: nothing that an IN_USE dependency needs is reported SAFE, unless an
  IN_USE one of another ecosystem bears its name; nothing an analyser or a template
  found is lost on the way, unless a namesake hides a template's library; the exit
  code fits the report; every run ends.
* *dependency files*: what a manifest declares is judged exactly once, as a direct
  dependency, under its strongest source; cycles are noticed and nothing else is
  called one.
* *source analysers*: what a source that counts names is IN_USE, and what only a
  gitignored one names is never SAFE; an orphan is one at any depth; each import
  is claimed or reported.
* *indexes*: an ecosystem has one owner, never the environment; a stronger source
  passes on only if it offers nothing valid, and with a warning if it mentions the
  ecosystem; every connection was vetted at its own hop.
* *classifier*: a version is removable only if nobody who is used requires it,
  it is not the resolved one, and no pin holds it; a cap never drops the resolved
  version.
* *fetcher*: nobody is asked before the disclosure is written, nor after
  an index has refused or served the artefact; the run's cap holds for all threads
  together; what is   stored was not contradicted; every call returns.
* *cache*: a reader sees a whole artefact or none, whatever crashes, unless two
  workers wrote it at once; the size cap holds when nobody is working, but for files
  that cannot be unlinked.
* *ABI differ*: the cap is exact; the findings do not depend on the schedule; a
  class reported REMOVED, and not as moved, is in no resolved JAR of another
  coordinate, nor in that of its own unless the comparison did not read it there; a
  finding from a comparison with a remote JAR says so.
* *Maven resolver*: the walk ends; the edges below a coordinate are those of one
  POM; everything an edge names is reported; a POM all edges agree on is read.

The concurrency of the program is small and real. The ABI differ runs a thread
pool over one shared fetcher; several scarno processes of a user share one cache
directory without a lock. Everything else is single-threaded, and what is
nondeterministic there is the iteration order of Python sets (the hash seed), the
file system and the network.

## 2. The modules

```
 LiftInUse ── LiftInUseProofs             cli.py: IN_USE propagation
 VersionedClassifier ── JavaReport ── VersionedClassifierProofs
                                          core/classifier.py and its use for Java
 Fetcher ── FetcherProofs                 indexing/fetcher.py: the protocol of a fetch
 AtomicCache ◁─ CacheStore                indexing/fetcher.py: the files of the cache
                └─ CacheStoreProofs
 AbiDiffer     ─┬─ AbiDifferProofs        abi_diff.py: the pool, caps and findings
 SignatureDiff ─┘                         abi_diff.py: comparison of two member sets
 MavenWalk ── MavenWalkProofs             maven.py: POM walk and pin detection

 DependencyFiles ─┬─ PythonManifests ─┐
                  ├─ NpmManifests    ─┼─┬─ Manifests ──┐
                  ├─ GoManifests     ─┤ └─ FileShapes ─┼─ ProjectAnalysis
                  └─ NugetManifests  ─┘ SourceVerdicts ┘    │
                                                     AnalysisInvariant
                                                            │
                                                  ProjectAnalysisProofs
                                          from dependency files to verdicts
 Selection ─┬─ RunPipeline ─┬─ ScarnoRun ── ScarnoRunProofs
            └─ RemoteIndex ─┘             the whole run, with its connections
```

◁─ is refinement; the other lines are EXTENDS. Each `MC*.tla` gives the constants
of the module it is named after small values; each `.cfg` is one run. Definitions
whose comment begins with "Mutant of" are deliberately wrong variants of the
definition that follows them: with the variant in its place the property that the
mutant is listed with in PROJECT.json must fail.

The modules meet at records. What ProjectAnalysis ends with (dependencies, their
statuses, a graph) is what RunPipeline takes from an analyser; the sweep that
RunPipeline and JavaReport make in one step is what LiftInUse does in many and
LiftInUseProofs shows to be reachability; a GET whose outcome Fetcher takes as an
answer is a path through RemoteIndex; and the two file steps of Fetcher are the
operations of CacheStore.

### LiftInUse

`_propagate_in_use_through_graph`. `worklist`, `visited` and `liftedBy` are the
code's variables; `decl` is the merged list, `status` and `redundantParent` what
is reported. `Seed`, `SkipVisited`, `Visit`, `ExpandChild` and `Rebuild` are the
steps of the loops, one `\E` per iteration over a Python set, since its order is
that of the hash seed. A dependency and its name are kept apart, because two
ecosystems may share a name and the code's tables are keyed by name.

### VersionedClassifier, JavaReport

`classify_versioned`. Versions are numbers in the order of their texts. What a
version range accepts is the constant `Covers`. One step of `PropagateRoot` is a
root edge with the whole walk below it: "strongest status wins" is commutative,
so the inner order does not show. `Safety` is `apply_pin_override_safety`, with
its precedence. `JavaReport` adds how `JavaAnalyser.analyse` and the pipeline
combine the result with the source analyser's verdicts; the sweep appears there
in one step, as what LiftInUseProofs proves of it.

### Fetcher, CacheStore, AtomicCache

`Fetcher` has one `pc` per thread and a step for each stage of
`RemoteArtifactFetcher.fetch`: cache lookup, disclosure, cap (under the lock),
time budget, requests in order of priority, checksum with its three algorithms,
the cross-check with its one retry, store, eviction. A request ends with
`FallThrough`, `Refused` or bytes. `FallThrough` is what the fetcher makes of 502 to
504 and of every error of the client: also of an answer that the client discards,
for a body over its cap, too many redirects, or a redirect to a URL it rejects. The
fetcher's own cap on bodies is the client's (64 MiB) and never decides.
The ghost `dialog` records what a fetch asked and heard.

`CacheStore` refines the two steps `Store` and `EnforceCacheCap` to file
operations: names and inodes are apart, because a writer that has a `.part` file
open keeps its inode when the name is renamed or removed. An eviction is a step for
each name that the walk comes to (`Look`, `UnlinkStale`) and one for each that it
takes afterwards (`Unlink`), between which others write and evict; a name that comes
or goes during the walk may be found or not. Which file is taken first is left open:
the code goes by access time, which a noatime mount does not keep. An unlink may fail,
and so may the write and the rename. A process may crash wherever it is writing or
evicting. `AtomicCache` is what the cache promises: a map in which artefacts appear
whole and disappear. Two histories say where the code does not keep it: `contended`,
the artefacts that two workers wrote at once, and `refused`, the names whose last
unlink failed.

### AbiDiffer, SignatureDiff

`AbiDiffer` is `diff_all`: the index of what resolved JARs provide, the work
queue, slots claimed two at a time, and findings. `Faults` says whether indexes
and `javap` may fail. `IndexOf` forgets where the JARs of the index came from, as
the code does. `SignatureDiff` is the comparison of members, by name and
kind, then descriptor, then shape.

### MavenWalk

`MavenPomResolver._build_transitive_graph`, what is synthesised from it, and
`_detect_pin_overrides`. A POM is a set of children whose version may be present,
absent, or a placeholder that nothing defines. The walk goes by the text of a
version; an edge and the report have what `sanitise_declared_version` makes of it, the
constant `Sanitised`: any function, so two texts may become one, or a text nothing.
What is synthesised never touches a coordinate that is direct already, which keeps
the version of the project, also when that is none (`ReportedVersion`).

### DependencyFiles, the four manifest modules, Manifests

A parser is an operator from the contents of a file to entries, notes and, for
npm, edges. Contents are records: the tables of a file as sequences (their order
decides which entry wins), an item as a record whose `kind` says what the parser
takes it for. Characters, version specifiers and quoting are gone; includes,
groups, tox references, override mechanisms, caps and the order of everything are
kept. Formats that refer to themselves (requirement files, groups, tox.ini) are
read level by level: what a file gives with `left` levels to go, and with the files
`above` on the way to it, is a function of what the included files give with one
level less, as in the code, which counts the levels and remembers the way. The
operator of one level (`RequirementsFile`, `GroupTable`, `ToxText`) is the body of
the code's function; `deeper` stands for its recursive call.

`FileShapes` says what is taken for granted of the contents of a file that can be
parsed: tables are lists, names have the form of their ecosystem, the parts of a
format are there. Its `IsProject` is what `ManifestAssumption` demands of every
project, and the run `source` evaluates it.

`Manifests` is the coordinators (`parse_all_*`): `todo` holds the files in the
code's order, one action reads each, and `Deduplicate` (and its siblings) makes
one entry of every name, by rank. Later files see what earlier ones left: a
`poetry.lock` takes from `pyproject.toml` what is direct, `go.sum` and
`packages.lock.json` rewrite versions.

### SourceVerdicts, ProjectAnalysis

`SourceVerdicts` is `classify_all` and its passes in each analyser. A source file
is a set of import sites with the class in which discovery handed it out
(tracked, gitignored, test, ...); names are paths of segments. One action reads a
file, one judges a dependency, and each later pass is an action: tools that
commands name (`UpgradeCliTools`), evidence in gitignored files (`Downgrade...`),
transitives of a lock graph (`ResolveTransitives`, `classify_canonical`), and
UNDECLARED. Where the code takes the first match in a Python set, the model
takes any.

`ProjectAnalysis` is `analyse()`: the dependency files, `HandOver` of what they
declared, the sources. The properties are stated over the files, so nothing that
the two halves lose between them goes unseen. `transitive_safe` shows one such
loss: npm's edges are not handed over. `AnalysisInvariant` holds the inductive
invariants and the vocabulary of `ProjectAnalysisProofs`; it models nothing.

### RunPipeline, RemoteIndex, ScarnoRun

`RunPipeline` is `cli.py` from the arguments to the exit code, one action per
stage: argument checks, path, detection, one analyser after the other, templates,
audit lines, language filter, sweep, rendering, output, exit code. An exception
of an analyser, a refused argument and a report that cannot be written are steps
of their own. `in.entry` tells `main` from `run_analysis`, which the tests use
and which skips several stages.

`RemoteIndex` is where indexes come from (command line, `config.toml` at one of
two places, environment), and the redirect loop of the HTTPS client: each hop
validates the URL, resolves the host to any of its lists of addresses, picks the
first address that is acceptable, and connects to it. A URL is its scheme,
credentials, host and port; an address is the name of its class.

`ScarnoRun` lets the Java analyser's turn of `RunPipeline` wait until
`RemoteIndex` is done. Exceptions that the client does not convert end the run.

## 3. The runs

| Run | Shows | Bounds, and why they are enough |
|---|---|---|
| `lift` | the sweep ends, lifts exactly what IN_USE reaches, leaves no SAFE child of an IN_USE parent (both but for names that an IN_USE dependency shares, observation 13), and names a true parent | three names, two ecosystems, all graphs but for one self-loop: paths of length two, cycles, diamonds, and a shared name; TLAPS covers every size |
| `java_report` | removable means unused, unresolved and unpinned; the cap keeps the resolved version; what lacks a pin detector fails closed; the two classifications agree on coordinates within the cap | two coordinates, two versions and none, three edges: three nodes of a coordinate overrun the cap of two |
| `java_report_pinned` | **violated**: a pinned dependency is reported SAFE | as above |
| `fetcher` | no probe after a refusal or a body, the cap, disclosure first, no contradicted bytes, each fetch ends | two threads, two calls each, two allowed fetches, up to three indexes: the cap bites, and "index 3 only after 1 and 2" occurs; TLAPS covers every size |
| `cache` | the files implement `AtomicCache` for artefacts that no two workers wrote at once, through crashes, failed writes and failed unlinks; the cap holds at rest | two workers with two calls each on the same two artefacts, room for one: two walks, two writes, or a walk and a write overlap in every order, and a pass must evict; TLAPS covers every size |
| `cache_partial` | **violated**: with two writers of one artefact a half-written file becomes visible | as above |
| `abi_differ` | the cap is exact, comparisons are independent, REMOVED and moved are right, and a comparison with a remote JAR is tagged; of two signature sets every removal, retyping and addition is reported, and nothing else | two threads, three items, room for two; two classes and a cut that leaves one of a JAR that has both; JARs local, remote (and failing) or absent. `signature_diff`: two members, two descriptors, two shapes, every pair of sets. It is a function that `Compare` calls once per item, so the run checks it beside the pool and not in each of its states |
| `abi_home` | **violated**: a finding that names a remote JAR as the new home of a class is tagged local | as above |
| `maven_walk` | edges of one POM each, everything is reported, an agreed POM is read, the walk ends | four coordinates, cap of three, cycles, absent and broken versions, two texts that are sanitised to one, and one that is sanitised to nothing |
| `source` | what is used is not SAFE, orphans are unreachable, every import is accounted for; what is declared is judged once and under its strongest source; cycles are noted | families of small projects of each ecosystem, which vary two source files under fixed manifests or the manifests under one source; three levels of includes, three edges, two overrides and two levels of nesting, each a cap of the code made small, so that every cap is met |
| `transitive_safe` | **violated**: what a used npm package requires is SAFE | as above |
| `run` | the exit code fits the report, nothing is lost and nothing reached is SAFE (observations 13 and 19 are what these two except), one owner per ecosystem and a warning where a stronger source passes on (observation 22), every connection is vetted, the run ends | families of runs that each vary one part (flags, arguments, output, languages, findings, dependencies with templates and graphs), and one run with all settings of the indexes: three hosts, of which one has private addresses, names that resolve differently each time, relative and absolute redirects, two redirects at most as in the code |

Every bound is a constant of a `.cfg` or a set of an MC module. `Calls` is the only
one that the code does not have: it stops the workers of `Fetcher` and `CacheStore`
after so many calls. The families of `source` and `run` are not all projects and
all runs; they are chosen so that each guard of the modules is met both ways, and
the mutants listed in PROJECT.json (one for every property of every passing run)
show that each family can tell right from wrong.

**Fairness.** `FairSpec` of LiftInUse and MavenWalk and `SSpec` of ScarnoRun are
weak fairness of the whole step relation of one thread: the process keeps running.
That is justified in `run` because the thread takes no lock and every connection
has a timeout, so no step waits for another party for ever; what servers answer is
free, and a server that redirects for ever is stopped by the count of redirects.
Fetcher states progress without fairness, as an action property: each step of a
worker decreases a bounded measure (`FetchAdvances`), so a thread that keeps
running returns.

**Symmetry** is used in `fetcher`, over threads, artefacts and bodies, and in `cache`
and `cache_partial`, over workers. The properties of these runs are invariants, action
properties and the steps of `AtomicCache`, none is a liveness property, and none names
a thread.

## 4. What is proved

All theorems hold for every value of the constants that satisfies the named
assumptions of the modules, which say what the code's configuration guarantees
(numbers are naturals, sets of threads, artefacts and versions are finite, marks
such as `Absent` are no data) and which the runs evaluate. Nothing else is
assumed, except where a theorem states a hypothesis.

**LiftInUseProofs**, for every set of names, ecosystems, dependencies and every
graph:

* `SweepInvariant`: `SweepInv` is inductive. Its parts: *types*; *RootsJustified*,
  each recorded root is IN_USE and reaches the name; *NothingForgotten*, what is
  accounted for (IN_USE itself, or with a root) is visited or on the worklist;
  *ChildrenAccounted*, each child of a visited name is accounted for or still to
  be looked at; *PhaseInv*, what is reported when. The postconditions are not
  inductive by themselves: nothing in them relates the worklist to the graph.
* `NothingNeededIsLeftSafe`: at the end the worklist is empty, so accounted for
  means visited, and the children of a visited name are accounted for. Accounted for
  means lifted only for a name that no IN_USE dependency bears; the statement leaves
  the others out, as the code may (observation 13).
* `VerdictsDoNotDependOnTheOrder`: the accounted names are closed under the graph
  and contain the IN_USE ones, so they contain all that these reach;
  with RootsJustified, exactly that. The shared names are left out again: for them the
  order may show.
* `LiftsAreJustified`, `RedundancyIsJustified`: from RootsJustified. That the
  parent differs from the dependency needs the clause on seeds still waiting.

Reachability is stated as "in every graph-closed set", which is first-order and
needs no induction over paths.

**VersionedClassifierProofs**: `IInv` says that a node has a status exactly when
the walk of a root edge that is done has reached it, and that the status is at
least as strong as each of these roots gives (*StatusInv*), what each phase has
filled in (*PhaseInv*), and that a verdict follows from the status as it then was.
`RemovableMeansUnused`, `PinsAreKept` and `UnregisteredFailsClosed` follow.
`TheCapKeepsTheResolved` is about the sort before the slice: the kept nodes map
one to one to places below the cap, by the number of nodes before them, so they
are at most so many; and of the resolved nodes the first in the order has none but
resolved ones before it, so it is kept.

**FetcherProofs**, for any number of threads, calls and indexes: *Shape* ties the
stage of each thread to what it holds and to its dialogue so far; *CapInv* counts
the threads that have consumed a fetch and not gone on line yet; *DisclosedInv*
says that a thread is past the disclosure only when the flag is set, and the flag
only after a disclosure. From these
`NetworkCapHolds`, `DisclosureComesFirst`, `NobodyIsProbedAfterAVerdict` and
`NothingContradictedIsStored`. `EveryFetchAdvances` is the measure of the run,
for every number of indexes: the stage goes down, or the stage stays and the
requests it may still make become fewer.

**CacheStoreProofs**, for any number of workers, artefacts and calls, and without a
hypothesis on who fetches what. `FilesAreAtomic` is the refinement of `AtomicCache`, in
which an artefact that two workers wrote at once counts as absent from then on:
`cache_partial` shows that nothing is promised of it, the theorem that the others keep
their promise whatever happens to it. *HandleInv*: the inode that a worker has open has
no name but the artefact's or its `.part`, and nobody has it open for another artefact.
*WriterInv*: unless the artefact is contended, its writer is alone, has nothing but the
`.part` file open, and renames a whole one (*Alone*). *LinkInv*: a name has an inode of
its own, and under the name of an artefact that is not contended it is whole. An inode
that nothing links or holds open is used again; that there always is one is counted
(*SomeInodeIsLeft*: as many as names and handles). A step of the files is then a `Put`
(the rename), an `Evict` (unlinks, and an artefact that becomes contended), or a stutter
(all else, crashes included). `NoPartialWrite`: who finds a partial write finds it in a
contended artefact.

`CacheStaysUnderCap`: that the number of files is under the cap is not inductive, nor is
it true in the middle of a pass. *CapInv* says who will see to it. Nobody needs to,
because the artefacts that no unlink failed on (*Kept*) are within the cap, or a worker
has died (*Settled*); or the walk of some worker has listed each of them, is about to
unlink it, or must still come to it (*Walks*); or a worker that evicts has listed each
of them, and no more than the cap and what it still takes (*Evicts*). Such a walk or
pass is not disturbed by what other workers unlink, and a new artefact comes with a walk
of its own.

**MavenWalkProofs**: what waits was named by an edge or by the root; while a POM is
expanded its edges are a part of that POM's, afterwards all of them (*ExpandInv*);
a label that was visited has the edges of one POM of a version that some edge
declares, or none because no such POM could be read (*ReadInv*);
everything an edge names is in each closed set that contains what the root names
(*EdgesReached*); and what is discovered has the version of an edge
(*VersionsDeclared*). `EdgesAreOfOnePom`, `EdgesAreReported` and `AgreedPomsAreRead`
follow.

**AbiDifferProofs**, for any number of threads: a thread that compares has both
JARs of its item in place and their provenance right (*ComparingInv*), and the
findings so far are those that comparing each finished item alone gives
(*FindingsInv*). `RemoteBytesAreTagged`,
`MovedMeansProvided`, `ThreadsDoNotDisturbEachOther`.

`TheCapIsExact`: an item is in the queue, with one thread, or has ended, and their
numbers add up to the number of items (*ItemsInv*); the slots are twice the items that
were let through, ended or not, and an item was turned away only when fewer than two
slots were left (*SlotsInv*). The last fact is not visible in a final state, and
without it nothing says that no item was turned away too early.

`RemovalsAreJudgedAgainstAll`, for all JARs, cuts and faults. *IndexIsComplete*: each
class of a resolved JAR of the local repository is in the index, so a class that is
reported as removed and not as moved is in no such JAR, or the index has it under the
compared coordinate itself. The code asks no further then, and the class may be one
that the comparison did not read in that JAR: past the cut, in a batch that javap did
not answer, or in a second resolved version. `RemovedIsGone` names this exception;
observations 9 and 10 are what it looks like to a user.

The same module proves the comparison of two classes, for all sets of signatures:
`NoRemovalIsLost`, `NothingIsMisreported`, `DifferencesAreReported`.

**ProjectAnalysisProofs**, for every project, has two parts.

*The verdicts on a given scenario* (`Spec`: all files, sites and dependencies,
every alias table, metadata and lock graph). `IInv` is the conjunction of what the
scan has read so far (*ReadInv*: the evidence of each file read is among the facts,
or among the weak ones; *SourceInv*: each fact comes from such a file), of what each
pass has established of the statuses (*InUseInv* and *HintInv*: of the dependencies
judged so far, one that was named is IN_USE, and one that a gitignored file named is not
SAFE), and of the entries. The postconditions are not inductive by themselves: they do
not say which dependencies are judged, nor that the facts are complete by then.

* `NoUseIsLost`: a site that a parser knows leaves evidence in its ecosystem's form;
  evidence is never dropped, and no later pass weakens a status.
* `OrphansAreOrphans`: `classify_canonical` walks the lock graph with a work list. The
  closure is a recursive function over the subsets of the names; that a function with
  these equations exists, and that what it returns is closed, is shown with the least
  closed set as witness, and with a set that no other one encloses among those for
  which it would fail, which needs no induction scheme.
* `ImportsAreAccountedFor`: an import that no dependency in use provides passes every
  filter between the facts and the UNDECLARED entries. Of the table of aliases it is
  only assumed that it relates names (`AliasAssumption`).

These three take for granted that the scenario is one (`IsScenario`).

*The analysis that makes the scenario* (`ASpec`: from the contents of all dependency
files of the four ecosystems to the last verdict). Here nothing is assumed but that a
file that can be parsed has the shape of its format (`ManifestAssumption`), that the
normal form of a name is a name (`NormalAssumption`), and the two assumptions on
scenarios, which now only concern the source files. The invariant `AInv` has one
disjunct for each stage:

* *Collects*, while files are read: what each step that is done had to add is in
  the list of raw entries, with every note of a cycle owed to some step (*Gathered*,
  *Fulfilled*). Steps that rewrite versions (`go.sum`, `packages.lock.json`) keep the
  names.
* *AllRead*, after the merge: the dependencies are what the entries are merged into
  (*Settled*): one for each name that is not left out, with a source that no other
  entry of the name is stronger than, the version of the strongest when they agree,
  and transitive only if all its entries are (*IsOwned*).
* *HandedOver*: both, and `IInv` of the scenario that was made of them.

`AInvariant` is that theorem. That the analysers get a scenario is thus proved, not
assumed, and the three theorems on verdicts hold of the whole analysis
(`NoUseIsLostInAnalysis`, `OrphansAreOrphansInAnalysis`,
`ImportsAreAccountedForInAnalysis`). The others are about the files:

* `StrongestOwns`: the merge is a fold, and after i entries the table is right for
  the first i (*Merged*). Folds and flattened sequences are recursive functions of the
  library; that each has the values of the recursion step by step is shown with a
  witness made from what holds below a least number for which it would fail
  (*IsFold*, *IsRun*), after which facts about a fold are proved by the step.
* `DeclarationsAreKept`: each manifest in turn, from an item in a file to a direct
  entry in the report. The hard ones are requirement files, where a name may be any
  number of includes away, up to the depth at which the parser stops and says so, and
  go.mod, where the block in which a line stands depends on the lines before it
  (*GoState*).
* `CyclesAreNotedInAnalysis`, in both directions, for requirement files, dependency
  groups and tox.ini. The three parsers are instances of one walk over a finite graph
  that remembers the way and has a bounded length (*IsWalk*). Where the walk tells of
  a cycle there is one below its start: two nodes of the way are the same. Where it
  does not, and the length suffices for all that can be reached (`Shallow`, which is
  about the code's limit of 10), no node below is on a cycle: with each edge
  there is one node less that is not on the way yet. What a parser tells is what its
  levels tell, which takes for each format that the notes of all its other items are
  not about cycles.

The proofs made the statements more precise in four places where they asked of the
parsers what the code does not do: the empty name is no npm dependency (the test of
names rejects it); a directive that stands on one line counts only outside a block of
go.mod; a requirements file that is not there includes nothing and starts nothing; a
group that is included and not defined is a group without includes.

**ScarnoRunProofs**, for all results of the analysers, templates, flags, settings,
name services and servers. It begins with what the models' sequence operators do:
`At` selects the elements at a set of positions in their order, by rank; a
concatenation of sequences is in the sequences of their elements; of a concatenation
in which one part alone has elements of K, selecting K gives that part (*BlockOfFlatten*,
*BlockIsSelected*). All of these are proved from the library's theorems on finite sets
and the least element of a set of numbers.

* `SafeIsUnreached`: *SweptInv*, once the sweep was made no SAFE dependency is below an
  IN_USE one, unless an IN_USE one bears its name: the sweep visits that name as a root
  and never lifts it. The witness is what was below the IN_USE ones before the sweep: what is
  lifted was in it, so all that a lifted dependency requires is in it, and what is still
  SAFE is not (*LiftSweeps*). *RunTypes* says what is there at which stage, and that
  every graph is finite.
* `RunLosesNothing`: *AccountInv*. What is merged and what the analysers still to run
  will return make up what the run found; merging, templates, the filter and the sweep each
  carry that over, the last up to IN_USE. A library is merged unless an analyser has a
  namesake, and a namesake passes the filter unless its ecosystem is unwanted: that is
  the exception of the statement.
* `ExitCodeFits`: *ExitInv* ties the exit code to the report and the findings at each
  way out; which findings there are comes from AccountInv.
* `OneSourceOwns`: *OwnerInv*, what each source has said by now, and *WarnedInv*, of
  which of them the operator was warned. A source above the owner has no acceptable
  entry, and was warned of if it mentions the ecosystem. After the merge the
  list has for each ecosystem one block, that of its owner; that the user's file and the
  command line are filtered before they are split by ecosystem makes no difference
  (*AtOfAt*). Assumed: an ecosystem is listed once and has a name (`EcoAssumption`: the
  three parsers of resolver.py drop an entry without one), and settings hold sequences.
* `EveryConnectionIsVetted`, for any number of redirects: *HopInv* records what the
  hop in progress has established: that the URL was validated, that its host was named,
  and that the pinned address is one the name resolved to at this hop and is acceptable
  for this very host.

`LiftAndClassifierAgree` (VersionedClassifierProofs) joins two components: for every
graph, a Java dependency that the sweep over names lifts because a directly required
IN_USE one reaches it keeps a version that the propagation over versions does not call
removable, unless the cap dropped some version. The last edge of the path that lifts it
names a version, the walk of the root edge has visited that version, so by `IInv` it has
a status that is not SAFE.

**Only model-checked**: liveness (`SweepEnds`, `WalkEnds`, `RunEnds`), because
fairness and ENABLED are outside the prover, and the four properties that runs
violate. All invariants and action properties of the other runs have a theorem.

## 5. Observations

The four violated runs are the findings of PROJECT.json: a pinned Java dependency
reported SAFE (`java_report_pinned`), a partial write made visible by a second
writer (`cache_partial`), npm transitives of used packages reported SAFE
(`transitive_safe`), and a finding tagged local although the new home that it names
was fetched from an index (`abi_home`). Further places where the code does not do what a text beside
it says, or what a reader may not expect, were met while modelling. They follow
from the modules but no run is spent on them.

1. `redundant_parent` may name a dependency of another ecosystem: `lifted_by` is
   keyed by name (cli.py:249; README.md:233).
2. With two roots that reach a dependency, `redundant_parent` is the one that the
   set order visits first, so it may differ from run to run (cli.py:227;
   README.md:302 "All formats are deterministic").
3. The roll-up sees only nodes the cap kept, so an IN_USE node past the cap does
   not count (classifier.py:578; docstring at 413).
4. What a pinned SAFE dependency requires is removable although the dependency
   is held IN_USE: the propagated status is taken before the pin rule
   (classifier.py:474; reason text at 520).
5. The disclosure flag is tested and set without a lock, so two threads may both
   write it (fetcher.py:507; "emitted ONCE" at 504).
6. On the cross-check path no checksum is requested, not even when the secondary
   gave nothing to compare (fetcher.py:843; docstring at 18).
7. A secondary that answers 404 degrades the cross-check as a lost connection
   does (fetcher.py:691; docstring at 648).
8. A file that another worker evicts between `exists()` and `stat()` makes
   `fetch` raise (fetcher.py:490; docstring at 20), and an eviction pass that
   listed the tree before the touch unlinks a file that was just hit (492).
9. A batch that `javap` cannot read in the resolved JAR alone is reported as
   removals (abi_diff.py:777; docstring at 769).
10. Both class lists are cut at the same length, not at the same class, so a class
    past the cut in the resolved JAR alone is reported as removed
    (abi_diff.py:692; message at 684).
11. A visit without a version marks the label visited, and the POM another edge
    names is then not read (maven.py:799; docstring at 756). `AgreedPomIsRead`
    has the case that does hold.
12. A synthesised transitive may be flagged as an exclusion override, and a
    dependency that the source imports as a dependencyManagement pin
    (maven.py:1692, 1719; comment at 1472).
13. When an IN_USE dependency of another ecosystem has the name of a SAFE one that
    an IN_USE dependency requires, the SAFE one is not lifted: the name is visited
    as a seed and never recorded as a child (cli.py:236; docstring at 192).
    `NoSafeChildOfInUse`, `VerdictsAreDetermined` and `ReportedSafeIsUnreached` except it.
14. At the cap of the differ the schedule decides which items are compared, and so
    what is found (abi_diff.py:624; docstring at 42). `ComparisonsAreIndependent`
    is about the items that were let through.
15. A direct dependency that nothing else requires is flagged as pinned by
    dependencyManagement when its version is managed (maven.py:1684; comment
    at 1476).

*Command line and pipeline*

16. `--language css` never selects the CSS analyser, and `--language npm` leaves it
    out, because the filter maps both to JavaScript. A `@import` of an npm package
    leaves the JavaScript entry SAFE (cli.py:301;
    docs/requirements/REQ-12.md:69).
17. `--language unknown` passes the check of the argument and ends as a KeyError
    with exit code 2. An unknown `--format` is refused only when the analysis is
    done; the README gives `text` as the default, the code `markdown`.
18. `--language pypi` drops what Python found UNDECLARED, whose ecosystem is
    "detected".
19. A library that a template loads is dropped when any ecosystem declares a
    dependency of its name, and when the filter then drops that one too it is in no
    report (cli.py:722, 780). `NothingIsLost` excepts it. An npm
    dependency that only HTML loads stays SAFE.
20. The suppression file is read for Python findings only.

*Indexes*

21. An index whose port is no number raises ValueError when it is asked, which no
    layer converts: the run ends with exit code 2.
22. A source whose only entry for an ecosystem is rejected does not own the
    ecosystem, and a weaker source then does (resolver.py:310 "first source that
    mentions an ecosystem owns its whole list"; docs/requirements/REQ-24.md:268).
    `OneOwner` asks for the warning that the operator gets.
23. A redirect to `//host/path` stays on the current host. The message for missing
    indexes suggests `SCARNO_INDEX_<ECO>`, which is dropped whenever fetching is on.

*Dependency files*

24. `--exclude-dev` is undone by `package-lock.json` (README.md:186,
    docs/requirements/REQ-17.md:440), and `--exclude-tests` by `poetry.lock` and
    `uv.lock` (REQ-17.md:98, 405); Go and C# ignore `--exclude-tests` (README.md:184,
    REQ-17.md:424).
25. `uv.lock` replaces the graph that `poetry.lock` gave. Of a uv workspace only the
    last member's dependencies are direct. The transitives of `Pipfile.lock`, hoisted
    packages of `package-lock.json` and those of a C# lock file count as direct. A
    Berry `yarn.lock` lists the project's own workspace as a dependency.
26. At its cap on edges `package-lock.json` is left in the middle, and the packages
    that follow are lost with the edges.
27. A stronger source without a version hides the version of a weaker one in npm; in
    Python a missing version is filled in from whichever weaker source came first, and
    a later source of equal rank does not replace it. The rank given to dependency
    groups is never used. Group prefixes match "devops" as a development group.
28. In Go the last version in `go.sum` wins over the selected or replaced one,
    `// indirect` is not read as transitive (REQ-13.md:24, 68), and an exclusion is
    compared with the replaced version.
29. npm overrides: the key "." is dropped, and a scoped resolution of yarn targets
    the wrong name. A pinned npm dependency may be SAFE.
30. A nested Dockerfile is labelled by its top directory, and so ranks as unknown.

*Sources*

31. An import under the second of two import names of a declared Python distribution
    is UNDECLARED; an alias whose canonical form differs from its spelling
    (`pkg_resources`) never matches (python/source_analyser.py:527;
    docs/requirements/REQ-3.md:313).
32. A Python transitive that only gitignored files name may stay SAFE, and so may an
    npm type stub whose runtime package is UNCERTAIN. `UsedIsNotSafe` is about direct
    dependencies.
33. `export ... from` is no use of a package (javascript/source_analyser.py:453;
    scarno-test-suite.md:2065). An ambient `declare module "*.svg"` is UNDECLARED.
34. Go reports UNDECLARED under the first three segments of an import path, also
    where the module's root is shorter. In JavaScript, Go and C# one table of names
    serves all files.
35. A command given to Docker as a JSON list is not recognised when its first word
    has a directory.
36. In a Razor view `@using static X` counts as a use of a namespace "static", and
    `@using A = X` as one of "A" (`csharp/source_analyser.py:81`); X gets no evidence.

*Fetcher*

37. An index that answers with a body over the cap, with too many redirects, or with
    a redirect to a URL that the client rejects, counts as unreachable, and the next
    index is asked for the coordinate (http_client.py:177, 387, 511; fetcher.py:796,
    874). The comment at fetcher.py:657 calls an over-cap answer authoritative, and
    docs/requirements/REQ-24.md:433 lets "only connection-level failures fall
    through". `NoProbeAfterVerdict` is about statuses and bodies.

## 6. What is not modelled

* *The findings engine* (`findings/`): regular-expression rules over file texts, one
  file at a time, without state between files. Its findings, suppressed or not, are
  inputs of RunPipeline, where they decide the exit code. The security rules on the
  syntax trees of each language are the same kind of thing.
* *The reporters*: pure functions of a finished result. What they are given is the
  variable `report`.
* *Texts*: tokens, quoting, version specifiers, URLs as strings, the class-file
  format and the output of `javap`. The modules take what the parser makes of them.
  `_maven_version.py` appears as the constant `Covers`, for every possible table.
* *Maven modules, parents and BOM imports, and the lookup of a POM file*: they end
  in the dependencies and POMs that MavenWalk takes as inputs. *Gradle*: a parser of
  scripts. *Java sources*: imports are matched with class names from JARs; JavaReport
  takes any verdicts.
* *The walk of the file tree* (`core/discovery.py`): ignore rules, links and depth.
  The models start from the class in which a file is handed out.
* *The TLS layer, credentials, sizes of responses*: their outcome is one of the
  answers of a server. Every artefact of the cache has size one.
* *The differ over the cache*: an artefact may be evicted between its lookup and its
  reading (abi_diff.py:524). CacheStore has the eviction and AbiDiffer the reading;
  their product is beyond the bounds at which either says anything.

## 7. What might follow

The bounds of `source` could grow by family rather than by size: lock files of one
format each with the manifests they go with. The Maven modules and parents would be
a module of the kind of MavenWalk, with the same caps and cycles. Reading an
artefact while it is evicted deserves a model of its own, in which CacheStore is
replaced by AtomicCache, as FilesAreAtomic allows for artefacts with one writer.
