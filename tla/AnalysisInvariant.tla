-------------------------- MODULE AnalysisInvariant --------------------------
(***************************************************************************)
(* The inductive invariant AInv of the whole analysis of a project, the    *)
(* invariant IInv of the verdicts that is its last part, and the           *)
(* vocabulary in which the lemmas of ProjectAnalysisProofs are stated:     *)
(* what each parser gives, when a merge is right, what a walk in a graph   *)
(* meets.  Nothing here models the code.                                   *)
(***************************************************************************)
EXTENDS ProjectAnalysis

-----------------------------------------------------------------------------
(* The verdicts on a given scenario. *)

Status == {"SAFE", "UNCERTAIN", "IN_USE"}

Types ==
  /\ IsScenario(in)
  /\ pc \in {"scan", "classify", "upgrade", "downgrade", "resolve", "undeclared", "done"}
  /\ pc = "upgrade" => in.eco = "pypi"
  /\ pc = "downgrade" => in.eco \in {"pypi", "npm"}
  /\ pc = "resolve" => in.eco = "pypi"
  /\ k \in Nat \ {0}
  /\ status \in [DOMAIN in.deps -> Status]

\* What a file adds to the facts, or to what only gitignored files name.
EvidenceNpm(f) ==
  [static  |-> {i \in StaticImports(f) : NotLocal(i)}
                 \cup {i \in Ambient(f) : OnlyIgnored(f) => NotLocal(i)},
   literal |-> {i \in Literals(f) : NotLocal(i)}]

EvidenceOf(f) ==
  IF in.eco = "pypi" THEN FactsPython(f)
  ELSE IF in.eco = "npm" THEN EvidenceNpm(f)
  ELSE IF in.eco = "go" THEN FactsGo(f) ELSE FactsCsharp(f)

Covers(all, e) == e.static \subseteq all.static /\ e.literal \subseteq all.literal

\* Nothing that a file names is dropped on the way to the verdicts, ...
ReadInv ==
  \A i \in DOMAIN in.files :
    (pc = "scan" => i < k) /\ in.files[i].parses =>
      /\ Counts(in.files[i]) => Covers(facts, EvidenceOf(in.files[i]))
      /\ Weak(in.files[i]) => Covers(weak, EvidenceOf(in.files[i]))

\* ... and nothing is a fact that no file with full weight names.
SourceInv ==
  \A i \in facts.static :
    \E f \in Range(in.files) : Counts(f) /\ i \in EvidenceOf(f).static

-----------------------------------------------------------------------------
(* Reading the files. *)

ScanStep == ScanPython \/ ScanNpm \/ ScanGo \/ ScanCsharp

-----------------------------------------------------------------------------
(* Judging the dependencies. *)

\* The dependencies that have their verdict.
Judged(d) == d \in DOMAIN in.deps /\ pc # "scan" /\ (pc = "classify" => d < k)

\* What the source says of a dependency.
Imported(name) == Found(name, facts.static) # {}

Named(d) ==
  \/ in.eco = "pypi" /\ ~ in.deps[d].stub /\ Imported(in.deps[d].name)
  \/ in.eco = "pypi" /\ Direct(d) /\ Found(in.deps[d].name, facts.literal) # {}
  \/ in.eco = "npm" /\ ~ in.deps[d].stub /\ in.deps[d].name \in facts.static \cup facts.literal
  \/ in.eco \in {"go", "nuget"} /\ UsedIn(in.deps[d].name, facts)

Hinted(d) ==
  \/ in.eco = "pypi" /\ Direct(d) /\ Found(in.deps[d].name, weak.static \cup weak.literal) # {}
  \/ in.eco = "npm" /\ ~ in.deps[d].stub /\ in.deps[d].name \in weak.static \cup weak.literal
  \/ in.eco \in {"go", "nuget"} /\ UsedIn(in.deps[d].name, weak)

\* A dependency that the source names is in use, and what is in use stays so,
\* also when the graph decides: the transitives named by the source are kept
\* from it.
InUseInv ==
  \A d \in DOMAIN in.deps :
    Judged(d) /\ Named(d) =>
      status[d] = "IN_USE" /\ (in.deps[d].transitive /\ in.eco = "pypi" => d \in promoted)

\* The weak evidence is looked at after the loop, by pip and npm.
Hints == IF in.eco = "pypi" THEN {"resolve", "undeclared", "done"}
         ELSE IF in.eco = "npm" THEN {"undeclared", "done"}
         ELSE {"classify", "undeclared", "done"}

HintInv ==
  \A d \in DOMAIN in.deps :
    pc \in Hints /\ Judged(d) /\ Hinted(d) => status[d] # "SAFE"

PromotedInv ==
  \A d \in promoted : Judged(d) /\ in.deps[d].transitive /\ status[d] = "IN_USE"

\* An import that is taken for matched was matched by a dependency in use.
Owns(name, i) == IF in.eco = "pypi" THEN Matches(i, name) ELSE name = i

MatchedInv ==
  \A m \in matched :
    \E d \in DOMAIN in.deps :
      /\ status[d] = "IN_USE" /\ Owns(in.deps[d].name, m)
      /\ Judged(d)
      /\ in.eco = "pypi" => d \in promoted \/ ~ in.deps[d].transitive

\* Once the graph has spoken, its transitives have the strongest status of
\* the direct dependencies above them.
ResolvedInv ==
  in.eco = "pypi" /\ in.locked /\ pc \in {"undeclared", "done"} =>
    \A d \in DOMAIN in.deps :
      in.deps[d].transitive /\ d \notin promoted => status[d] = Resolved(d)

\* An import that has no entry is some dependency's, or the language's.
Explained(i) ==
  \/ in.eco = "pypi" /\ \/ IsBuiltin(Canon[i])
                        \/ \E m \in matched : Canon[i] = Canon[m]
                        \/ {Canon[i], Distribution(i)} \cap Declared # {}
                        \/ \E u \in undeclared : u[1] = Distribution(i)
  \/ in.eco = "npm" /\ (i \in matched \cup Declared \/ <<i, i>> \in undeclared)
  \/ in.eco = "go" /\ \/ {i, ModuleRoot(i)} \cap (matched \cup Declared) # {}
                      \/ \E u \in undeclared : u[1] = ModuleRoot(i)
  \/ in.eco = "nuget" /\ \/ IsBuiltin(i)
                         \/ \E n \in Declared : Under(n, i)
                         \/ <<i, i>> \in undeclared

UndeclaredInv ==
  pc = "done" =>
    /\ \A u \in undeclared : u[2] \in facts.static
    /\ \A i \in facts.static : Explained(i)
    /\ in.eco = "npm" => \A u \in undeclared : u[1] \notin Declared
    /\ in.eco = "nuget" => \A u \in undeclared : ~ \E n \in Declared : Under(n, u[1])

IInv ==
  /\ Types /\ ReadInv /\ SourceInv
  /\ InUseInv /\ HintInv /\ PromotedInv /\ MatchedInv /\ ResolvedInv /\ UndeclaredInv

\* What the verdict on the k-th dependency may change, in every ecosystem.
Judges ==
  /\ pc = "classify" /\ k \in DOMAIN in.deps /\ k' = k + 1
  /\ UNCHANGED <<in, pc, facts, weak, undeclared>>
  /\ status' = [status EXCEPT ![k] = status'[k]] /\ status'[k] \in Status
  /\ Named(k) => status'[k] = "IN_USE" /\ (in.deps[k].transitive /\ in.eco = "pypi" => k \in promoted')
  /\ "classify" \in Hints /\ Hinted(k) => status'[k] # "SAFE"
  /\ promoted \subseteq promoted' /\ promoted' \subseteq promoted \cup {k}
  /\ k \in promoted' \ promoted => in.deps[k].transitive /\ status'[k] = "IN_USE"
  /\ \A m \in matched' \ matched :
       /\ status'[k] = "IN_USE" /\ Owns(in.deps[k].name, m)
       /\ in.eco = "pypi" => k \in promoted' \/ ~ in.deps[k].transitive

\* What follows the loop: the files, the facts and the matches stay, and so
\* does what is in use.
Passes(s) ==
  /\ UNCHANGED <<in, k, facts, weak, promoted, matched>>
  /\ pc' # "scan" /\ pc' # "classify"
  /\ s \in [DOMAIN in.deps -> Status]
  /\ \A d \in DOMAIN in.deps :
       /\ status[d] = "IN_USE" /\ (in.eco = "pypi" => d \in promoted \/ ~ in.deps[d].transitive)
            => s[d] = "IN_USE"
       /\ pc' \in Hints /\ Hinted(d) => s[d] # "SAFE"

-----------------------------------------------------------------------------
(* What no dependency has claimed. *)

Reports(eco) ==
  /\ pc = "undeclared" /\ pc' = "done" /\ in.eco = eco
  /\ UNCHANGED <<in, k, facts, weak, status, promoted, matched>>

-----------------------------------------------------------------------------
(* Folds, flattened sequences and levels of recursion, by what they satisfy. *)

\* The folds that the parsers and coordinators are made of, by their step.
FoldStep(kind, acc, e) ==
  IF kind = "python" THEN MergePython(acc, e)
  ELSE IF kind = "npm" THEN MergeNpm(acc, e)
  ELSE IF kind = "go" THEN MergeGo(acc, e)
  ELSE IF kind = "go.mod" THEN GoModLine(acc, e)
  ELSE IF kind = "new" THEN AddNew(acc, e)
  ELSE IF kind = "lock" THEN Resolve(acc, e)
  ELSE IF kind = "yarn" THEN YarnV1Line(acc, e)
  ELSE PipWord(acc, e)

\* it satisfies the recursion of a fold over a sequence of length n.
IsFold(kind, base, seq, n, it) ==
  /\ it = [s \in SUBSET (1..n) |-> it[s]]
  /\ \A s \in SUBSET (1..n) :
       it[s] = IF s = {} THEN base ELSE FoldStep(kind, it[s \ {Max(s)}], seq[Max(s)])

\* m[i] is what the fold has made of the first i elements.
IsRun(kind, base, seq, n, m) ==
  m[0] = base /\ \A i \in 1..n : m[i] = FoldStep(kind, m[i - 1], seq[i])

IsSeq(s) == s \in Seq(Range(s))

-----------------------------------------------------------------------------
(* What the parsers give. *)

\* The notes that tell of a cycle.
Cycles == {"cycle", "group cycle", "tox cycle"}

\* What a parser gives: entries with names of the ecosystem, in their order,
\* and notes of which only those of the given kinds tell of a cycle.
IsEntry(e, names) ==
  /\ e = [name |-> e.name, version |-> e.version, source |-> e.source,
          transitive |-> e.transitive]
  /\ e.name \in names /\ e.transitive \in BOOLEAN

IsEntries(s, names) == IsSeq(s) /\ \A e \in Range(s) : IsEntry(e, names)

IsResult(r, names, kinds) ==
  /\ r = [deps |-> r.deps, notes |-> r.notes]
  /\ IsEntries(r.deps, names)
  /\ \A n \in r.notes : n[1] \in Cycles => n[1] \in kinds

\* A direct entry for a name, with its source.
Gives(r, name, from) ==
  \E e \in Range(r.deps) : e.name = name /\ e.source = from /\ ~ e.transitive

\* One file, group or value, by what those it refers to give.
Level(kind, x, deeper, left, c) ==
  IF kind = "requirements" THEN RequirementsFile(x, deeper, left, c[1], c[2])
  ELSE IF kind = "groups" THEN GroupTable(x, deeper, left, c[1], c[2])
  ELSE ToxText(x, deeper, left, c[1], c[2])

IsLevels(kind, x, C, n, read) ==
  /\ read = [left \in 0..n |-> read[left]]
  /\ \A left \in 0..n : read[left] = [c \in C |-> Level(kind, x, read[left - 1], left, c)]

IsPy(r, kinds) == IsResult(r, DOMAIN Normal, kinds)

-----------------------------------------------------------------------------
(* The parsers of Python, file by file and line by line. *)

\* What the lines of one requirements file give.
LineGives(x, deeper, name, above, line) ==
  CASE line.kind # "include" -> Pep508(line, Of("requirements.txt"))
    [] line.kind = "include" /\ line.target = Outside -> Noted(<<"escape", name>>)
    [] line.kind = "include" /\ line.target \notin DOMAIN x \cup {Outside} ->
         Noted(<<"not found", name>>)
    [] OTHER -> deeper[<<line.target, above \cup {name}>>]

LinesGive(x, deeper, name, above) ==
  All([i \in DOMAIN x[name].lines |-> LineGives(x, deeper, name, above, x[name].lines[i])])

\* The elements of a sequence at some of its places, in their order.
Some(seq, T) == FlattenSeq([i \in DOMAIN seq |-> IF i \in T THEN <<seq[i]>> ELSE <<>>])

\* The auxiliary files that are there.
Auxiliary(x) == Only(TestRequirements, LAMBDA n : n \in DOMAIN x)

\* What the items of one dependency group give.
ItemGives(deeper, name, above, i) ==
  CASE i.kind = "group" -> deeper[<<i.target, above \cup {name}>>]
    [] i.kind \in {"name", "bad"} -> Pep508(i, Pyproject("dependency-groups", name))
    [] OTHER -> Noted(<<"invalid group item", name>>)

ItemsGive(x, deeper, name, above) ==
  All([i \in DOMAIN GroupOf(x, name).items |->
         ItemGives(deeper, name, above, GroupOf(x, name).items[i])])

\* Tables of requirements, each with a label of its own.
Tables(seq, file, section) ==
  All([i \in DOMAIN seq |-> Items(seq[i].items, Label(file, section, seq[i].name))])

\* The keyword arguments of one call.
ArgumentIs(kw, bindings) ==
  /\ kw.arg = "install_requires" => IsListing(Deref(kw.value, bindings))
  /\ kw.arg = "extras_require" => IsExtras(Deref(kw.value, bindings), bindings)

ArgumentGives(kw, bindings) ==
  CASE kw.arg = "install_requires" ->
         RequirementList(kw.value, bindings, Label("setup.py", "install_requires", None))
    [] kw.arg = "extras_require" -> ExtrasDict(kw.value, bindings)
    [] OTHER -> Nothing

CallGives(call, bindings) == All([i \in DOMAIN call |-> ArgumentGives(call[i], bindings)])

\* One package of a lock file.
LockedGives(p, file, direct) ==
  [Nothing EXCEPT !.deps =
     <<[Entry(p.name, p.version, Of(file)) EXCEPT !.transitive = Normal[p.name] \notin direct]>>]

\* environment.yml
CondaGives(i) ==
  IF i.kind = "pip" THEN Items(i.items, Label("environment.yml", "pip", None)) ELSE CondaScalar(i)

\* The words of pip install.
WordGives(w, from) ==
  IF w.kind = "variable" THEN Noted(<<"variable", from.file>>) ELSE PipToken(w, from)

TokensGive(seq, from) == All([i \in DOMAIN seq |-> PipToken(seq[i], from)])

\* The chunks of a line, the lines of a block.
ChunkGives(chunk, from) == IF chunk.install THEN PipWords(chunk.words, from) ELSE Nothing

LineOfShell(line, from) == All([i \in DOMAIN line |-> ChunkGives(line[i], from)])

\* What the items of one value of tox.ini give.
AreSections(x) == \A at \in DOMAIN x : IsItems(x[at])

RefGives(x, deeper, above, i) ==
  CASE i.kind # "ref" -> PipToken(i, Of("tox.ini"))
    [] i.kind = "ref" /\ i.target \in above -> Noted(<<"tox cycle", i.target>>)
    [] i.kind = "ref" /\ i.target \notin above \cup DOMAIN x -> Nothing
    [] OTHER -> deeper[<<i.target, above \cup {i.target}>>]

RefsGive(x, deeper, at, above) ==
  All([i \in DOMAIN x[at] |-> RefGives(x, deeper, above, x[at][i])])

\* The two keys of a section.
SectionGives(f, s) ==
  All([i \in DOMAIN << <<s, "deps">>, <<s, "requires">> >> |->
         IF s \in ToxEnvironments /\ << <<s, "deps">>, <<s, "requires">> >>[i] \in DOMAIN f.sections
         THEN ToxValue(f.sections, << <<s, "deps">>, <<s, "requires">> >>[i]) ELSE Nothing])

StartGives(f, at) ==
  IF at[1] \in ToxEnvironments /\ at \in DOMAIN f.sections THEN ToxValue(f.sections, at) ELSE Nothing

DockerGives(d) ==
  Parsed(d.name, d, ShellBlock(d.lines, Of(IF d.dir = None THEN d.name ELSE d.dir)))

JobsGive(jobs, from) == All([i \in DOMAIN jobs |-> ShellBlock(jobs[i], from)])

WorkflowGives(w) == Parsed("workflow", w, JobsGive(w.jobs, Of(".github/workflows")))

NoxGives(args) ==
  IF args # <<>> /\ args[1].kind = "expression" THEN Noted(<<"dynamic", "noxfile.py">>)
  ELSE TokensGive(args, Of("noxfile.py"))

\* The graph of a lock file: finitely many names of Python, each with finitely
\* many of them.
IsLockGraph(g) ==
  /\ IsFiniteSet(DOMAIN g)
  /\ \A n \in DOMAIN g : n \in Path /\ IsFiniteSet(g[n]) /\ g[n] \subseteq Path

\* What a package of a lock file leads to.
Kids(p, uv) == NormalNames(p.requires) \cup (IF uv /\ p.root THEN NormalNames(p.dev) ELSE {})

GraphOf(P, uv) ==
  [n \in {Normal[p.name] : p \in {x \in Range(P) : x.table}} |->
     Kids(P[CHOOSE i \in {l \in DOMAIN P : P[l].table /\ Normal[P[l].name] = n} :
              \A j \in {l \in DOMAIN P : P[l].table /\ Normal[P[l].name] = n} : j <= i], uv)]

-----------------------------------------------------------------------------
(* The parsers of npm, Go and NuGet. *)

\* What a parser of npm gives.
IsNpm(r) ==
  /\ r = [deps |-> r.deps, notes |-> r.notes, edges |-> r.edges]
  /\ IsEntries(r.deps, Path)

\* package.json: the pins of its sections, labelled with the section.
SectionPins(f, i) ==
  IF Sections[i] \in DOMAIN f.sections
  THEN Entries(f.sections[Sections[i]], Label("package.json", Sections[i], None)) ELSE <<>>

\* Entries of what was read, none of them marked transitive.
AreDirect(s) == IsEntries(s, Path) /\ \A e \in Range(s) : ~ e.transitive

\* After i lines of go.mod: the block that is open, the requirements and the
\* exclusions that were stated.
GoState(lines, i, st) ==
  /\ st = [block |-> st.block, deps |-> st.deps, excludes |-> st.excludes, replaces |-> st.replaces]
  /\ AreDirect(st.deps)
  /\ Opener(lines, i + 1) = {} => st.block = None
  /\ \A j \in Opener(lines, i + 1) : lines[j].block = st.block /\ st.block # None
  /\ \A l \in Stated(lines, "require") :
       l <= i => \E e \in Range(st.deps) : e.name = lines[l].item.path
  /\ \A x \in st.excludes : \E l \in Stated(lines, "exclude") : x[1] = lines[l].item.path

\* One directive.
IsTaken(lines, l, st, block, t) ==
  /\ t = [block |-> t.block, deps |-> t.deps, excludes |-> t.excludes, replaces |-> t.replaces]
  /\ t.block = st.block
  /\ AreDirect(t.deps)
  /\ \A e \in Range(st.deps) : e \in Range(t.deps)
  /\ block = "require" => \E e \in Range(t.deps) : e.name = lines[l].item.path
  /\ \A x \in t.excludes : \E n \in Stated(lines, "exclude") : x[1] = lines[n].item.path

IsGoLines(lines) ==
  /\ IsSeq(lines)
  /\ \A l \in Range(lines) : /\ l.kind \in {"single", "item"} => l.item.path \in Path
                             /\ l.kind = "open" => l.block # None

Names(s) == {e.name : e \in Range(s)}

\* Entries, one for a name.
OneEach(s) ==
  /\ IsEntries(s, Path)
  /\ \A i, j \in DOMAIN s : s[i].name = s[j].name => i = j

\* After i elements there is one entry for each name met.
Collected(base, seq, i, s) ==
  OneEach(s) /\ Names(s) = Names(base) \cup {seq[j].name : j \in 1..i}

IsProjectFile(p) == p.ok => AreNamed(p.references)

ProjectGives(P, i, central) == IF Visited(P, i) THEN Nothing ELSE ProjectFile(P[i], central)

-----------------------------------------------------------------------------
(* Tables with one entry for a name. *)

\* How strong a source is, what an entry is called and which names stay out.
Strength(eco, from) == IF eco = "pypi" THEN PythonRank(from) ELSE NpmRank(from)

Called(eco, e) == IF eco = "pypi" THEN Normal[e.name] ELSE e.name

Left(eco) == IF eco = "pypi" THEN Stdlib ELSE NotNpm \cup {NoName}

\* The entries of a name among the first i, and the strongest of them.
Mine(eco, seq, i, n) == {j \in 1..i : Called(eco, seq[j]) = n}

Best(eco, seq, i, n) ==
  {j \in Mine(eco, seq, i, n) : \A l \in Mine(eco, seq, i, n) :
     Strength(eco, seq[l].source) <= Strength(eco, seq[j].source)}

\* The strongest give the source, and the version when they agree; in Python
\* a direct entry makes the whole direct.
IsOwned(eco, seq, i, d) ==
  /\ \E j \in Best(eco, seq, i, d.name) : seq[j].source = d.source
  /\ \A j \in Best(eco, seq, i, d.name) :
       /\ seq[j].version # None
       /\ \A l \in Best(eco, seq, i, d.name) : seq[l].version = seq[j].version
       => d.version = seq[j].version
  /\ eco = "pypi" =>
       \A j \in Mine(eco, seq, i, d.name) : ~ seq[j].transitive => ~ d.transitive

Merged(eco, seq, i, s) ==
  /\ OneEach(s)
  /\ \A x \in DOMAIN s : IsOwned(eco, seq, i, s[x])
  /\ Names(s) = {Called(eco, seq[j]) : j \in 1..i} \ Left(eco)

MineGrows(eco, seq, i, n) ==
  Mine(eco, seq, i, n) = Mine(eco, seq, i - 1, n) \cup {i} /\ i \notin Mine(eco, seq, i - 1, n)

\* What is kept of two entries.
IsKept(eco, cur, e, d) ==
  /\ d.name = cur.name
  /\ Strength(eco, e.source) > Strength(eco, cur.source) =>
       /\ d.source = e.source
       /\ e.version # None => d.version = e.version
  /\ ~ Strength(eco, e.source) > Strength(eco, cur.source) =>
       /\ d.source = cur.source
       /\ cur.version # None => d.version = cur.version
       /\ Strength(eco, e.source) = Strength(eco, cur.source) => d.version = cur.version
  /\ eco = "pypi" => (~ cur.transitive \/ ~ e.transitive => ~ d.transitive)

\* The names that the entries of an ecosystem may have.
NamesOf(eco) == IF eco = "pypi" THEN DOMAIN Normal ELSE Path

\* The state of a merge: a table, and notes that tell of no cycle.
IsTableOf(eco, seq, i, acc) ==
  /\ acc = [deps |-> acc.deps, notes |-> acc.notes]
  /\ Merged(eco, seq, i, acc.deps)
  /\ \A y \in acc.notes : y[1] \notin Cycles

-----------------------------------------------------------------------------
(* The collection of a project, step by step. *)

End == <<"deduplicate", "hand over">>

Ecosystems == {"pypi", "npm", "go", "nuget"}

\* The steps that a project has something for.
Steps(p) == {st \in Range(Order[p.eco]) : Present(p.files, st)}

\* What a step of Python adds, when it is one that notes cycles or reads
\* declarations.
PythonGives(x, st) ==
  CASE st = "requirements.txt"  -> Requirements(x, "requirements.txt")
    [] st = "pyproject.toml"    -> PyprojectToml(x["pyproject.toml"])
    [] st = "setup.cfg"         -> SetupCfg(x["setup.cfg"])
    [] st = "Pipfile"           -> Pipfile(x["Pipfile"])
    [] st = "test requirements" -> TestRequirementFiles(x)
    [] st = "containers and CI" -> ContainersAndCi(x["containers and CI"])
    [] OTHER -> Nothing

\* The shape of what was gathered: entries r, graph g and notes n.
Gathered(p, r, g, n) ==
  /\ IsEntries(r, NamesOf(p.eco))
  /\ p.eco = "nuget" => OneEach(r)
  /\ IsLockGraph(g)
  /\ p.eco = "pypi" =>
       \A y \in n : y[1] \in Cycles => \E st \in Steps(p) : y \in PythonGives(p.files, st).notes

\* What a step had to add is there.
Fulfilled(p, st, r, n) ==
  /\ p.eco = "pypi" => /\ Range(PythonGives(p.files, st).deps) \subseteq Range(r)
                       /\ PythonGives(p.files, st).notes \subseteq n
  /\ p.eco = "npm" /\ st = "package.json" =>
       Range(PackageJson(p.files["package.json"]).deps) \subseteq Range(r)
  /\ p.eco = "go" /\ st = "go.mod" => Names(GoMod(p.files["go.mod"]).deps) \subseteq Names(r)
  /\ p.eco = "nuget" /\ st = "projects" =>
       \A f \in Range(ProjectsOf(p.files["projects"])) : f.ok => Pinned(f.references) \subseteq Names(r)

\* The steps s are ahead, the others are done.
Collecting(p, s, r, g, n) ==
  /\ IsProject(p)
  /\ IsSeq(s) /\ Range(s) \subseteq Steps(p)
  /\ Gathered(p, r, g, n)
  /\ \A st \in Steps(p) : st \in Range(s) \/ Fulfilled(p, st, r, n)

\* What a step of Python adds to the entries r.
PythonReads(x, st, r) ==
  CASE st = "requirements.txt"  -> Requirements(x, "requirements.txt")
    [] st = "pyproject.toml"    -> PyprojectToml(x["pyproject.toml"])
    [] st = "setup.py"          -> SetupPy(x["setup.py"])
    [] st = "setup.cfg"         -> SetupCfg(x["setup.cfg"])
    [] st = "Pipfile"           -> Pipfile(x["Pipfile"])
    [] st = "Pipfile.lock"      -> PipfileLock(x["Pipfile.lock"])
    [] st = "poetry.lock"       -> PoetryLock(x["poetry.lock"], r)
    [] st = "uv.lock"           -> UvLock(x["uv.lock"])
    [] st = "test requirements" -> TestRequirementFiles(x)
    [] st = "environment.yml"   -> EnvironmentYml(x[CondaFile(x)])
    [] st = "containers and CI" -> ContainersAndCi(x["containers and CI"])
    [] OTHER -> Nothing

\* The steps that note cycles or read declarations.
Declaring == {"requirements.txt", "pyproject.toml", "setup.cfg", "Pipfile",
              "test requirements", "containers and CI"}

\* The others.
Locking == {"setup.py", "Pipfile.lock", "poetry.lock", "uv.lock", "environment.yml"}

\* The steps that are ahead in todo t.
Ahead(p, t, r, g, n) == \E s : t = s \o End /\ Collecting(p, s, r, g, n)

\* The step at the head adds the entries and the notes of r.
Added(st, r) ==
  /\ todo # <<>> /\ Head(todo) = st /\ todo' = Tail(todo)
  /\ raw' = raw \o r.deps /\ notes' = notes \cup r.notes
  /\ UNCHANGED <<project, declared>>

ReadsPython == PythonStep /\ ~ DeduplicatePythonStep

ReadsNpm == NpmStep /\ ~ DeduplicateNpmStep

\* What a step of npm reads.
NpmAdds(st, r) ==
  /\ Added(st, r) /\ graph' = graph
  /\ st # "deduplicate" /\ IsNpm(r)
  /\ st = "package.json" => r = PackageJson(files["package.json"])

\* The step that reads what go.mod and the projects declare; all others keep
\* the names.
Source(eco) == IF eco = "go" THEN "go.mod" ELSE "projects"

\* The entries that are merged.
Sources(p, r) ==
  IF p.eco = "pypi" /\ p.excludeTests THEN WithoutTests(r)
  ELSE IF p.eco = "npm" /\ p.excludeDev THEN WithoutDev(r) ELSE r

\* The dependencies s that were made of the entries r.
Settled(p, r, s) ==
  /\ IsSeq(s)
  /\ \A d \in Range(s) : IsDependency(d)
  /\ \A i, j \in DOMAIN s : s[i].name = s[j].name => i = j
  /\ p.eco # "pypi" => \A i \in DOMAIN s : ~ s[i].transitive
  /\ p.eco \in {"pypi", "npm"} =>
       /\ \A i \in DOMAIN s : IsOwned(p.eco, Sources(p, r), Len(Sources(p, r)), s[i])
       /\ Names(s) = {Called(p.eco, Sources(p, r)[j]) : j \in 1..Len(Sources(p, r))} \ Left(p.eco)
  /\ p.eco \in {"go", "nuget"} => Names(s) = Names(r)

\* A table e of entries becomes a list s of dependencies, one for one.
MadeOf(eco, e, s) ==
  /\ s = [i \in DOMAIN e |-> s[i]]
  /\ \A i \in DOMAIN e : /\ s[i].name = e[i].name /\ s[i].version = e[i].version
                         /\ s[i].source = e[i].source
                         /\ s[i].status \in {"SAFE", "UNCERTAIN", "IN_USE"}
                         /\ eco = "pypi" => s[i].transitive = e[i].transitive
                         /\ eco # "pypi" => ~ s[i].transitive

\* Everything is read and made into dependencies.
Complete(p, r, g, n, s) ==
  /\ IsProject(p) /\ Gathered(p, r, g, n)
  /\ \A st \in Steps(p) : Fulfilled(p, st, r, n)
  /\ Settled(p, r, s)

\* The scenario has its parts, and no source file is read yet.
HasParts(s) == {"eco", "mode", "files", "deps", "graph", "locked", "commands"} \subseteq DOMAIN s

Fresh ==
  /\ IsScenario(in) /\ HasParts(in) /\ in.eco = project.eco
  /\ pc = "scan" /\ k = 1 /\ facts = NoFacts /\ weak = NoFacts
  /\ promoted = {} /\ matched = {} /\ undeclared = {}
  /\ status = [d \in DOMAIN in.deps |-> in.deps[d].status]

\* Reading the dependency files, having read them, reading the source files.
Collects == Fresh /\ Ahead(project, todo, raw, graph, notes)

AllRead == Fresh /\ todo = <<"hand over">> /\ Complete(project, raw, graph, notes, declared)

HandedOver ==
  /\ todo = <<>> /\ Complete(project, raw, graph, notes, declared)
  /\ in.deps = declared /\ in.eco = project.eco
  /\ IInv

AInv == Collects \/ AllRead \/ HandedOver

-----------------------------------------------------------------------------
(* Walks in a graph that remember the way. *)

\* A finite graph that no edge leaves.
IsClosedGraph(g) == IsFiniteSet(DOMAIN g) /\ \A n \in DOMAIN g : g[n] \subseteq DOMAIN g

\* What is below a set is below one of its elements.
Unites(g, S) ==
  /\ \A s \in S : Below(g, {s}) \subseteq Below(g, S)
  /\ \A m \in Below(g, S) : \E s \in S : m \in Below(g, {s})

\* A node that is on a cycle.
OnCycle(g, n) == n \in Below(g, g[n])

\* A walk over at most N edges that remembers the way A: C are the places, with
\* the length left, the node and the way, from which a node of the way is met
\* again.
IsWalk(g, N, C) ==
  \A l \in 0..N : \A n \in DOMAIN g : \A A \in SUBSET DOMAIN g :
    /\ n \in A => <<l, n, A>> \in C
    /\ n \notin A /\ l = 0 => <<l, n, A>> \notin C
    /\ n \notin A /\ l # 0 =>
         (<<l, n, A>> \in C <=> \E t \in g[n] : <<l - 1, t, A \cup {n}>> \in C)

\* A walk that is not cut short: D are the places where it is, v[p] is what is
\* met from p on.
IsSurvey(g, N, D, v) ==
  \A l \in 0..N : \A n \in DOMAIN g : \A A \in SUBSET DOMAIN g :
    /\ n \notin A /\ l = 0 => <<l, n, A>> \in D
    /\ n \notin A /\ l # 0 =>
         /\ n \in v[<<l, n, A>>]
         /\ \A t \in g[n] : /\ <<l - 1, t, A \cup {n}>> \in D => <<l, n, A>> \in D
                            /\ v[<<l - 1, t, A \cup {n}>>] \subseteq v[<<l, n, A>>]

-----------------------------------------------------------------------------
(* The graphs of the files, references and groups that include one another. *)

\* The graph of the includes among the files x.
IncludeGraph(x) ==
  [n \in DOMAIN x |->
     IF n \in Requirementlike(x)
     THEN {l.target : l \in {y \in Range(x[n].lines) : y.kind = "include" /\ y.target \in DOMAIN x}}
     ELSE {}]

\* What is told of a cycle, or of too great a depth.
Tells(r, kind) == \E y \in r.notes : y[1] = kind

\* The places p = <<left, file, way>>.
Places(n, X) == (0..n) \X X \X SUBSET X

\* There is one dependency of a name, and it is direct.
Answered(n) ==
  \E d \in DOMAIN in.deps : /\ in.deps[d].name = n
                            /\ ~ in.deps[d].transitive
                            /\ \A x \in DOMAIN in.deps \ {d} : in.deps[x].name # n

\* The graph of the references among the values x of tox.ini.
ReferenceGraph(x) ==
  [at \in DOMAIN x |-> {i.target : i \in {y \in Range(x[at]) : y.kind = "ref"}} \cap DOMAIN x]

LeadsBack(x, read, l, n, B) ==
  \E t \in ReferenceGraph(x)[n] : t \in B \/ Tells(read[l - 1][<<t, B \cup {t}>>], "tox cycle")

\* The graph of the groups that groups include.
GroupGraphOf(x) ==
  [n \in GroupNames(x) |-> IF HasGroup(x, n) THEN IncludedGroups(GroupOf(x, n)) ELSE {}]

GroupLeadsBack(x, read, l, n, B) ==
  \E t \in GroupGraphOf(x)[n] : Tells(read[l - 1][<<t, B>>], "group cycle")

\* Where the starts of tox.ini tell of a cycle.
ToxTells(f) ==
  f.ok /\ \E at \in DOMAIN f.sections :
            /\ at[1] \in ToxEnvironments /\ at[2] \in {"deps", "requires"}
            /\ Tells(ToxValue(f.sections, at), "tox cycle")

TestsTell(x) ==
  \E n \in Range(TestRequirements) \cap DOMAIN x : Tells(Requirements(x, n), "cycle")

GroupsTell(x) == \E g \in Range(x) : Tells(ResolveGroup(x, g.name), "group cycle")

\* The steps of Python that tell of a cycle of one kind.
Telling(x, st, kind) ==
  \/ kind = "cycle" /\ st = "requirements.txt" /\ Tells(Requirements(x, st), "cycle")
  \/ kind = "cycle" /\ st = "test requirements" /\ TestsTell(x)
  \/ kind = "group cycle" /\ st = "pyproject.toml" /\ x[st].ok /\ GroupsTell(x[st].groups)
  \/ kind = "tox cycle" /\ st = "containers and CI" /\ ToxTells(x[st].tox)
=============================================================================
