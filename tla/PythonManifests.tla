--------------------------- MODULE PythonManifests ---------------------------
(***************************************************************************)
(* The Python dependency files (analysers/python/dep_file_parser.py and    *)
(* container_ci_parser.py).  One operator for each format; the items of a  *)
(* list are records with a field kind: a name with its version, a bad      *)
(* requirement, an include, an option, ...                                 *)
(***************************************************************************)
EXTENDS DependencyFiles

Outside == "outside the project root"   \* where an include may point

TestGroups == {"test", "tests", "dev"}
TestRequirements ==
  << "requirements-test.txt", "requirements-tests.txt", "requirements-dev.txt",
     "test-requirements.txt", "dev-requirements.txt" >>

\* _parse_pep508_entry, _parse_requirement_line: a version is kept bare when it
\* is pinned and as the specifier otherwise; options, URLs, editable
\* requirements and what is no string are skipped.
Pep508(item, from) ==
  CASE item.kind = "name" -> One(item.name, item.version, from)
    [] item.kind = "bad"  -> Noted(<<"invalid", from.file>>)
    [] OTHER              -> Nothing

Items(seq, from) == Each(seq, LAMBDA i : Pep508(i, from))
----------------------------------------------------------------------------
(* requirements.txt and its includes *)

\* A requirements file.  above is visited, the files on the way to it: a file
\* may be included twice, but not by itself.  left is what remains of the depth,
\* and deeper says what an included file gives.  "-r" and "-c" are the same.
RequirementsFile(files, deeper, left, name, above) ==
  CASE name \in above                  -> Noted(<<"cycle", name>>)
    [] name \notin above /\ left = 0   -> Noted(<<"depth", name>>)
    [] OTHER ->
         Parsed(name, files[name],
           Each(files[name].lines, LAMBDA line :
             CASE line.kind # "include" -> Pep508(line, Of("requirements.txt"))
               [] line.kind = "include" /\ line.target = Outside -> Noted(<<"escape", name>>)
               [] line.kind = "include" /\ line.target \notin DOMAIN files \cup {Outside} ->
                    Noted(<<"not found", name>>)
               [] OTHER -> deeper[<<line.target, above \cup {name}>>]))

\* A file and the files on the way to it.
Visits(names) == names \X SUBSET names

\* Mutant of Requirements: the files on the way are not remembered.
RequirementsUnvisited(files, start) ==
  LET read[left \in 0..(MaxDepth + 1)] ==
        [c \in Visits(DOMAIN files) |-> RequirementsFile(files, read[left - 1], left, c[1], {})]
  IN read[MaxDepth + 1][<<start, {}>>]

\* _parse_requirements_txt, from the file where it starts.
Requirements(files, start) ==
  LET read[left \in 0..(MaxDepth + 1)] ==
        [c \in Visits(DOMAIN files) |-> RequirementsFile(files, read[left - 1], left, c[1], c[2])]
  IN read[MaxDepth + 1][<<start, {}>>]

\* What an auxiliary file declares is labelled with that file's name.
Relabelled(result, from) ==
  [result EXCEPT !.deps = [i \in DOMAIN @ |-> [@[i] EXCEPT !.source = from]]]

TestRequirementFiles(files) ==
  Each(Only(TestRequirements, LAMBDA n : n \in DOMAIN files),
       LAMBDA n : Relabelled(Requirements(files, n), Of(n)))
----------------------------------------------------------------------------
(* pyproject.toml *)

Pyproject(section, group) == Label("pyproject.toml", section, group)

HasGroup(groups, name) == \E g \in Range(groups) : g.name = name
GroupOf(groups, name) == CHOOSE g \in Range(groups) : g.name = name

\* The groups a group includes, and all groups that are named.
IncludedGroups(g) == {i.target : i \in {x \in Range(g.items) : x.kind = "group"}}
GroupNames(groups) ==
  {g.name : g \in Range(groups)} \cup UNION {IncludedGroups(g) : g \in Range(groups)}

\* One group; above, left and deeper as for a requirements file.
GroupTable(groups, deeper, left, name, above) ==
  CASE name \in above -> Noted(<<"group cycle", name>>)
    [] name \notin above /\ left = 0 -> Noted(<<"group depth", name>>)
    [] name \notin above /\ left # 0 /\ ~ HasGroup(groups, name) ->
         Noted(<<"unknown group", name>>)
    [] OTHER ->
         Each(GroupOf(groups, name).items, LAMBDA i :
           CASE i.kind = "group" -> deeper[<<i.target, above \cup {name}>>]
             [] i.kind \in {"name", "bad"} -> Pep508(i, Pyproject("dependency-groups", name))
             [] OTHER -> Noted(<<"invalid group item", name>>))

\* _resolve_group, from the group where it starts.
ResolveGroup(groups, start) ==
  LET read[left \in 0..(MaxDepth + 1)] ==
        [c \in Visits(GroupNames(groups)) |-> GroupTable(groups, read[left - 1], left, c[1], c[2])]
  IN read[MaxDepth + 1][<<start, {}>>]

DependencyGroups(groups) == Each(groups, LAMBDA g : ResolveGroup(groups, g.name))

\* _parse_poetry_section: the interpreter itself is no dependency.
PoetryTable(pins, from) ==
  Each(pins, LAMBDA p : IF p.name = <<"python">> THEN Nothing ELSE One(p.name, p.version, from))
PoetrySection(f) ==
  All(<< PoetryTable(f.poetry, Pyproject("poetry", None)),
         PoetryTable(f.poetryDev, Pyproject("poetry.dev-dependencies", None)),
         Each(f.poetryGroups,
              LAMBDA g : PoetryTable(g.items, Pyproject("poetry.group", g.name))) >>)

PyprojectToml(f) ==
  Parsed("pyproject.toml", f,
    All(<< Items(f.project, Pyproject("project", None)),
           Each(f.extras,
                LAMBDA g : Items(g.items, Pyproject("optional-dependencies", g.name))),
           PoetrySection(f),
           Items(f.requires, Pyproject("build-system", None)),
           DependencyGroups(f.groups) >>))
----------------------------------------------------------------------------
(* setup.py, setup.cfg, Pipfile *)

\* One level of a module-level name is followed.
Deref(value, bindings) ==
  IF value.form = "name" /\ value.name \in DOMAIN bindings
  THEN bindings[value.name] ELSE value

RequirementList(value, bindings, from) ==
  LET v == Deref(value, bindings)
  IN IF v.form = "list" THEN Items(v.items, from) ELSE Noted(<<"dynamic", "setup.py">>)

\* _extract_extras_dict: anything but a dictionary is dropped without a note.
ExtrasDict(value, bindings) ==
  LET v == Deref(value, bindings)
  IN IF v.form # "dict" THEN Nothing
     ELSE Each(v.items, LAMBDA g :
            RequirementList(g.value, bindings, Label("setup.py", "extras_require", g.name)))

SetupPy(f) ==
  Parsed("setup.py", f,
    IF f.calls = <<>> THEN Noted(<<"no setup call", "setup.py">>)
    ELSE Each(f.calls, LAMBDA call : Each(call, LAMBDA kw :
           CASE kw.arg = "install_requires" ->
                  RequirementList(kw.value, f.bindings,
                                  Label("setup.py", "install_requires", None))
             [] kw.arg = "extras_require" -> ExtrasDict(kw.value, f.bindings)
             [] OTHER -> Nothing)))

SetupCfg(f) ==
  Parsed("setup.cfg", f,
    Joined(Items(f.install, Label("setup.cfg", "install_requires", None)),
           Each(f.extras, LAMBDA g : Items(g.items, Label("setup.cfg", "extras_require", g.name)))))

Unstarred(version) == IF version = "*" THEN None ELSE version
Pipfile(f) ==
  Parsed("Pipfile", f,
    Joined(Each(f.packages, LAMBDA p : One(p.name, Unstarred(p.version), Of("Pipfile"))),
           Each(f.dev, LAMBDA p :
                  One(p.name, Unstarred(p.version), Label("Pipfile", "dev", None)))))

PipfileLock(f) ==
  Parsed("Pipfile.lock", f,
    Each(f.default \o f.develop, LAMBDA p : One(p.name, p.version, Of("Pipfile.lock"))))
----------------------------------------------------------------------------
(* poetry.lock and uv.lock: all packages and their graph.  A package is     *)
(* [name, version, table, requires, root, dev]; table says that it has a    *)
(* table of dependencies at all.                                            *)

LockedPackages(packages, file, direct) ==
  Each(packages, LAMBDA p :
    [Nothing EXCEPT !.deps =
       <<[Entry(p.name, p.version, Of(file)) EXCEPT !.transitive = Normal[p.name] \notin direct]>>])

NormalNames(names) == {Normal[n] : n \in names}

\* Of two packages of one name the later one makes the edges.
LockGraph(packages, Children(_)) ==
  LET named(n) == {i \in DOMAIN packages : packages[i].table /\ Normal[packages[i].name] = n}
  IN [n \in {Normal[p.name] : p \in {x \in Range(packages) : x.table}} |->
        Children(packages[CHOOSE i \in named(n) : \A j \in named(n) : j <= i])]

\* Direct is what the poetry tables of pyproject.toml name, dev and groups
\* included.
PoetryDirect(deps) ==
  {Normal[deps[i].name] : i \in
     {j \in DOMAIN deps : deps[j].source.section \in
        {"poetry", "poetry.dev-dependencies", "poetry.group"}}}

PoetryLock(f, deps) ==
  Parsed("poetry.lock", f, LockedPackages(f.packages, "poetry.lock", PoetryDirect(deps)))
PoetryGraph(f) ==
  IF f.ok THEN LockGraph(f.packages, LAMBDA p : NormalNames(p.requires)) ELSE <<>>

\* The set of the last editable or virtual package counts; its dev groups are
\* added to the very set that is its entry in the graph.
UvChildren(p) == NormalNames(p.requires) \cup (IF p.root THEN NormalNames(p.dev) ELSE {})
UvRootNames(packages) ==
  LET roots == Only(packages, LAMBDA p : p.root)
  IN IF roots = <<>> THEN {}
     ELSE LET r == Last(roots)
          IN NormalNames(r.dev) \cup (IF r.table THEN NormalNames(r.requires) ELSE {})

UvLock(f) ==
  Parsed("uv.lock", f,
    LockedPackages(Only(f.packages, LAMBDA p : ~ p.root), "uv.lock",
                   UvRootNames(f.packages)))
UvGraph(f) == IF f.ok THEN LockGraph(f.packages, UvChildren) ELSE <<>>
----------------------------------------------------------------------------
(* environment.yml *)

\* _parse_conda_scalar: channel URLs and the interpreter are skipped.
CondaScalar(item) ==
  IF item.kind = "name" /\ Normal[item.name] # <<"python">>
  THEN One(item.name, item.version, Of("environment.yml")) ELSE Nothing

EnvironmentYml(f) ==
  Parsed("environment.yml", f,
    Each(f.items, LAMBDA i :
      IF i.kind = "pip" THEN Items(i.items, Label("environment.yml", "pip", None))
      ELSE CondaScalar(i)))
----------------------------------------------------------------------------
(* Containers and CI: the arguments of pip install.  A shell line is the    *)
(* sequence of its chunks between operators, a chunk [install, words].      *)

\* _parse_pip_pkg_token: URLs, paths and what is no name are skipped silently.
PipToken(w, from) == IF w.kind = "name" THEN One(w.name, w.version, from) ELSE Nothing

\* _extract_pkgs_from_tokens: the value of an option, and of -r, is skipped.
PipWord(acc, w) ==
  IF acc.skip THEN [acc EXCEPT !.skip = FALSE]
  ELSE IF w.kind \in {"-r", "valued option"} THEN [acc EXCEPT !.skip = TRUE]
  ELSE [acc EXCEPT !.out = Append(@, w)]
PipWords(words, from) ==
  Each(FoldLeft(PipWord, [skip |-> FALSE, out |-> <<>>], words).out,
       LAMBDA w : IF w.kind = "variable" THEN Noted(<<"variable", from.file>>)
                  ELSE PipToken(w, from))

ShellBlock(lines, from) ==
  Each(lines, LAMBDA line :
    Each(line, LAMBDA chunk : IF chunk.install THEN PipWords(chunk.words, from) ELSE Nothing))

\* _dockerfile_label: of a nested file the name of the top directory.
Dockerfiles(seq) ==
  Each(seq, LAMBDA d :
    Parsed(d.name, d, ShellBlock(d.lines, Of(IF d.dir = None THEN d.name ELSE d.dir))))

Workflows(seq) ==
  Each(seq, LAMBDA w :
    Parsed("workflow", w, Each(w.jobs, LAMBDA job : ShellBlock(job, Of(".github/workflows")))))

GitlabCi(f) ==
  Parsed(".gitlab-ci.yml", f, Each(f.jobs, LAMBDA job : ShellBlock(job, Of(".gitlab-ci.yml"))))

\* The value at a key, where "{[section]key}" is replaced by that value; what
\* is too deep stays as it is, which is no requirement.  The keys in above, on
\* the way to it, have the key itself among them.
ToxText(sections, deeper, left, at, above) ==
  IF left = 0
  THEN Joined(Noted(<<"tox depth", at>>),
              Each(sections[at], LAMBDA i : PipToken(i, Of("tox.ini"))))
  ELSE Each(sections[at], LAMBDA i :
         CASE i.kind # "ref" -> PipToken(i, Of("tox.ini"))
           [] i.kind = "ref" /\ i.target \in above -> Noted(<<"tox cycle", i.target>>)
           [] i.kind = "ref" /\ i.target \notin above \cup DOMAIN sections -> Nothing
           [] OTHER -> deeper[<<i.target, above \cup {i.target}>>])

\* _resolve_tox_value, from the key where it starts.
ToxValue(sections, start) ==
  LET read[left \in 0..MaxDepth] ==
        [c \in Visits(DOMAIN sections) |-> ToxText(sections, read[left - 1], left, c[1], c[2])]
  IN read[MaxDepth][<<start, {start}>>]

\* The environments and tox's own section; what they say under two keys.
ToxEnvironments == {"testenv", "testenv:py", "tox"}
ToxIni(f) ==
  Parsed("tox.ini", f,
    Each(f.order, LAMBDA s :
      Each(<< <<s, "deps">>, <<s, "requires">> >>, LAMBDA at :
        IF s \in ToxEnvironments /\ at \in DOMAIN f.sections THEN ToxValue(f.sections, at)
        ELSE Nothing)))

\* A session.install() whose first argument is no string is given up whole.
Noxfile(f) ==
  Parsed("noxfile.py", f,
    Each(f.calls, LAMBDA args :
      IF args # <<>> /\ args[1].kind = "expression" THEN Noted(<<"dynamic", "noxfile.py">>)
      ELSE Each(args, LAMBDA a : PipToken(a, Of("noxfile.py")))))

\* parse_container_and_ci_deps
ContainersAndCi(f) ==
  All(<< Dockerfiles(f.dockerfiles), Workflows(f.workflows), GitlabCi(f.gitlab),
         ToxIni(f.tox), Noxfile(f.nox) >>)
----------------------------------------------------------------------------
(* What the coordinator makes of all entries *)

\* _is_test_scope_source: optional-dependencies and dependency-groups by the
\* group's name, poetry groups by its beginning; no other label.
IsTestScope(from) ==
  \/ from.file \in Range(TestRequirements)
  \/ from.section \in {"optional-dependencies", "dependency-groups"} /\ from.group \in TestGroups
  \/ from.section = "poetry.group" /\ from.group \in TestLike

WithoutTests(deps) == Only(deps, LAMBDA d : ~ IsTestScope(d.source))

PythonFileRank(file) ==
  CASE file = "Pipfile.lock" -> 80
    [] file = "poetry.lock" -> 70
    [] file = "uv.lock" -> 60
    [] file = "environment.yml" -> 55
    [] file = "requirements.txt" -> 50
    [] file = "pyproject.toml" -> 40
    [] file = "setup.py" -> 30
    [] file = "tox.ini" -> 25
    [] file = "setup.cfg" -> 20
    [] file \in {".gitlab-ci.yml", "Dockerfile", "Containerfile", "noxfile.py",
                 ".github/workflows"} -> 15
    [] file = "Pipfile" -> 10
    [] OTHER -> 0

\* _source_priority: the entry for dependency-groups, 35, is never met, since
\* their labels end in the group's name.
PythonRank(from) == IF from.section = "build-system" THEN 33 ELSE PythonFileRank(from.file)

\* The entry kept of two: the stronger source names the entry, and a version
\* is only ever replaced by another version.
Kept(cur, e) ==
  CASE PythonRank(e.source) > PythonRank(cur.source) ->
         [cur EXCEPT !.source = e.source,
                     !.version = IF e.version # None THEN e.version ELSE @]
    [] PythonRank(e.source) < PythonRank(cur.source) /\ cur.version = None ->
         [cur EXCEPT !.version = e.version]
    [] OTHER -> cur

\* Mutant of MergePython: the entry of the stronger source says alone whether
\* the dependency is transitive.
MergePythonStrongestFlag(acc, e) ==
  LET n == Normal[e.name]
  IN IF n \in Stdlib THEN acc
     ELSE IF PositionOf(acc.deps, n) = {}
     THEN [acc EXCEPT !.deps = Append(@, [e EXCEPT !.name = n])]
     ELSE LET i == CHOOSE j \in PositionOf(acc.deps, n) : TRUE
              flag == IF PythonRank(e.source) > PythonRank(acc.deps[i].source)
                      THEN e.transitive ELSE acc.deps[i].transitive
          IN [acc EXCEPT !.deps[i] = [Kept(@, e) EXCEPT !.transitive = flag]]

\* Mutant of MergePython: an entry that comes later takes an earlier one's place.
MergePythonLastWins(acc, e) ==
  LET n == Normal[e.name]
  IN IF n \in Stdlib THEN acc
     ELSE [acc EXCEPT !.deps =
             Append(SelectSeq(@, LAMBDA d : d.name # n), [e EXCEPT !.name = n])]

MergePython(acc, e) ==
  LET n == Normal[e.name]
  IN IF n \in Stdlib THEN [acc EXCEPT !.notes = @ \cup {<<"stdlib", n>>}]
     ELSE IF PositionOf(acc.deps, n) = {}
     THEN [acc EXCEPT !.deps = Append(@, [e EXCEPT !.name = n])]
     ELSE LET i == CHOOSE j \in PositionOf(acc.deps, n) : TRUE
              cur == acc.deps[i]
              clash == Conflict(cur, e) /\ PythonRank(cur.source) # PythonRank(e.source)
          IN [deps  |-> [acc.deps EXCEPT ![i] =
                          [Kept(cur, e) EXCEPT !.transitive = cur.transitive /\ e.transitive]],
              notes |-> acc.notes \cup (IF clash THEN {<<"conflict", n>>} ELSE {})]

DeduplicatePython(deps) == FoldLeft(MergePython, Nothing, deps)

\* _apply_type_stub_detection: a stub of a declared package is in use; the
\* status of everything else is open.
DependencyPython(d, all) ==
  LET stub    == d.name \in DOMAIN StubOf
      runtime == IF stub THEN StubOf[d.name] ELSE NoName
      known   == runtime # NoName /\ \E x \in Range(all) : x.name = runtime
  IN [name |-> d.name, version |-> d.version, source |-> d.source,
      transitive |-> d.transitive, stub |-> stub, runtime |-> runtime,
      status |-> IF stub /\ known THEN "IN_USE" ELSE "UNCERTAIN"]
=============================================================================
