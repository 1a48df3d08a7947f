------------------------------ MODULE FileShapes ------------------------------
(***************************************************************************)
(* What is taken for granted of the contents of the dependency files, once *)
(* they can be read and parsed: tables are sequences, the names in them    *)
(* have the form of their ecosystem, and the parts of a format are there.  *)
(* A file that is not ok may be anything.                                  *)
(***************************************************************************)
EXTENDS PythonManifests, NpmManifests, GoManifests, NugetManifests

IsList(seq, IsOk(_)) == seq \in Seq(Range(seq)) /\ \A x \in Range(seq) : IsOk(x)

\* A list whose tables are lists.
IsNested(seq, IsOk(_)) == IsList(seq, LAMBDA inner : IsList(inner, IsOk))
----------------------------------------------------------------------------
(* Python: a name has a normal form. *)

IsPin(p)      == p.name \in DOMAIN Normal
IsItem(i)     == i.kind = "name" => IsPin(i)
IsItems(seq)  == IsList(seq, IsItem)
IsPinned(seq) == IsList(seq, IsPin)
IsTable(g)    == IsItems(g.items)
IsPinTable(g) == IsPinned(g.items)

\* The files that can be read as lists of requirements, and what they include.
Requirementlike(files) == {n \in DOMAIN files : "lines" \in DOMAIN files[n] /\ files[n].ok}
RequirementsAreLists(files) ==
  /\ Outside \notin DOMAIN files
  /\ \A n \in DOMAIN files :
       n \in {"requirements.txt"} \cup Range(TestRequirements) /\ files[n].ok
         => n \in Requirementlike(files)
  /\ \A n \in Requirementlike(files) :
       /\ IsItems(files[n].lines)
       /\ \A l \in Range(files[n].lines) :
            l.kind = "include" /\ l.target \in DOMAIN files /\ files[l.target].ok
              => l.target \in Requirementlike(files)

IsPyproject(f) ==
  /\ IsItems(f.project) /\ IsItems(f.requires)
  /\ IsPinned(f.poetry) /\ IsPinned(f.poetryDev)
  /\ IsList(f.extras, IsTable) /\ IsList(f.groups, IsTable)
  /\ IsList(f.poetryGroups, IsPinTable)

IsListing(value) == value.form = "list" => IsItems(value.items)
IsExtras(value, bindings) ==
  value.form = "dict" =>
    IsList(value.items, LAMBDA g : IsListing(Deref(g.value, bindings)))
IsSetupPy(f) ==
  IsNested(f.calls, LAMBDA kw :
    /\ kw.arg = "install_requires" => IsListing(Deref(kw.value, f.bindings))
    /\ kw.arg = "extras_require" => IsExtras(Deref(kw.value, f.bindings), f.bindings))

IsLocked(p) ==
  /\ IsPin(p)
  /\ \A S \in {p.requires, p.dev} : S \subseteq DOMAIN Normal /\ IsFiniteSet(S)

IsShell(lines) == IsNested(lines, LAMBDA chunk : chunk.install => IsItems(chunk.words))

\* The keys of tox.ini are pairs of a section and a key.
IsTox(f) ==
  /\ f.order \in Seq(Range(f.order))
  /\ IsFiniteSet(DOMAIN f.sections)
  /\ \A at \in DOMAIN f.sections :
       /\ at = <<at[1], at[2]>> /\ at[1] \in Range(f.order)
       /\ IsItems(f.sections[at])
IsContainers(f) ==
  /\ IsList(f.dockerfiles, LAMBDA d : d.ok => IsShell(d.lines))
  /\ IsList(f.workflows, LAMBDA w : w.ok => IsList(w.jobs, IsShell))
  /\ f.gitlab.ok => IsList(f.gitlab.jobs, IsShell)
  /\ f.tox.ok => IsTox(f.tox)
  /\ f.nox.ok => IsList(f.nox.calls, IsItems)

PythonFile(n, f) ==
  /\ n = "pyproject.toml" => IsPyproject(f)
  /\ n = "setup.py" => IsSetupPy(f)
  /\ n = "setup.cfg" => IsItems(f.install) /\ IsList(f.extras, IsTable)
  /\ n = "Pipfile" => IsPinned(f.packages) /\ IsPinned(f.dev)
  /\ n = "Pipfile.lock" => IsPinned(f.default) /\ IsPinned(f.develop)
  /\ n \in {"poetry.lock", "uv.lock"} => IsList(f.packages, IsLocked)
  /\ n \in {"environment.yml", "environment.yaml"} =>
       IsList(f.items, LAMBDA i : IF i.kind = "pip" THEN IsTable(i) ELSE IsItem(i))
PythonFiles(files) ==
  /\ IsFiniteSet(DOMAIN files)
  /\ RequirementsAreLists(files)
  /\ \A n \in DOMAIN files :
       IF n = "containers and CI" THEN IsContainers(files[n])
       ELSE files[n].ok => PythonFile(n, files[n])
----------------------------------------------------------------------------
(* npm, Go and NuGet: a name is a path. *)

IsNamed(p) == p.name \in Seq(STRING)
AreNamed(seq) == IsList(seq, IsNamed)
HasSections(f) == \A s \in DOMAIN f.sections : AreNamed(f.sections[s])

IsNpmLock(f) ==
  IF f.flat THEN AreNamed(f.table) ELSE HasSections(f) /\ AreNamed(f.packages)
IsYarnLock(f) ==
  IF f.berry THEN AreNamed(f.blocks)
  ELSE IsList(f.lines, LAMBDA l : l.kind = "header" => IsNamed(l))

NpmFile(n, f) ==
  /\ n = "package.json" => HasSections(f) /\ DOMAIN f.sections \subseteq Range(Sections)
  /\ n \in {"package-lock.json", "npm-shrinkwrap.json"} => IsNpmLock(f)
  /\ n = "yarn.lock" => IsYarnLock(f)
  /\ n = "pnpm-lock.yaml" => HasSections(f)
  /\ n = "bun.lock" => AreNamed(f.packages)
  /\ n \in {"deno.json", "deno.jsonc"} => AreNamed(f.imports)
  /\ n = "deno.lock" => AreNamed(f.specifiers)

GoFile(n, f) ==
  n = "go.mod" =>
    IsList(f.lines, LAMBDA l :
      /\ l.kind \in {"single", "item"} => l.item.path \in Seq(STRING)
      /\ l.kind = "open" => l.block # None)

\* A project file that is listed twice is the same file.
IsProjectList(projects) ==
  /\ IsList(projects, LAMBDA p : p.ok => AreNamed(p.references))
  /\ \A p, q \in Range(projects) : p.path = q.path => p = q
NugetFile(n, f) ==
  /\ n = "projects" => IsProjectList(f.found) /\ IsProjectList(f.listed)
  /\ n \in {"packages.config", "packages.lock.json"} => AreNamed(f.packages)

\* What a project of an ecosystem consists of.
IsProject(p) ==
  /\ p.eco = "pypi" => PythonFiles(p.files)
  /\ p.eco = "npm" => \A n \in DOMAIN p.files : p.files[n].ok => NpmFile(n, p.files[n])
  /\ p.eco = "go" => \A n \in DOMAIN p.files : p.files[n].ok => GoFile(n, p.files[n])
  /\ p.eco = "nuget" => \A n \in DOMAIN p.files :
                          n = "projects" \/ p.files[n].ok => NugetFile(n, p.files[n])

\* The normal form of a name is a name.
ASSUME NormalAssumption ==
  /\ \A n \in DOMAIN Normal : Normal[n] \in Seq(STRING)
  /\ <<"python">> \in DOMAIN Normal /\ Normal[<<"python">>] = <<"python">>
=============================================================================
