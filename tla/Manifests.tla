------------------------------ MODULE Manifests ------------------------------
(***************************************************************************)
(* The dependency file coordinators of the four ecosystems: the files that *)
(* are there are read one after another in a fixed order, each adds what   *)
(* it declares, and the last step makes one dependency of every name.      *)
(* The order matters: poetry.lock looks at what pyproject.toml gave,       *)
(* uv.lock replaces the graph, go.sum and packages.lock.json rewrite the   *)
(* versions found before.                                                  *)
(***************************************************************************)
EXTENDS PythonManifests, NpmManifests, GoManifests, NugetManifests

VARIABLES
  project,   \* eco, excludeTests, excludeDev, files: the name of a file -> contents
  todo,      \* the steps ahead
  raw,       \* the entries so far
  graph,     \* python: name -> names, from a lock file
  edges,     \* npm: the edges of the lock files
  notes,     \* errors
  found,     \* rule identifiers of the findings
  declared   \* the dependencies, when all files are read

mvars == <<project, todo, raw, graph, edges, notes, found, declared>>

Order ==
  [pypi |-> <<"requirements.txt", "pyproject.toml", "setup.py", "setup.cfg", "Pipfile",
              "Pipfile.lock", "poetry.lock", "uv.lock", "test requirements",
              "environment.yml", "containers and CI">>,
   npm |-> <<"package.json", "package-lock.json", "npm-shrinkwrap.json", "yarn.lock",
             "pnpm-lock.yaml", "bun.lock", "bun.lockb", "deno.json", "deno.jsonc",
             "deno.lock", ".npmrc">>,
   go |-> <<"go.mod", "go.sum", "vendor/modules.txt">>,
   nuget |-> <<"Directory.Packages.props", "projects", "packages.config",
               "packages.lock.json", "nuget.config">>]

\* environment.yaml is looked at when there is no environment.yml.
CondaFile(files) ==
  IF "environment.yml" \in DOMAIN files THEN "environment.yml" ELSE "environment.yaml"

Present(files, step) ==
  CASE step = "test requirements" -> Range(TestRequirements) \cap DOMAIN files # {}
    [] step = "environment.yml" -> CondaFile(files) \in DOMAIN files
    [] OTHER -> step \in DOMAIN files

MInit(p) ==
  /\ project = p
  /\ todo = Only(Order[p.eco], LAMBDA s : Present(p.files, s))
              \o <<"deduplicate", "hand over">>
  /\ raw = <<>> /\ graph = <<>> /\ edges = <<>>
  /\ notes = {} /\ found = {} /\ declared = <<>>

files == project.files
Turn(eco, step) == project.eco = eco /\ todo # <<>> /\ Head(todo) = step

\* A step that adds entries and notes.
Adds(r) ==
  /\ todo' = Tail(todo)
  /\ raw' = raw \o r.deps
  /\ notes' = notes \cup r.notes
  /\ UNCHANGED <<project, declared>>
----------------------------------------------------------------------------
Python(step, r) == Turn("pypi", step) /\ Adds(r) /\ UNCHANGED <<edges, found>>

RequirementsTxtStep ==
  Python("requirements.txt", Requirements(files, "requirements.txt")) /\ UNCHANGED graph
PyprojectStep ==
  Python("pyproject.toml", PyprojectToml(files["pyproject.toml"])) /\ UNCHANGED graph
SetupPyStep == Python("setup.py", SetupPy(files["setup.py"])) /\ UNCHANGED graph
SetupCfgStep == Python("setup.cfg", SetupCfg(files["setup.cfg"])) /\ UNCHANGED graph
PipfileStep == Python("Pipfile", Pipfile(files["Pipfile"])) /\ UNCHANGED graph
PipfileLockStep ==
  Python("Pipfile.lock", PipfileLock(files["Pipfile.lock"])) /\ UNCHANGED graph
PoetryLockStep ==
  /\ Python("poetry.lock", PoetryLock(files["poetry.lock"], raw))
  /\ graph' = PoetryGraph(files["poetry.lock"])
UvLockStep ==                         \* the graph is assigned, not updated
  /\ Python("uv.lock", UvLock(files["uv.lock"]))
  /\ graph' = UvGraph(files["uv.lock"])
TestRequirementsStep ==
  Python("test requirements", TestRequirementFiles(files)) /\ UNCHANGED graph
EnvironmentStep ==
  Python("environment.yml", EnvironmentYml(files[CondaFile(files)])) /\ UNCHANGED graph
ContainersStep ==
  Python("containers and CI", ContainersAndCi(files["containers and CI"])) /\ UNCHANGED graph

\* --exclude-tests drops labels before duplicates are merged.
DeduplicatePythonStep ==
  LET d == DeduplicatePython(IF project.excludeTests THEN WithoutTests(raw) ELSE raw)
  IN /\ Turn("pypi", "deduplicate")
     /\ declared' = [i \in DOMAIN d.deps |-> DependencyPython(d.deps[i], d.deps)]
     /\ notes' = notes \cup d.notes
     /\ todo' = Tail(todo)
     /\ UNCHANGED <<project, raw, graph, edges, found>>
----------------------------------------------------------------------------
Npm(step, r, rules) ==
  /\ Turn("npm", step)
  /\ Adds(r)
  /\ edges' = edges \o r.edges
  /\ found' = found \cup rules
  /\ UNCHANGED graph

PackageJsonStep ==
  LET f == files["package.json"]
  IN Npm("package.json", PackageJson(f), PackageJsonFindings(f))
NpmLockStep ==
  \E l \in {"package-lock.json", "npm-shrinkwrap.json"} : Npm(l, NpmLockfile(l, files[l]), {})
YarnStep == Npm("yarn.lock", YarnLock(files["yarn.lock"]), {})
PnpmStep == Npm("pnpm-lock.yaml", PnpmLock(files["pnpm-lock.yaml"]), {})
BunStep == Npm("bun.lock", BunLock(files["bun.lock"]), {})
BunLockbStep == Npm("bun.lockb", BunLockb(files), {})
DenoStep == \E d \in {"deno.json", "deno.jsonc"} : Npm(d, DenoJson(d, files[d]), {})
DenoLockStep == Npm("deno.lock", DenoLock(files["deno.lock"]), {})
NpmrcStep ==
  LET f == files[".npmrc"]
  IN Npm(".npmrc", NpmParsed(".npmrc", f, NpmNothing), NpmrcFindings(f))

NpmOverrides ==
  IF "package.json" \in DOMAIN files THEN Overrides(files["package.json"])
  ELSE [out |-> <<>>, notes |-> {}]

\* Duplicates, stubs, the edge cap and the overrides, which come last.
DeduplicateNpmStep ==
  LET d == DeduplicateNpm(IF project.excludeDev THEN WithoutDev(raw) ELSE raw)
  IN /\ Turn("npm", "deduplicate")
     /\ declared' = [i \in DOMAIN d.deps |->
                       DependencyNpm(d.deps[i], PinnedBy(NpmOverrides.out, d.deps[i].name))]
     /\ edges' = Capped(edges)
     /\ notes' = notes \cup d.notes \cup CapNotes(edges) \cup NpmOverrides.notes
     /\ todo' = Tail(todo)
     /\ UNCHANGED <<project, raw, graph, found>>
----------------------------------------------------------------------------
\* The step makes new of the entries so far.
Rewrites(eco, step, new, more, rules) ==
  /\ Turn(eco, step)
  /\ raw' = new
  /\ notes' = notes \cup more
  /\ found' = found \cup rules
  /\ todo' = Tail(todo)
  /\ UNCHANGED <<project, graph, edges, declared>>

IfBad(file) == IF files[file].ok THEN {} ELSE {<<"unreadable", file>>}
DependencyPlain(d) ==
  [name |-> d.name, version |-> d.version, source |-> d.source, transitive |-> FALSE,
   stub |-> FALSE, runtime |-> NoName, status |-> "UNCERTAIN"]
AllPlain(deps) == [i \in DOMAIN deps |-> DependencyPlain(deps[i])]

Hands(eco, deps) ==
  /\ Turn(eco, "deduplicate")
  /\ declared' = AllPlain(deps)
  /\ todo' = Tail(todo)
  /\ UNCHANGED <<project, raw, graph, edges, notes, found>>

GoModStep ==
  LET r == GoMod(files["go.mod"])
  IN Rewrites("go", "go.mod", r.deps, r.notes, GoModFindings(files["go.mod"]))
GoSumStep == Rewrites("go", "go.sum", GoSum(files["go.sum"], raw), IfBad("go.sum"), {})
VendorStep ==
  LET f == files["vendor/modules.txt"]
  IN Rewrites("go", "vendor/modules.txt", Vendored(f, raw), VendorNotes(f, raw), {})
DeduplicateGoStep == Hands("go", DeduplicateGo(raw).deps)

PropsStep ==
  Rewrites("nuget", "Directory.Packages.props", raw, IfBad("Directory.Packages.props"), {})
ProjectsStep ==
  LET f == files["projects"]
      r == ProjectFiles(f, CentralVersions(files))
  IN Rewrites("nuget", "projects", r.deps, r.notes, BuildFindings(f))
PackagesConfigStep ==
  Rewrites("nuget", "packages.config", PackagesConfig(files["packages.config"], raw),
           IfBad("packages.config"), {})
PackagesLockStep ==
  Rewrites("nuget", "packages.lock.json", PackagesLock(files["packages.lock.json"], raw),
           IfBad("packages.lock.json"), {})
NugetConfigStep ==
  Rewrites("nuget", "nuget.config", raw, IfBad("nuget.config"),
           NugetConfigFindings(files["nuget.config"]))
HandNuget == Hands("nuget", raw)
----------------------------------------------------------------------------
PythonStep ==
  \/ RequirementsTxtStep \/ PyprojectStep \/ SetupPyStep \/ SetupCfgStep \/ PipfileStep
  \/ PipfileLockStep \/ PoetryLockStep \/ UvLockStep \/ TestRequirementsStep
  \/ EnvironmentStep \/ ContainersStep \/ DeduplicatePythonStep
NpmStep ==
  \/ PackageJsonStep \/ NpmLockStep \/ YarnStep \/ PnpmStep \/ BunStep \/ BunLockbStep
  \/ DenoStep \/ DenoLockStep \/ NpmrcStep \/ DeduplicateNpmStep
GoStep == GoModStep \/ GoSumStep \/ VendorStep \/ DeduplicateGoStep
NugetStep == PropsStep \/ ProjectsStep \/ PackagesConfigStep \/ PackagesLockStep
             \/ NugetConfigStep \/ HandNuget

MStep == PythonStep \/ NpmStep \/ GoStep \/ NugetStep
=============================================================================
