---------------------------- MODULE NugetManifests ----------------------------
(* Solutions, project files, packages.config, packages.lock.json and the     *)
(* two configuration files (analysers/csharp/dep_file_parser.py).  Unlike in *)
(* the other ecosystems each file adds to the table of the ones before it.   *)
EXTENDS DependencyFiles

\* Directory.Packages.props: the last PackageVersion of a name counts.
CentralVersions(files) ==
  IF "Directory.Packages.props" \in DOMAIN files /\ files["Directory.Packages.props"].ok
  THEN FoldLeft(LAMBDA m, p : p.name :> p.version @@ m, <<>>,
                files["Directory.Packages.props"].versions)
  ELSE <<>>

\* _discover_projects: the existing projects of the first solution, those
\* inside the project; without a solution all files that no build made.
\* A project that is listed twice is read once.
ProjectsOf(f) ==
  CASE f.solution = "none" -> Only(f.found, LAMBDA p : ~ p.built)
    [] f.solution = "read" -> Only(f.listed, LAMBDA p : p.exists /\ ~ p.outside)
    [] OTHER -> <<>>
Visited(projects, i) == \E j \in 1..(i - 1) : projects[j].path = projects[i].path

\* VersionOverride or Version, then the child element, then the central one.
ReferenceVersion(ref, central) ==
  CASE ref.override # None -> ref.override
    [] ref.override = None /\ ref.attribute # None -> ref.attribute
    [] ref.override = None /\ ref.attribute = None /\ ref.child # None -> ref.child
    [] OTHER -> IF ref.name \in DOMAIN central THEN central[ref.name] ELSE None

AddNew(deps, e) == IF PositionOf(deps, e.name) = {} THEN Append(deps, e) ELSE deps

\* What one project references.
ProjectFile(p, central) ==
  Parsed(p.path, p,
    Each(p.references, LAMBDA ref : One(ref.name, ReferenceVersion(ref, central),
                                        Label(p.path, "PackageReference", None))))

\* The first project that references a package decides.
ProjectFiles(f, central) ==
  LET projects == ProjectsOf(f)
      all == All([i \in DOMAIN projects |->
                    IF Visited(projects, i) THEN Nothing ELSE ProjectFile(projects[i], central)])
      outside == CASE f.solution = "unreadable" -> {<<"unreadable", "solution">>}
                   [] f.solution = "read" /\ \E p \in Range(f.listed) : p.outside ->
                        {<<"escape", "solution">>}
                   [] OTHER -> {}
  IN [deps |-> FoldLeft(AddNew, <<>>, all.deps), notes |-> outside \cup all.notes]

\* TS-SI-016 and TS-SI-017: commands and tasks of a build.
BuildFindings(f) ==
  UNION {IF p.ok THEN p.tasks ELSE {} : p \in Range(ProjectsOf(f))}

PackagesConfig(f, deps) ==
  IF f.ok THEN FoldLeft(AddNew, deps, Entries(f.packages, Of("packages.config"))) ELSE deps

\* What a lock file resolved: the version of a known package, or a package of
\* its own, direct or transitive.
Resolve(deps, p) ==
  IF PositionOf(deps, p.name) = {}
  THEN Append(deps, Entry(p.name, p.version, Of("packages.lock.json")))
  ELSE [i \in DOMAIN deps |-> IF deps[i].name = p.name
                              THEN [deps[i] EXCEPT !.version = p.version] ELSE deps[i]]
PackagesLock(f, deps) == IF f.ok THEN FoldLeft(Resolve, deps, f.packages) ELSE deps

\* TS-SI-015: a package source that is not NuGet's own.
NugetConfigFindings(f) == IF f.ok /\ "other" \in f.sources THEN {"TS-SI-015"} ELSE {}
=============================================================================
