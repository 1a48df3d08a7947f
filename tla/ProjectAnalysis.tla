--------------------------- MODULE ProjectAnalysis ---------------------------
(***************************************************************************)
(* The analyse() method of the python, javascript, go and csharp           *)
(* analysers: the dependency files are read first (Manifests), and what    *)
(* they declare is then judged by the source files (SourceVerdicts).  A    *)
(* scenario has in its field manifests what Manifests starts from.         *)
(***************************************************************************)
EXTENDS Manifests, FileShapes, SourceVerdicts

ASSUME ManifestAssumption ==
  \A s \in Scenarios :
    /\ {"eco", "mode", "files", "deps", "graph", "locked", "commands"} \subseteq DOMAIN s
    /\ s.manifests.eco = s.eco /\ IsProject(s.manifests)

AInit == Init /\ MInit(in.manifests)

\* The graph of a lock file, with an empty set for the names that have none.
Names0(g) == DOMAIN g \cup (UNION Range(g)) \cup {declared[i].name : i \in DOMAIN declared}
Total(g) == [n \in Names0(g) |-> IF n \in DOMAIN g THEN g[n] ELSE {}]

\* Only Python's analyser passes a graph on; npm's edges stay behind.
HandOver ==
  /\ Turn(project.eco, "hand over")
  /\ in' = [in EXCEPT !.deps = declared, !.graph = Total(graph), !.locked = DOMAIN graph # {}]
  /\ status' = [d \in DOMAIN declared |-> declared[d].status]
  /\ todo' = <<>>
  /\ UNCHANGED <<project, raw, graph, edges, notes, found, declared>>
  /\ UNCHANGED <<pc, k, facts, weak, promoted, matched, undeclared>>

ReadManifest == MStep /\ UNCHANGED vars
ReadSources == todo = <<>> /\ Next /\ UNCHANGED mvars

ANext == ReadManifest \/ HandOver \/ ReadSources
ASpec == AInit /\ [][ANext]_<<vars, mvars>>
----------------------------------------------------------------------------
(* What is owed to the dependency files, stated over the files themselves. *)

There(file) == file \in DOMAIN files /\ files[file].ok
NameItems(items) == {i.name : i \in {x \in Range(items) : x.kind = "name"}}
Pinned(pins) == {p.name : p \in Range(pins)}

\* The include graph, the graph of the dependency groups and that of the
\* references in tox.ini, each with the nodes that the parsers start from.
Readable == Requirementlike(files)
RequirementGraph ==
  [n \in DOMAIN files |->
     IF n \in Readable
     THEN {l.target : l \in {x \in Range(files[n].lines) :
                               x.kind = "include" /\ x.target \in DOMAIN files}}
     ELSE {}]
RequirementStarts == ({"requirements.txt"} \cup Range(TestRequirements)) \cap DOMAIN files

Groups == IF There("pyproject.toml") THEN files["pyproject.toml"].groups ELSE <<>>
GroupGraph ==
  [n \in GroupNames(Groups) |->
     IF HasGroup(Groups, n) THEN IncludedGroups(GroupOf(Groups, n)) ELSE {}]
GroupStarts == {g.name : g \in Range(Groups)}

ToxValues ==
  IF "containers and CI" \in DOMAIN files /\ files["containers and CI"].tox.ok
  THEN files["containers and CI"].tox.sections ELSE <<>>
ToxGraph ==
  [at \in DOMAIN ToxValues |->
     {i.target : i \in {x \in Range(ToxValues[at]) : x.kind = "ref"}} \cap DOMAIN ToxValues]
ToxStarts ==
  {at \in DOMAIN ToxValues : at[1] \in ToxEnvironments /\ at[2] \in {"deps", "requires"}}

\* Below(g, S), from SourceVerdicts, is what can be reached in g from S.
Cyclic(g, starts) == \E n \in Below(g, starts) : n \in Below(g, g[n])
Shallow(g, starts) == \A n \in starts : Cardinality(Below(g, {n})) <= MaxDepth
Notes(kind) == {n \in notes : n[1] = kind}

\* A cycle of includes, of included groups or of references in tox.ini is
\* reported exactly when there is one on the way from what is read; something
\* that is met twice on different ways is none.
CyclesAreNoted ==
  todo = <<>> /\ project.eco = "pypi" =>
    /\ Shallow(RequirementGraph, RequirementStarts) =>
         (Cyclic(RequirementGraph, RequirementStarts) <=> Notes("cycle") # {})
    /\ Shallow(GroupGraph, GroupStarts) =>
         (Cyclic(GroupGraph, GroupStarts) <=> Notes("group cycle") # {})
    /\ Shallow(ToxGraph, ToxStarts) =>
         (Cyclic(ToxGraph, ToxStarts) <=> Notes("tox cycle") # {})

\* The line of go.mod that opens the block line i is in, if there is one, and
\* the lines that are a directive of a kind.
Opener(lines, i) ==
  {j \in 1..(i - 1) : /\ lines[j].kind = "open"
                      /\ \A l \in (j + 1)..(i - 1) : lines[l].kind \notin {"open", "close"}}
Stated(lines, block) ==
  {i \in DOMAIN lines :
     \/ lines[i].kind = "single" /\ lines[i].block = block /\ Opener(lines, i) = {}
     \/ lines[i].kind = "item" /\ \E j \in Opener(lines, i) : lines[j].block = block}

\* The names that manifests, not lock files, declare and no option drops.
InRequirements ==
  UNION {NameItems(files[n].lines) : n \in Readable \cap
           Below(RequirementGraph, IF project.excludeTests
                                   THEN {"requirements.txt"} \cap DOMAIN files
                                   ELSE RequirementStarts)}
InPyproject ==
  IF There("pyproject.toml")
  THEN LET f == files["pyproject.toml"]
       IN NameItems(f.project) \cup NameItems(f.requires) \cup Pinned(f.poetry)
  ELSE {}
InSetupCfg == IF There("setup.cfg") THEN NameItems(files["setup.cfg"].install) ELSE {}
InPipfile == IF There("Pipfile") THEN Pinned(files["Pipfile"].packages) ELSE {}
DeclaredPython == InRequirements \cup InPyproject \cup InSetupCfg \cup InPipfile
DeclaredNpm ==
  IF There("package.json")
  THEN LET s == files["package.json"].sections
       IN UNION {Pinned(s[x]) : x \in DOMAIN s \ (IF project.excludeDev
                                                  THEN {"devDependencies"} ELSE {})}
  ELSE {}
DeclaredGo ==
  IF There("go.mod")
  THEN LET l == files["go.mod"].lines
       IN {l[i].item.path : i \in Stated(l, "require")}
            \ {l[i].item.path : i \in Stated(l, "exclude")}
  ELSE {}
DeclaredNuget ==
  IF "projects" \in DOMAIN files
  THEN UNION {NameItems(p.references) : p \in
                {x \in Range(ProjectsOf(files["projects"])) : x.ok}}
  ELSE {}

Expected ==
  CASE project.eco = "pypi" -> {Normal[n] : n \in DeclaredPython} \ (Stdlib \cup {<<"python">>})
    [] project.eco = "npm"  -> DeclaredNpm \ (NotNpm \cup {NoName})
    [] project.eco = "go"   -> DeclaredGo
    [] OTHER                -> DeclaredNuget

\* What a manifest declares reaches the verdicts exactly once and as a direct
\* dependency, whatever the lock files say of it: a name lost here is never
\* judged, one that counts as transitive is judged by its parents alone.  And
\* what reaches the verdicts has the shape they take for granted.
NothingDeclaredIsLost ==
  todo = <<>> =>
    /\ IsScenario(in)
    /\ Notes("depth") = {} =>
         \A n \in Expected :
           \E d \in DOMAIN in.deps : /\ in.deps[d].name = n
                                     /\ ~ in.deps[d].transitive
                                     /\ \A x \in DOMAIN in.deps \ {d} : in.deps[x].name # n

Rank(from) == IF project.eco = "pypi" THEN PythonRank(from) ELSE NpmRank(from)
NameOf(e) == IF project.eco = "pypi" THEN Normal[e.name] ELSE e.name
Considered ==
  CASE project.eco = "pypi" /\ project.excludeTests -> Range(WithoutTests(raw))
    [] project.eco = "npm" /\ project.excludeDev -> Range(WithoutDev(raw))
    [] OTHER -> Range(raw)

\* Of several sources of one name the report shows the strongest, in whatever
\* order they were read, and its version when it gives only one.
StrongestSourceOwns ==
  todo = <<>> /\ project.eco \in {"pypi", "npm"} =>
    \A d \in DOMAIN in.deps :
      LET mine == {e \in Considered : NameOf(e) = in.deps[d].name}
          best == {e \in mine : \A x \in mine : Rank(x.source) <= Rank(e.source)}
      IN /\ \E e \in best : e.source = in.deps[d].source
         /\ \A e \in best : e.version # None /\ (\A x \in best : x.version = e.version)
                              => in.deps[d].version = e.version

\* "A package reachable only as a transitive of something you use is kept":
\* the edges of an npm lock file lead from no used package to a SAFE one.
TransitiveOfUsedIsKept ==
  pc = "done" =>
    \A p, d \in DOMAIN in.deps :
      /\ status[p] = "IN_USE"
      /\ \E e \in Range(edges) : e.parent = in.deps[p].name /\ e.child = in.deps[d].name
      => status[d] # "SAFE"
=============================================================================
