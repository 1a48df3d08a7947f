--------------------------- MODULE SourceVerdicts ---------------------------
(***************************************************************************)
(* What the four source analysers (python, javascript, go and csharp) make *)
(* of a project: the files that discovery returned are read one after      *)
(* another, what they name is collected, and every declared dependency     *)
(* gets its status from it.  A dependency left SAFE is advice to delete    *)
(* it, so evidence that is dropped on the way breaks somebody's build.     *)
(*                                                                         *)
(* Names and import targets are paths, sequences of segments: "lodash/x"   *)
(* is <<"lodash", "x">>, a Python module or a PyPI name has one segment.   *)
(* A source file is the set of its import sites [form, path] in the forms  *)
(* its parser distinguishes.                                               *)
(***************************************************************************)
EXTENDS Naturals, Sequences, FiniteSets, SequencesExt

CONSTANTS
  Scenarios,   \* what an analyser may be given: records, see ScenarioAssumption
  Canon,       \* python: what _normalise makes of an import name
  Aliases,     \* python: the table IMPORT_ALIASES, pairs <<import, name>>
  Installed,   \* python: name -> import names, of what is beside scarno itself
  DistInfos,   \* python: the dist-info directories of the project's virtualenv
  Private,     \* import names that begin with "_"
  ToolPackage, \* python: CLI_TOOL_TO_PACKAGE, pairs <<command, name>>
  Builtin,     \* the modules that come with the language
  Scopes       \* npm: first segments that begin with "@"

Modes   == {"include", "uncertain", "exclude"}
Classes == {"tracked", "ignored", "named", "named_ignored"}
Path    == Seq(STRING)

\* What the parsers of an ecosystem tell apart.
Forms(eco) ==
  IF eco = "pypi" THEN {"import", "wildcard", "import_module", "import_module(x)", "magic"}
  ELSE IF eco = "npm" THEN {"import", "require", "require(x)", "declare module", "export from"}
  ELSE IF eco = "go" THEN {"import", "blank"}
  ELSE {"using", "using static", "using alias"}

IsFile(f, eco) ==
  /\ f.class \in Classes
  /\ \A x \in f.sites : x.path \in Path /\ x.form \in Forms(eco)

IsDependency(d) ==
  /\ d.name \in Path
  /\ d.status \in {"SAFE", "UNCERTAIN", "IN_USE"}

IsGraph(g, names) ==
  /\ IsFiniteSet(DOMAIN g)
  /\ names \subseteq DOMAIN g
  /\ \A n \in DOMAIN g : g[n] \subseteq DOMAIN g

\* Only a lock file of Python brings a graph, which has all names.
IsScenario(s) ==
  /\ s.eco \in {"pypi", "npm", "go", "nuget"}
  /\ s.mode \in Modes
  /\ s.files \in Seq(Range(s.files)) /\ \A f \in Range(s.files) : IsFile(f, s.eco)
  /\ s.deps \in Seq(Range(s.deps)) /\ \A d \in Range(s.deps) : IsDependency(d)
  /\ s.eco = "pypi" /\ s.locked => IsGraph(s.graph, {d.name : d \in Range(s.deps)})
  /\ \A c \in s.commands : c.at \in {"CMD", "RUN", "Procfile", "script"}

ASSUME ScenarioAssumption == \A s \in Scenarios : IsScenario(s)
ASSUME AliasAssumption == Aliases \subseteq Path \X Path

VARIABLES
  in,          \* the scenario: eco, mode, deps, files, graph, locals ...
  pc,          \* scan, classify, upgrade, downgrade, resolve, undeclared, done
  k,           \* the next file, then the next dependency
  facts,       \* what the files that count have named
  weak,        \* what only gitignored files have named (pypi, npm, go, nuget)
  status,      \* the status of each dependency
  promoted,    \* transitives that the source imports itself
  matched,     \* imports that a dependency has claimed
  undeclared   \* the UNDECLARED entries: pairs <<name, import>>

vars == <<in, pc, k, facts, weak, status, promoted, matched, undeclared>>

NoFacts == [static |-> {}, literal |-> {}, dynamic |-> FALSE]

Under(p, i) == IsPrefix(p, i)          \* i is p, or a part of it

\* _is_stdlib, _is_shared_framework, _NODE_CORE_MODULES, _STDLIB_NAMES.
IsBuiltin(i) == \E b \in Builtin : Under(b, i)

Targets(f, forms) == {s.path : s \in {x \in f.sites : x.form \in forms}}
Has(f, form) == \E s \in f.sites : s.form = form

\* DiscoveredFiles.for_classification: the files with full weight.
Counts(f) == f.class = "tracked" \/ (f.class = "ignored" /\ in.mode = "include")

\* Files whose evidence can only turn SAFE into UNCERTAIN.
OnlyIgnored(f) == f.class = "ignored" /\ in.mode = "uncertain"

\* In C#, generated code below obj/ is such evidence even when .gitignore is
\* not looked at.
OnlyIgnoredCsharp(f) ==
  OnlyIgnored(f) \/ (f.class = "named_ignored" /\ in.mode # "exclude")

Plus(a, b) == [static  |-> a.static \cup b.static,
               literal |-> a.literal \cup b.literal,
               dynamic |-> a.dynamic \/ b.dynamic]
----------------------------------------------------------------------------
(* What one file names. *)

\* visit_Import, visit_ImportFrom: the top module; a wildcard import is an
\* import of its module, a relative one ("from .") is of none.
ImportsPython(f) == Targets(f, {"import", "wildcard"})

\* visit_Call: __import__, import_module and find_spec, with or without a
\* literal name.
CallsPython(f) == Targets(f, {"import_module"})
NonLiteral(f)  == Has(f, "import_module(x)")

\* A notebook is read like a module made of its code cells, its magic lines
\* ("!pip", "%load") taken out.
Text(f) == [sites |-> {s \in f.sites : f.notebook => s.form # "magic"}]

FactsPython(f) ==
  [static  |-> ImportsPython(Text(f)),
   literal |-> CallsPython(Text(f)),
   dynamic |-> NonLiteral(Text(f))]

\* _extract_package_name: local files and node's own modules are no package,
\* a scoped package has two segments.
Package(spec) ==
  IF spec = <<>> \/ spec[1] = "." \/ IsBuiltin(spec) THEN {}
  ELSE {SubSeq(spec, 1, IF spec[1] \in Scopes /\ Len(spec) > 1 THEN 2 ELSE 1)}

Packages(f, forms) == UNION {Package(p) : p \in Targets(f, forms)}

StaticImports(f) == Packages(f, {"import"})            \* type imports too
Literals(f)      == Packages(f, {"require"})           \* require(), import()
Ambient(f)       == Packages(f, {"declare module"})

\* The walk looks at import statements, calls and ambient modules;
\* "export ... from" is none of these.
FactsNpm(f) ==
  [static  |-> StaticImports(f),
   literal |-> Literals(f),
   dynamic |-> Has(f, "require(x)")]

\* _extract_import_spec: blank and dot imports count, the standard library
\* does not.
FactsGo(f) ==
  [static  |-> {p \in Targets(f, {"import", "blank"}) : ~ IsBuiltin(p)},
   literal |-> {}, dynamic |-> FALSE]

\* _extract_using: plain, static and alias forms, the namespace they name.
FactsUsing(f) ==
  [static  |-> Targets(f, {"using", "using static", "using alias"}),
   literal |-> {}, dynamic |-> FALSE]

\* A Razor view is matched line by line: of "@using static X" the expression
\* takes the word "static" for the namespace, of "@using A = X" the alias.
Misread(form) == IF form = "using static" THEN <<"static">> ELSE <<"A">>
FactsRazor(f) ==
  [NoFacts EXCEPT !.static =
     Targets(f, {"using"}) \cup {Misread(s.form) : s \in {x \in f.sites : x.form # "using"}}]
FactsCsharp(f) == IF f.razor THEN FactsRazor(f) ELSE FactsUsing(f)
----------------------------------------------------------------------------
Init ==
  /\ in \in Scenarios
  /\ pc = "scan"
  /\ k = 1
  /\ facts = NoFacts
  /\ weak = NoFacts
  /\ status = [d \in DOMAIN in.deps |-> in.deps[d].status]
  /\ promoted = {}
  /\ matched = {}
  /\ undeclared = {}

\* One file: what it names goes to facts, to weak, or nowhere.  A file that
\* cannot be read or parsed names nothing.
Read(f, named, onlyIgnored) ==
  /\ facts' = IF f.parses /\ Counts(f) THEN Plus(facts, named) ELSE facts
  /\ weak' = IF f.parses /\ onlyIgnored THEN Plus(weak, named) ELSE weak

ScanNext(eco) == pc = "scan" /\ in.eco = eco /\ k <= Len(in.files)

Scanning == /\ k' = k + 1
            /\ UNCHANGED <<in, pc, status, promoted, matched, undeclared>>

\* Mutant of ScanPython: what gitignored files name is not collected.
ScanPythonTracked ==
  /\ ScanNext("pypi")
  /\ Read(in.files[k], FactsPython(in.files[k]), FALSE)
  /\ Scanning

ScanPython ==
  /\ ScanNext("pypi")
  /\ LET f == in.files[k] IN Read(f, FactsPython(f), OnlyIgnored(f))
  /\ Scanning

\* Ambient modules are kept with the static ones; they are not local aliases
\* even when tsconfig.json gives an alias the same name.
NotLocal(i) == ~ \E a \in in.locals : Under(a, i)

ScanNpm ==
  /\ ScanNext("npm")
  /\ LET f == in.files[k]
         n == FactsNpm(f)
         named == [static  |-> {i \in n.static : NotLocal(i)} \cup Ambient(f),
                   literal |-> {i \in n.literal : NotLocal(i)},
                   dynamic |-> n.dynamic]
         seen  == [named EXCEPT !.static = {i \in @ : NotLocal(i)}]
     IN Read(f, IF OnlyIgnored(f) THEN seen ELSE named, OnlyIgnored(f))
  /\ Scanning

ScanGo ==
  /\ ScanNext("go")
  /\ LET f == in.files[k] IN Read(f, FactsGo(f), OnlyIgnored(f))
  /\ Scanning

ScanCsharp ==
  /\ ScanNext("nuget")
  /\ LET f == in.files[k] IN Read(f, FactsCsharp(f), OnlyIgnoredCsharp(f))
  /\ Scanning

Scanned ==
  /\ pc = "scan"
  /\ k > Len(in.files)
  /\ pc' = "classify"
  /\ k' = 1
  /\ UNCHANGED <<in, facts, weak, status, promoted, matched, undeclared>>
----------------------------------------------------------------------------
(* One dependency. *)

\* _build_venv_dist_imports_map: top_level.txt is believed when there is one,
\* otherwise what RECORD lists, private names excepted.
VenvImports(d) == IF d.topLevel # {} THEN d.topLevel ELSE d.record \ Private

\* _merge_dist_maps: what the virtualenv says is added to what is installed.
Metadata(name) ==
  UNION ({VenvImports(d) : d \in {x \in DistInfos : x.name = name}}
           \cup {Installed[n] : n \in DOMAIN Installed \cap {name}})

\* _import_matches_dep: the canonical form of the import is compared with the
\* name and looked up in the table and in the metadata, whose keys are import
\* names as they are written.
Matches(i, name) ==
  \/ Canon[i] = name
  \/ <<Canon[i], name>> \in Aliases
  \/ Canon[i] \in Metadata(name)

\* _find_import_name: the first match in the order of a Python set.
Found(name, imports) == {i \in imports : Matches(i, name)}
AMatch(name, imports) ==
  IF Found(name, imports) = {} THEN {{}} ELSE {{i} : i \in Found(name, imports)}

VerdictPython(name) ==
  IF Found(name, facts.static \cup facts.literal) # {} THEN "IN_USE"
  ELSE IF facts.dynamic THEN "UNCERTAIN" ELSE "SAFE"

VerdictNpm(name) ==
  IF name \in facts.static \cup facts.literal THEN "IN_USE"
  ELSE IF facts.dynamic THEN "UNCERTAIN" ELSE "SAFE"

\* Go and C#: a dependency owns every path below its name.
UsedIn(name, fs) == \E i \in fs.static : Under(name, i)

VerdictPath(name) ==
  IF UsedIn(name, facts) THEN "IN_USE"
  ELSE IF UsedIn(name, weak) THEN "UNCERTAIN" ELSE "SAFE"

ClassifyNext(eco) == pc = "classify" /\ in.eco = eco /\ k <= Len(in.deps)

Classified(s, m) ==
  /\ status' = [status EXCEPT ![k] = s]
  /\ matched' = matched \cup m
  /\ k' = k + 1
  /\ UNCHANGED <<in, pc, facts, weak, undeclared>>

\* A type stub keeps the status its parser gave it.  A transitive dependency
\* is left to the graph unless the source imports it itself.
ClassifyPython ==
  /\ ClassifyNext("pypi")
  /\ LET d == in.deps[k]
         used == Found(d.name, facts.static) # {}
     IN \E m \in AMatch(d.name, facts.static), l \in AMatch(d.name, facts.literal) :
          IF d.stub \/ (d.transitive /\ ~ used)
          THEN Classified(d.status, {}) /\ UNCHANGED promoted
          ELSE IF d.transitive
          THEN Classified("IN_USE", m) /\ promoted' = promoted \cup {k}
          ELSE Classified(VerdictPython(d.name), m \cup l) /\ UNCHANGED promoted

RuntimeInUse(name) ==
  \E d \in Range(in.deps) : /\ d.name = name
                            /\ ~ d.stub
                            /\ VerdictNpm(name) = "IN_USE"

\* A type stub is in use exactly when the package it describes is.
ClassifyNpm ==
  /\ ClassifyNext("npm")
  /\ LET d == in.deps[k]
         v == VerdictNpm(d.name)
     IN IF d.stub
        THEN Classified(IF RuntimeInUse(d.runtime) THEN "IN_USE" ELSE "SAFE", {})
        ELSE Classified(v, IF v = "IN_USE" THEN {d.name} ELSE {})
  /\ UNCHANGED promoted

ClassifyGo ==
  /\ ClassifyNext("go")
  /\ LET v == VerdictPath(in.deps[k].name)
     IN Classified(v, IF v = "IN_USE" THEN {in.deps[k].name} ELSE {})
  /\ UNCHANGED promoted

ClassifyCsharp ==
  /\ ClassifyNext("nuget")
  /\ LET v == VerdictPath(in.deps[k].name)
     IN Classified(v, IF v = "IN_USE" THEN {in.deps[k].name} ELSE {})
  /\ UNCHANGED promoted

AllClassified ==
  /\ pc = "classify"
  /\ k > Len(in.deps)
  /\ pc' = IF in.eco = "pypi" THEN "upgrade"
           ELSE IF in.eco = "npm" THEN "downgrade" ELSE "undeclared"
  /\ UNCHANGED <<in, k, facts, weak, status, promoted, matched, undeclared>>
----------------------------------------------------------------------------
(* What follows the loop over the dependencies. *)

Rest == UNCHANGED <<in, k, facts, weak, promoted, matched, undeclared>>

Wrappers == {"exec", "sudo", "env", "nohup"}
Basename(path) == <<path[Len(path)]>>

\* _extract_command_word: of a JSON list the first string as it stands, of a
\* shell line the first word that is no wrapper, without its directory.
CommandWord(c) ==
  IF c.json THEN {c.words[1]}
  ELSE {Basename(c.words[i]) : i \in
          {j \in DOMAIN c.words : /\ c.words[j] \notin {<<w>> : w \in Wrappers}
                                  /\ \A l \in 1..(j - 1) :
                                       c.words[l] \in {<<w>> : w \in Wrappers}}}

Known(words) == {t[2] : t \in {x \in ToolPackage : x[1] \in words}}
Commands(at) == UNION {CommandWord(c) : c \in {x \in in.commands : x.at \in at}}

FromDockerfiles == Known(Commands({"CMD"}))        \* CMD and ENTRYPOINT, not RUN
FromProcfile    == Known(Commands({"Procfile"}))
FromScripts     == Known(Commands({"script"}))
FromPyproject   == {<<m[1]>> : m \in in.scripts}     \* [project.scripts]

CliTools == FromDockerfiles \cup FromProcfile \cup FromScripts
              \cup FromPyproject \cup in.configs     \* by their configuration file

UpgradeCliTools ==
  /\ pc = "upgrade"
  /\ status' = [d \in DOMAIN in.deps |->
                  IF /\ status[d] = "SAFE"
                     /\ ~ in.deps[d].transitive
                     /\ in.deps[d].name \in CliTools
                  THEN "IN_USE" ELSE status[d]]
  /\ pc' = "downgrade"
  /\ Rest

\* FR-278, Python: named evidence of gitignored files, transitives excepted.
DowngradePython ==
  /\ pc = "downgrade" /\ in.eco = "pypi"
  /\ status' = [d \in DOMAIN in.deps |->
                  IF /\ status[d] = "SAFE"
                     /\ ~ in.deps[d].transitive /\ ~ in.deps[d].stub
                     /\ Found(in.deps[d].name, weak.static \cup weak.literal) # {}
                  THEN "UNCERTAIN" ELSE status[d]]
  /\ pc' = "resolve"
  /\ Rest

\* FR-278, npm: a stub follows its runtime package.
DowngradeNpm ==
  /\ pc = "downgrade" /\ in.eco = "npm"
  /\ status' = [d \in DOMAIN in.deps |->
                  IF /\ status[d] = "SAFE"
                     /\ (IF in.deps[d].stub THEN in.deps[d].runtime ELSE in.deps[d].name)
                          \in weak.static \cup weak.literal
                  THEN "UNCERTAIN" ELSE status[d]]
  /\ pc' = "undeclared"
  /\ Rest

Direct(d) == ~ in.deps[d].transitive /\ ~ in.deps[d].stub

\* _transitive_closure: S and the names below it in the graph g.
Below(g, S) ==
  LET reach[X \in SUBSET DOMAIN g] ==
        LET Y == X \cup UNION {g[n] : n \in X} IN IF Y = X THEN X ELSE reach[Y]
  IN reach[S]

Parents(d) ==
  {p \in DOMAIN in.deps :
     /\ Direct(p)
     /\ in.deps[p].name # in.deps[d].name
     /\ in.deps[d].name \in Below(in.graph, {in.deps[p].name})}

\* Mutant of Resolved: only the parents' own children are looked at.
ResolvedShallow(d) ==
  LET P == {p \in DOMAIN in.deps : Direct(p) /\ in.deps[d].name \in in.graph[in.deps[p].name]}
  IN IF \E p \in P : status[p] = "IN_USE" THEN "IN_USE"
     ELSE IF \E p \in P : status[p] = "UNCERTAIN" THEN "UNCERTAIN" ELSE "SAFE"

\* classify_canonical: the strongest of the direct dependencies that require it.
Resolved(d) ==
  IF \E p \in Parents(d) : status[p] = "IN_USE" THEN "IN_USE"
  ELSE IF \E p \in Parents(d) : status[p] = "UNCERTAIN" THEN "UNCERTAIN" ELSE "SAFE"

ResolveTransitives ==
  /\ pc = "resolve"
  /\ status' = [d \in DOMAIN in.deps |->
                  IF in.locked /\ in.deps[d].transitive /\ d \notin promoted
                  THEN Resolved(d) ELSE status[d]]
  /\ pc' = "undeclared"
  /\ Rest

Declared == {in.deps[d].name : d \in DOMAIN in.deps}

ReportUndeclared(eco, entries) ==
  /\ pc = "undeclared" /\ in.eco = eco
  /\ undeclared' = entries
  /\ pc' = "done"
  /\ UNCHANGED <<in, k, facts, weak, status, promoted, matched>>

\* _resolve_import_to_distribution: what the metadata says of an import name,
\* else what the table says, else the name itself.
Distribution(i) ==
  LET installed == {n \in DOMAIN Installed : i \in Installed[n]}
      aliased == {a[2] : a \in {x \in Aliases : x[1] = Canon[i]}}
  IN CASE installed # {} -> CHOOSE n \in installed : TRUE
       [] installed = {} /\ aliased # {} -> CHOOSE n \in aliased : TRUE
       [] OTHER -> Canon[i]

\* One entry for each name: the import that comes first in a set is shown.
OnePer(Name(_), imports) ==
  {{<<n, rep[n]>> : n \in DOMAIN rep} :
     rep \in {r \in [{Name(i) : i \in imports} -> imports] :
                \A n \in DOMAIN r : Name(r[n]) = n}}

\* Only imports that some dependency was matched by are left out, not all
\* those it provides; of two imports of one distribution one is reported.
UndeclaredPython ==
  /\ pc = "undeclared" /\ in.eco = "pypi"
  /\ LET Cand == {i \in facts.static : /\ ~ IsBuiltin(Canon[i])
                                       /\ Canon[i] \notin {Canon[m] : m \in matched}
                                       /\ Canon[i] \notin Declared
                                       /\ Distribution(i) \notin Declared}
     IN \E entries \in OnePer(Distribution, Cand) : ReportUndeclared("pypi", entries)

UndeclaredNpm ==
  ReportUndeclared("npm", {<<i, i>> : i \in facts.static \ (matched \cup Declared)})

\* _guess_module_root: three segments.
ModuleRoot(i) == IF Len(i) >= 3 THEN SubSeq(i, 1, 3) ELSE i

UndeclaredGo ==
  \E entries \in OnePer(ModuleRoot,
       {x \in facts.static : /\ ModuleRoot(x) \notin matched \cup Declared
                             /\ x \notin matched \cup Declared}) :
    ReportUndeclared("go", entries)

\* Mutant of UndeclaredCsharp: only the exact namespace counts as declared.
UndeclaredCsharpExact ==
  ReportUndeclared("nuget",
    {<<i, i>> : i \in {x \in facts.static : x \notin Declared /\ ~ IsBuiltin(x)}})

UndeclaredCsharp ==
  ReportUndeclared("nuget",
    {<<i, i>> : i \in {x \in facts.static :
       /\ ~ IsBuiltin(x)
       /\ ~ \E n \in Declared : Under(n, x)}})

Returned == pc = "done" /\ UNCHANGED vars

Scan == ScanPython \/ ScanNpm \/ ScanGo \/ ScanCsharp \/ Scanned
Classify == \/ ClassifyPython \/ ClassifyNpm \/ ClassifyGo \/ ClassifyCsharp
            \/ AllClassified
Finish == \/ UpgradeCliTools \/ DowngradePython \/ DowngradeNpm
          \/ ResolveTransitives
          \/ UndeclaredPython \/ UndeclaredNpm \/ UndeclaredGo \/ UndeclaredCsharp

Next == Scan \/ Classify \/ Finish \/ Returned
Spec == Init /\ [][Next]_vars
----------------------------------------------------------------------------
(* What the report owes to the sources, stated over the files themselves. *)

\* An import of i is a use of the distribution or package called name.
Provides(i, name) ==
  \/ in.eco = "pypi" /\ (Canon[i] = name \/ <<i, name>> \in Aliases \/ i \in Metadata(name))
  \/ in.eco = "npm" /\ name \in Package(i) /\ NotLocal(name)
  \/ in.eco = "go" /\ ~ IsBuiltin(i) /\ Under(name, i)
  \/ in.eco = "nuget" /\ Under(name, i)

\* The site is written in a way the analysers know: an import name that is
\* its own canonical form, no "export ... from", and in a Razor view the plain
\* form.
Plain(f, s) ==
  /\ s.form # "export from"
  /\ in.eco = "pypi" => Canon[s.path] = s.path
  /\ in.eco = "nuget" /\ f.razor => s.form = "using"

Weightless == {"import_module(x)", "require(x)", "magic"}
Uses(f, name) ==
  f.parses /\ \E s \in f.sites : s.form \notin Weightless /\ Plain(f, s) /\ Provides(s.path, name)

Weak(f) == IF in.eco = "nuget" THEN OnlyIgnoredCsharp(f) ELSE OnlyIgnored(f)

\* A direct dependency that a file with full weight names in any way the
\* analysers know is IN_USE, and one that only gitignored files name is never
\* SAFE (FR-278), whatever else the files and the later passes say.
UsedIsNotSafe ==
  pc = "done" =>
    \A d \in DOMAIN in.deps : Direct(d) =>
      \A f \in Range(in.files) : Uses(f, in.deps[d].name) =>
        /\ Counts(f) => status[d] = "IN_USE"
        /\ Weak(f) => status[d] # "SAFE"

Requires(p, d) ==
  \A S \in SUBSET DOMAIN in.graph :
    in.deps[p].name \in S /\ (\A n \in S : in.graph[n] \subseteq S)
      => in.deps[d].name \in S

\* A transitive dependency of a lock file is SAFE only when no direct
\* dependency of another name that may be in use requires it, at any depth,
\* after the upgrades and downgrades that came before.
OrphansAreUnreachable ==
  pc = "done" /\ in.eco = "pypi" /\ in.locked =>
    \A p, d \in DOMAIN in.deps :
      /\ Direct(p) /\ status[p] # "SAFE"
      /\ in.deps[d].transitive /\ in.deps[d].name # in.deps[p].name /\ Requires(p, d)
      => status[d] # "SAFE"

\* What an entry reports, and what it may be of the site it came from.
Reported(i) ==
  \E u \in undeclared :
    \/ in.eco = "pypi" /\ Distribution(i) = u[1]
    \/ in.eco = "go" /\ ModuleRoot(i) = u[1]
    \/ in.eco = "npm" /\ u[1] \in Package(i)
    \/ in.eco = "nuget" /\ u[1] = i

ReadAs(f, s) ==
  {s.path} \cup (IF in.eco = "npm" THEN Package(s.path) ELSE {})
    \cup (IF in.eco = "nuget" /\ f.razor /\ s.form # "using" THEN {Misread(s.form)} ELSE {})

Claimed(i) ==
  \E d \in DOMAIN in.deps : status[d] = "IN_USE" /\ Provides(i, in.deps[d].name)

Static == {"import", "wildcard", "blank", "using", "using static", "using alias"}

\* No import names a type stub: its name is no identifier, or tsc rejects it.
NamesNoStub(i) == \A d \in DOMAIN in.deps : in.deps[d].stub => ~ Provides(i, in.deps[d].name)

\* Each static import of a file that counts is either claimed by a dependency
\* that is IN_USE or reported UNDECLARED, and in npm and C# never both; what
\* is reported is imported by a file that counts.
AccountedFor ==
  pc = "done" =>
    /\ \A f \in Range(in.files) : \A s \in f.sites :
         /\ f.parses /\ Counts(f)
         /\ s.form \in Static /\ Plain(f, s)
         /\ ~ IsBuiltin(s.path) /\ NamesNoStub(s.path)
         /\ in.eco = "npm" => \E p \in Package(s.path) : NotLocal(p)
         => /\ Claimed(s.path) \/ Reported(s.path)
            /\ in.eco \in {"npm", "nuget"} => ~ (Claimed(s.path) /\ Reported(s.path))
    /\ \A u \in undeclared :
         \E f \in Range(in.files) : Counts(f) /\ \E s \in f.sites : u[2] \in ReadAs(f, s)
=============================================================================
