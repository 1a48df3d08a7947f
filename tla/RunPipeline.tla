---------------------------- MODULE RunPipeline ----------------------------
(***************************************************************************)
(* One run of the command line program (cli.py): the arguments are         *)
(* checked, the languages of the project detected (core/detector.py) and   *)
(* their analysers looked up (core/registry.py) and run, the results       *)
(* merged, the templates scanned (analysers/html_scanner.py), the verdicts *)
(* filtered and lifted, and a report and an exit code produced.  Every     *)
(* step is a function of what the earlier ones left behind, so what the    *)
(* run says depends on their order.                                        *)
(*                                                                         *)
(* What an analyser returns is an input here; SourceVerdicts describes how *)
(* it is made.  The sweep over the graph is one step, LiftInUse its steps. *)
(***************************************************************************)
EXTENDS Selection, SequencesExt

CONSTANTS
  Runs          \* the runs: records [entry, argv, project, results, templates]

\* "detected" marks what the Python analyser found undeclared; "unknown" is a
\* canonical ecosystem too, but belongs to no language.
Ecosystems == {"pypi", "detected", "maven", "gradle", "npm", "css", "go", "nuget"}
LanguageOf == [e \in Ecosystems |->
  CASE e \in {"pypi", "detected"} -> "python"
    [] e \in {"maven", "gradle"} -> "java"
    [] e \in {"npm", "css"} -> "javascript"
    [] e = "go" -> "go"
    [] e = "nuget" -> "csharp"]

Dependency == [name: STRING, eco: Ecosystems, transitive: BOOLEAN,
               status: {"SAFE", "UNCERTAIN", "IN_USE", "UNDECLARED"}]
Finding == [severity: 0..4, suppressed: BOOLEAN, remote: BOOLEAN]
NamesOf(g) == UNION {{e[1], e[2]} : e \in g}

IsResult(r) ==
  /\ r.deps \in Seq(Dependency) /\ r.findings \in Seq(Finding)
  /\ IsFiniteSet(NamesOf(r.graph))
IsRun(r) ==
  /\ \A l \in DOMAIN r.results : IsResult(r.results[l])
  /\ r.templates \in Seq(Range(r.templates))
  /\ \A t \in Range(r.templates) :
       t.tags \in Seq(Range(t.tags)) /\ \A g \in Range(t.tags) : g.pkg \in STRING

ASSUME RunAssumption == \A r \in Runs : IsRun(r)

Formats == {"text", "json", "markdown", "md", "sarif"}
Modes == {"uncertain", "include", "exclude"}

VARIABLES
  in,           \* the run: what it is given
  pc,           \* the next step of the run
  types,        \* project_types, in the order of detection
  left,         \* the languages whose analyser has not run yet
  configured,   \* the capabilities each analyser was given: language -> set
  deps,         \* merged.dependencies
  findings,     \* merged.findings
  graph,        \* merged.dep_graph, a set of <<parent, child>> names
  errors,       \* merged.errors: records [kind, n]
  report,       \* what was rendered: a sequence of at most one report
  written,      \* where it went: <<"nowhere">>, <<"stdout">> or <<directory, name>>
  exit          \* the exit code (9: still running)

merged == <<deps, findings, graph, errors>>
ended  == <<report, written, exit>>
vars == <<in, pc, types, left, configured, merged, ended>>

argv == in.argv
Main == in.entry = "main"       \* otherwise run_analysis, for the tests
None == "none"

Init ==
  /\ in \in Runs
  /\ pc = IF in.entry = "main" THEN "args" ELSE "detect"
  /\ types = <<>> /\ left = <<>> /\ configured = <<>>
  /\ deps = <<>> /\ findings = <<>> /\ graph = {} /\ errors = <<>>
  /\ report = <<>> /\ written = <<"nowhere">> /\ exit = 9

Go(to) == pc' = to
\* typer.Exit(2), _CliError, and any exception an analyser lets through.
Refuse ==
  /\ pc' = "done"
  /\ exit' = 2
  /\ UNCHANGED <<in, types, left, configured, merged, report, written>>
----------------------------------------------------------------------------
(* Arguments and path. *)

\* Each capability needs the one it is built on.
Unmet(a) ==
  \/ a.fetch /\ ~ a.deep
  \/ (a.crossCheck \/ a.failRemote \/ a.privateHosts \/ a.nativeTls) /\ ~ a.fetch

Misused(a) ==
  \/ a.languages \ (Ecosystems \cup {"unknown"}) # {}
  \/ a.severity \notin 0..4                           \* 0: not given
  \/ ~ a.globsOk                                      \* --test-paths, --exclude
  \/ a.gitignore \notin Modes \cup {None}
  \/ a.noGitignore /\ a.gitignore \notin {"include", None}
  \/ a.prefix \in {"given", "bad"} /\ a.format # "sarif"
  \/ a.prefix = "bad"

Mode == CASE argv.noGitignore -> "include"
          [] ~ argv.noGitignore /\ argv.gitignore = None -> "uncertain"
          [] OTHER -> argv.gitignore

CheckArguments ==
  /\ pc = "args"
  /\ IF Misused(argv) \/ Unmet(argv)
     THEN Refuse
     ELSE Go("path") /\ UNCHANGED <<in, types, left, configured, merged, ended>>

\* An absolute path may lie outside the working directory, but it must exist.
CheckPath ==
  /\ pc = "path"
  /\ IF in.project.path # "directory"
     THEN Refuse
     ELSE Go("detect") /\ UNCHANGED <<in, types, left, configured, merged, ended>>
----------------------------------------------------------------------------
(* Detection and analysis. *)

LanguageOrder == <<"java", "python", "javascript", "css", "go", "csharp">>

\* in.project.marks holds pairs of a language and where its indicator lies;
\* only stylesheets and .NET project files are looked for below the root.
Detected(l) ==
  \/ <<l, "root">> \in in.project.marks
  \/ l \in {"css", "csharp"} /\ <<l, "below">> \in in.project.marks

DetectedTypes ==
  IF in.project.path = "directory" THEN Where(LanguageOrder, Detected) ELSE <<>>

Wanted == {LanguageOf[e] : e \in argv.languages \cap Ecosystems}
Filtered(ts) ==
  IF argv.languages = {} THEN ts ELSE Where(ts, LAMBDA t : t \in Wanted)

Registered == DOMAIN in.results
Runnable(ts) == Where(ts, LAMBDA t : t \in Registered)
Unrunnable(ts) == Where(ts, LAMBDA t : t \notin Registered)

DetectTypes ==
  /\ pc = "detect" /\ Main
  /\ LET ts == Filtered(DetectedTypes)
     IN IF \/ ts = <<>>
           \/ "unknown" \in argv.languages       \* KeyError
        THEN Refuse
        ELSE /\ types' = ts
             /\ left' = Runnable(ts)
             /\ Go("analyse")
             /\ UNCHANGED <<in, configured, merged, ended>>

\* run_analysis has no filter, and renders an error when nothing is detected.
DetectTypesForTest ==
  /\ pc = "detect" /\ ~ Main
  /\ types' = DetectedTypes
  /\ left' = Runnable(DetectedTypes)
  /\ Go(IF DetectedTypes = <<>> THEN "render" ELSE "analyse")
  /\ errors' = IF DetectedTypes = <<>> THEN <<[kind |-> "no project", n |-> 0]>>
               ELSE errors
  /\ UNCHANGED <<in, configured, deps, findings, graph, ended>>

\* The flags each fresh analyser instance is given; run_analysis leaves the
\* capabilities of deep inspection at their defaults.
Capabilities ==
  IF ~ Main THEN {}
  ELSE {c \in {"deep", "fetch", "crossCheck", "privateHosts", "nativeTls"} :
          CASE c = "deep" -> argv.deep
            [] c = "fetch" -> argv.fetch
            [] c = "crossCheck" -> argv.crossCheck
            [] c = "privateHosts" -> argv.privateHosts
            [] OTHER -> argv.nativeTls}

\* One analyser, in the order of the detected types; an exception ends the run.
Analyse ==
  /\ pc = "analyse"
  /\ left # <<>>
  /\ LET l == Head(left)
         r == in.results[l]
     IN /\ configured' = (l :> Capabilities) @@ configured
        /\ IF r.raises
           THEN /\ pc' = "done"
                /\ exit' = IF Main THEN 2 ELSE exit
                /\ UNCHANGED <<in, types, left, merged, report, written>>
           ELSE /\ deps' = deps \o r.deps
                /\ findings' = findings \o r.findings
                /\ errors' = errors \o r.errors
                /\ graph' = graph \cup r.graph
                /\ left' = Tail(left)
                /\ UNCHANGED <<in, pc, types, ended>>

AllAnalysed ==
  /\ pc = "analyse"
  /\ left = <<>>
  /\ Go(IF Main THEN "html" ELSE "audit")
  /\ UNCHANGED <<in, types, left, configured, merged, ended>>
----------------------------------------------------------------------------
(* Templates. A template holds tags [form, target, pkg]: where a URL of a  *)
(* known CDN names a package, and a module or import map may name it bare. *)

Loads(g) == g.target = "cdn" \/ (g.target = "bare" /\ g.form \in {"module", "importmap"})
Packages(t) ==
  LET loads == Where(t.tags, Loads) IN [i \in DOMAIN loads |-> loads[i].pkg]

\* TS-CE-012, one for each remote URL that is not in an import map.
Remote == [severity |-> 2, suppressed |-> FALSE, remote |-> FALSE]
RemoteFindings(t) ==
  LET urls == Where(t.tags, LAMBDA g : g.target \in {"cdn", "remote"} /\ g.form # "importmap")
  IN [i \in DOMAIN urls |-> Remote]

Templates(class) ==
  Where(in.templates, LAMBDA t : t.class = class)

PackagesOf(ts) == FlattenSeq([i \in DOMAIN ts |-> Packages(ts[i])])
FindingsOf(ts) == FlattenSeq([i \in DOMAIN ts |-> RemoteFindings(ts[i])])

\* A gitignored template counts in full, as doubt, or not at all.
LoadedByTemplates ==
  LET weighty == Where(in.templates,
               LAMBDA t : t.class = "tracked" \/ (t.class = "ignored" /\ Mode = "include"))
  IN PackagesOf(weighty)
LoadedByIgnored ==
  IF Mode = "uncertain" THEN PackagesOf(Templates("ignored")) ELSE <<>>

Named(ds) == {ds[i].name : i \in DOMAIN ds}

\* Names that no entry has yet, whatever its ecosystem, each once.
Fresh(names, ds, status) ==
  LET new == Where(names, LAMBDA n : n \notin Named(ds))
      once == Where([i \in DOMAIN new |-> <<i, new[i]>>],
                    LAMBDA p : \A j \in 1..(p[1] - 1) : new[j] # p[2])
  IN [i \in DOMAIN once |-> [name |-> once[i][2], eco |-> "npm",
                             status |-> status, transitive |-> FALSE]]

Line(kind, n) == IF n = 0 THEN <<>> ELSE <<[kind |-> kind, n |-> n]>>

\* Mutant of MergeTemplates: what only gitignored templates load goes first.
MergeTemplatesIgnoredFirst(ds) ==
  LET weak == ds \o Fresh(LoadedByIgnored, ds, "UNCERTAIN")
  IN weak \o Fresh(LoadedByTemplates, weak, "IN_USE")

MergeTemplates(ds) ==
  LET strong == ds \o Fresh(LoadedByTemplates, ds, "IN_USE")
  IN strong \o Fresh(LoadedByIgnored, strong, "UNCERTAIN")

ScanTemplates ==
  /\ pc = "html"
  /\ deps' = MergeTemplates(deps)
  /\ findings' = findings \o FindingsOf(in.templates)
  /\ LET n == Len(FindingsOf(Templates("ignored")))
     IN errors' = errors \o Line("ignored findings", n)
                         \o Line("environments", in.project.environments)
  /\ Go("audit")
  /\ UNCHANGED <<in, types, left, configured, graph, ended>>
----------------------------------------------------------------------------
(* Audit lines, warnings, filter and sweep. *)

Counts(kind) == {errors[i].n : i \in {j \in DOMAIN errors : errors[j].kind = kind}}
Most(S) == CHOOSE n \in S : \A m \in S : m <= n

\* consolidate_audit_lines: counts of findings add up, environments are those
\* of the walk that saw most; the two lines go last.
Consolidated ==
  LET isFound(e) == e.kind = "ignored findings"
      isEnv(e) == e.kind = "environments"
  IN Where(errors, LAMBDA e : ~ isFound(e) /\ ~ isEnv(e))
       \o Line("ignored findings",
               FoldLeft(LAMBDA a, e : a + e.n, 0, Where(errors, isFound)))
       \o Line("environments", Most(Counts("environments") \cup {0}))

Warnings ==
  LET skipped == Unrunnable(types)
  IN [i \in DOMAIN skipped |-> [kind |-> "skipped " \o skipped[i], n |-> 0]]
       \o (IF argv.excludeDev /\ "javascript" \notin Range(Runnable(types))
           THEN <<[kind |-> "no effect", n |-> 0]>> ELSE <<>>)

Audit ==
  /\ pc = "audit"
  /\ errors' = Consolidated \o (IF Main THEN Warnings ELSE <<>>)
  /\ Go(IF Main THEN "filter" ELSE "lift")
  /\ UNCHANGED <<in, types, left, configured, deps, findings, graph, ended>>

InFilter(d) == argv.languages = {} \/ d.eco \in argv.languages

FilterDependencies ==
  /\ pc = "filter"
  /\ deps' = Where(deps, InFilter)
  /\ Go("lift")
  /\ UNCHANGED <<in, types, left, configured, findings, graph, errors, ended>>

InUse(ds) == {ds[i].name : i \in {j \in DOMAIN ds : ds[j].status = "IN_USE"}}
GraphNames == NamesOf(graph)
Children(g, S) == {e[2] : e \in {x \in g : x[1] \in S}}
Below(g, S) ==
  LET reach[X \in SUBSET NamesOf(g)] ==
        LET Y == X \cup Children(g, X) IN IF Y = X THEN X ELSE reach[Y]
  IN reach[S]

\* Mutant of Reached: only the children of an IN_USE dependency.
ReachedDirectly(ds) == Children(graph, InUse(ds))

\* The names a sweep may put in lifted_by.
Reached(ds) == Below(graph, Children(graph, InUse(ds)))

\* A name that is itself IN_USE is recorded when the sweep meets it as a child
\* before it visits it as a root, which the order of a Python set decides.
Lift ==
  /\ pc = "lift"
  /\ \E also \in SUBSET (Reached(deps) \cap InUse(deps)) :
       deps' = [i \in DOMAIN deps |->
                  IF /\ deps[i].status = "SAFE"
                     /\ deps[i].name \in (Reached(deps) \ InUse(deps)) \cup also
                  THEN [deps[i] EXCEPT !.status = "IN_USE"] ELSE deps[i]]
  /\ Go("render")
  /\ UNCHANGED <<in, types, left, configured, findings, graph, errors, ended>>
----------------------------------------------------------------------------
(* Report and exit code. *)

Visible == IF argv.showSuppressed THEN findings
           ELSE Where(findings, LAMBDA f : ~ f.suppressed)

\* An unknown format is refused only here, when the analysis is done.
Render ==
  /\ pc = "render"
  /\ IF Main /\ argv.format \notin Formats
     THEN Refuse
     ELSE /\ report' = <<[deps |-> deps, findings |-> Visible, errors |-> errors, types |-> types]>>
          /\ Go(IF Main THEN "write" ELSE "done")
          /\ UNCHANGED <<in, types, left, configured, merged, written, exit>>

\* A manifest yields its first name that is not blank (a POM has two, <name>
\* and <artifactId>); one that cannot be read or parsed yields nothing.
ManifestName(mf) ==
  LET given == Where(mf.names, LAMBDA n : n # "")
  IN IF ~ mf.readable \/ given = <<>> THEN "" ELSE given[1]

\* The first manifest, in a fixed order, that yields a name decides; a name
\* with no usable character ("***") falls back to the plain file name.
ProjectName ==
  LET given == Where([i \in DOMAIN in.project.manifests |-> ManifestName(in.project.manifests[i])],
                     LAMBDA n : n # "")
  IN IF given = <<>> \/ given[1] = "***" THEN "analysis-report" ELSE given[1]

Target ==
  CASE argv.output # None -> <<argv.output, "report">>
    [] argv.output = None /\ argv.format \in {"markdown", "md"} -> <<"cwd", ProjectName>>
    [] OTHER -> <<"stdout">>

\* --output may leave the working directory unless that is the project itself.
Confined == argv.output # "elsewhere" \/ ~ in.project.isCwd

Write ==
  /\ pc = "write"
  /\ IF argv.output = "unresolvable" \/ ~ Confined
     THEN Refuse
     ELSE /\ written' = Target
          /\ Go("exit")
          /\ UNCHANGED <<in, types, left, configured, merged, report, exit>>

\* A report file, also one of the default name, or the standard output that
\* cannot be written.
WriteFails ==
  /\ pc = "write"
  /\ Refuse

Threshold == IF argv.severity = 0 THEN 3 ELSE argv.severity

Gates(f) ==
  /\ f.suppressed => argv.failSuppressed
  /\ f.severity >= Threshold
  /\ f.remote => argv.failRemote

\* Mutant of ExitCode: the findings of the report decide.
ExitCodeOfReport ==
  CASE \E i \in DOMAIN Visible : Gates(Visible[i]) -> 3
    [] \A i \in DOMAIN Visible : ~ Gates(Visible[i]) ->
         IF \E i \in DOMAIN deps : deps[i].status = "SAFE" THEN 1 ELSE 0

ExitCode ==
  IF \E i \in DOMAIN findings : Gates(findings[i]) THEN 3
  ELSE IF \E i \in DOMAIN deps : deps[i].status = "SAFE" THEN 1 ELSE 0

Exit ==
  /\ pc = "exit"
  /\ exit' = ExitCode
  /\ Go("done")
  /\ UNCHANGED <<in, types, left, configured, merged, report, written>>

Step ==
  \/ CheckArguments \/ CheckPath \/ DetectTypes \/ DetectTypesForTest
  \/ Analyse \/ AllAnalysed \/ ScanTemplates \/ Audit \/ FilterDependencies
  \/ Lift \/ Render \/ Write \/ WriteFails \/ Exit

----------------------------------------------------------------------------
(* Properties of the run as a whole. *)

Done == pc = "done" /\ report # <<>>
Delivered == written # <<"nowhere">>

\* The languages whose analysers this run was to use.
Analysed == {types[i] : i \in DOMAIN types} \cap Registered

\* Every finding that the analysers of the run and its templates made.
AllFindings ==
  (UNION {Range(in.results[l].findings) : l \in Analysed}) \cup Range(FindingsOf(in.templates))

\* The exit code fits the report (README, "Exit codes"): 2 exactly when none
\* was delivered; 3 exactly when an analyser or a template gave a finding at
\* the threshold that is not excused, hidden from the report or not; and
\* otherwise 1 exactly when the report lists a SAFE dependency.
ExitFitsReport ==
  pc = "done" /\ Main =>
    /\ exit = 2 <=> ~ Delivered
    /\ Delivered =>
         LET gate == \E f \in AllFindings :
                       /\ f.severity >= Threshold
                       /\ f.suppressed => argv.failSuppressed
                       /\ f.remote => argv.failRemote
         IN /\ exit = 3 <=> gate
            /\ exit = 1 <=> ~ gate /\ \E i \in DOMAIN report[1].deps : report[1].deps[i].status = "SAFE"

\* A SAFE dependency of the report whose name no IN_USE one of the report bears
\* is not one that an IN_USE dependency of it requires, at any depth, whichever
\* analyser or template brought the one, the other and the edges between them.
\* The exception is what the code leaves SAFE: the sweep goes by name, so a name
\* that one ecosystem has IN_USE hides the dependency of another (cli.py:236).
ReportedSafeIsUnreached ==
  Done =>
    \A i, j \in DOMAIN report[1].deps :
      /\ report[1].deps[i].status = "IN_USE"
      /\ report[1].deps[j].status = "SAFE"
      /\ report[1].deps[j].name \notin InUse(report[1].deps)
      => \E S \in SUBSET GraphNames :
           /\ \A e \in graph : e[1] \in S \cup {report[1].deps[i].name} => e[2] \in S
           /\ report[1].deps[j].name \notin S

\* Nothing is lost on the way: each dependency an analyser of the run reported
\* in a wanted ecosystem is in the report, as it was or lifted; each library a
\* template loads with full weight is in it by name, IN_USE or as an analyser
\* has it, never as a doubt that a gitignored template raised; and nothing of
\* another ecosystem is.  The exception is what the code does lose: a library is
\* not merged when an analyser has a dependency of its name (cli.py:722), and
\* is in no report when the filter then drops each such dependency (cli.py:780).
NothingIsLost ==
  Done /\ Main =>
    LET wanted(e) == argv.languages = {} \/ e \in argv.languages
        out == Range(report[1].deps)
        namesakes(n) == UNION {{d \in Range(in.results[l].deps) : d.name = n} : l \in Analysed}
    IN /\ \A l \in Analysed : \A d \in Range(in.results[l].deps) :
            wanted(d.eco) => {d, [d EXCEPT !.status = "IN_USE"]} \cap out # {}
       /\ wanted("npm") =>
            \A n \in Range(LoadedByTemplates) :
              \/ \E d \in out : d.name = n /\ (d.status = "IN_USE" \/ d \in namesakes(n))
              \/ namesakes(n) # {} /\ \A d \in namesakes(n) : ~ wanted(d.eco)
       /\ \A d \in out : wanted(d.eco)

=============================================================================
