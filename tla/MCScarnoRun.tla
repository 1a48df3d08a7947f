---------------------------- MODULE MCScarnoRun ----------------------------
(***************************************************************************)
(* Runs in families: each varies what one part of the pipeline looks at    *)
(* and leaves the rest at its defaults.  In the last family the run is     *)
(* fixed and the operator's settings, the servers and the name service     *)
(* vary: two hosts that answer in public, and one on a private network.    *)
(***************************************************************************)
EXTENDS ScarnoRun

Flags0 == [languages |-> {}, severity |-> 0, globsOk |-> TRUE, gitignore |-> None,
           noGitignore |-> FALSE, prefix |-> None, format |-> "json", deep |-> FALSE,
           fetch |-> FALSE, crossCheck |-> FALSE, failRemote |-> FALSE,
           privateHosts |-> FALSE, nativeTls |-> FALSE, failSuppressed |-> FALSE,
           showSuppressed |-> FALSE, excludeDev |-> FALSE, output |-> None]

Marks0 == {<<"python", "root">>, <<"javascript", "root">>}
Mf(r, ns) == [readable |-> r, names |-> ns]
Project0 == [path |-> "directory", marks |-> Marks0, environments |-> 0, isCwd |-> TRUE,
             manifests |-> <<Mf(TRUE, <<"">>), Mf(TRUE, <<"", "app">>)>>]

D(n, e, s, t) == [name |-> n, eco |-> e, status |-> s, transitive |-> t]
F(sev, sup, rem) == [severity |-> sev, suppressed |-> sup, remote |-> rem]
Result(ds, fs, g, es) == [raises |-> FALSE, deps |-> ds, findings |-> fs, graph |-> g, errors |-> es]
Nothing == Result(<<>>, <<>>, {}, <<>>)
Raises == [Nothing EXCEPT !.raises = TRUE]
Languages == {"java", "python", "javascript", "css", "go", "csharp"}
Results0 == [l \in Languages |-> Nothing]

Run0 == [entry |-> "main", argv |-> Flags0, project |-> Project0, results |-> Results0,
         templates |-> <<>>]

\* Capabilities, alone and combined.
RunsOfFlags ==
  {[Run0 EXCEPT !.argv = [@ EXCEPT !.deep = d, !.fetch = f, !.crossCheck = c,
                                   !.failRemote = r, !.privateHosts = p, !.nativeTls = n]] :
     d, f, c, r, p, n \in BOOLEAN}

\* Other arguments: one wrong value at a time, and the modes.
RunsOfArguments ==
  {[Run0 EXCEPT !.argv = [@ EXCEPT !.severity = 7]],
   [Run0 EXCEPT !.argv = [@ EXCEPT !.globsOk = FALSE]],
   [Run0 EXCEPT !.argv = [@ EXCEPT !.languages = {"cobol"}]],
   [Run0 EXCEPT !.argv = [@ EXCEPT !.languages = {"unknown"}]],
   [Run0 EXCEPT !.argv = [@ EXCEPT !.format = "pdf"]]}
  \cup {[Run0 EXCEPT !.argv = [@ EXCEPT !.prefix = p, !.format = f]] :
          p \in {None, "given", "bad"}, f \in {"sarif", "text"}}
  \cup {[Run0 EXCEPT !.project = [@ EXCEPT !.path = p]] : p \in {"missing", "file"}}

\* Where the report goes.
RunsOfOutput ==
  {[Run0 EXCEPT !.argv = [@ EXCEPT !.output = o, !.format = f],
                !.project = [@ EXCEPT !.isCwd = c, !.manifests = n]] :
     o \in {None, "cwd", "elsewhere", "unresolvable"}, f \in {"json", "md"}, c \in BOOLEAN,
     n \in {<<Mf(FALSE, <<"lib">>), Mf(TRUE, <<"", "app">>)>>, <<Mf(TRUE, <<"***">>), Mf(TRUE, <<"app">>)>>, <<>>}}

\* Languages: detected or not, filtered or not, with an analyser that fails.
RunsOfLanguages ==
  {[Run0 EXCEPT !.entry = e, !.argv = [@ EXCEPT !.languages = f, !.excludeDev = x],
                !.project = [@ EXCEPT !.marks = m],
                !.results = [l \in Languages \ {"go"} |->
                   CASE l = "python" -> Result(<<D("a", "pypi", "SAFE", FALSE), D("b", "detected", "UNDECLARED", FALSE)>>,
                                               <<>>, {}, <<[kind |-> "environments", n |-> 2]>>)
                     [] l = "java" -> Raises
                     [] l = "css" -> Result(<<D("c", "npm", "IN_USE", FALSE)>>, <<>>, {},
                                            <<[kind |-> "environments", n |-> 1]>>)
                     [] OTHER -> Nothing]] :
     e \in {"main", "run_analysis"}, x \in BOOLEAN,
     f \in {{}, {"pypi"}, {"css"}, {"npm", "detected"}},
     m \in {{}, Marks0, {<<"css", "below">>, <<"go", "root">>}, {<<"java", "below">>},
            {<<"java", "root">>, <<"python", "root">>}, {<<"csharp", "below">>, <<"css", "root">>}}}

\* Findings and the flags that let them decide the exit code.
Findings == {F(1, FALSE, FALSE), F(3, TRUE, FALSE), F(3, FALSE, TRUE), F(4, FALSE, FALSE)}
RunsOfFindings ==
  {[Run0 EXCEPT !.argv = [@ EXCEPT !.severity = t, !.failSuppressed = s, !.showSuppressed = v,
                                   !.failRemote = r, !.fetch = r, !.deep = r],
                !.results = [@ EXCEPT !["python"] = Result(<<D("a", "pypi", st, FALSE)>>, <<f>>, {}, <<>>)],
                !.templates = tp] :
     t \in {0, 1, 4}, s, v, r \in BOOLEAN, f \in Findings, st \in {"SAFE", "IN_USE"},
     tp \in {<<>>, <<[class |-> "ignored", tags |-> <<[form |-> "script", target |-> "remote", pkg |-> "x"]>>]>>}}

\* Dependencies, templates and edges, with names that two ecosystems share.  In
\* the runs of two ecosystems a library has the name of an undeclared import,
\* whose own ecosystem "detected" is not wanted.
Tag(f, t, p) == [form |-> f, target |-> t, pkg |-> p]
TemplateSets ==
  {<<>>,
   <<[class |-> "tracked", tags |-> <<Tag("script", "cdn", "x"), Tag("module", "bare", "a")>>]>>,
   <<[class |-> "ignored", tags |-> <<Tag("importmap", "bare", "x")>>],
     [class |-> "tracked", tags |-> <<Tag("module", "bare", "x"), Tag("script", "local", "a")>>]>>,
   <<[class |-> "ignored", tags |-> <<Tag("link", "cdn", "x")>>],
     [class |-> "rule_only", tags |-> <<Tag("script", "cdn", "y")>>]>>}
Graphs == {{}, {<<"x", "a">>}, {<<"x", "y">>, <<"y", "a">>}, {<<"a", "b">>, <<"b", "a">>}}
Undeclared(f) == IF f = {"npm", "pypi"} THEN <<D("x", "detected", "UNDECLARED", FALSE)>> ELSE <<>>
RunsOfDependencies ==
  {[Run0 EXCEPT !.argv = [@ EXCEPT !.gitignore = g, !.languages = f, !.noGitignore = (g = "include")],
                !.results = [@ EXCEPT
                   !["python"] = Result(<<D("a", "pypi", s1, FALSE)>> \o Undeclared(f), <<>>, gr, <<>>),
                   !["javascript"] = Result(<<D("b", "npm", s2, FALSE), D(n3, "npm", "SAFE", TRUE)>>, <<>>, {<<"b", n3>>}, <<>>),
                   !["css"] = Result(<<D("b", "npm", "IN_USE", FALSE)>>, <<>>, {}, <<>>)],
                !.project = [@ EXCEPT !.marks = Marks0 \cup c],
                !.templates = tp] :
     g \in {None, "include", "exclude"}, f \in {{}, {"npm"}, {"npm", "pypi"}}, gr \in Graphs,
     s1 \in {"SAFE", "IN_USE"}, s2 \in {"SAFE", "IN_USE"}, n3 \in {"a", "y"}, tp \in TemplateSets,
     c \in {{}, {<<"css", "below">>}}}

RunsThatFetch ==
  {[Run0 EXCEPT !.argv = [@ EXCEPT !.deep = TRUE, !.fetch = TRUE, !.crossCheck = k, !.privateHosts = p],
                !.project = [@ EXCEPT !.marks = {<<"java", "root">>}]] : k, p \in BOOLEAN}

MCRuns == RunsOfFlags \cup RunsOfArguments \cup RunsOfOutput \cup RunsOfLanguages
            \cup RunsOfFindings \cup RunsOfDependencies \cup RunsThatFetch

Url(h) == [scheme |-> "https", userinfo |-> FALSE, host |-> h, port |-> "ok"]
PlainUrl(h) == [Url(h) EXCEPT !.scheme = "http"]
Credentialed(h) == [Url(h) EXCEPT !.userinfo = TRUE]
BadPort(h) == [Url(h) EXCEPT !.port = "bad"]

MCEcoOrder == <<"maven", "npm">>
MCAddresses == [central |-> {<<"public">>, <<"loopback", "public">>},
                nexus   |-> {<<"private">>, <<"cgnat">>, <<"private", "public">>},
                mirror  |-> {<<"public">>, <<"link-local">>, <<"private">>}]
MCReplies == {[kind |-> "status"], [kind |-> "failure"]}
  \cup {[kind |-> "redirect", absolute |-> TRUE, url |-> u] :
          u \in {Url("nexus"), Url("mirror"), PlainUrl("mirror"), BadPort("mirror")}}
  \cup {[kind |-> "redirect", absolute |-> FALSE, url |-> NoUrl]}

Entry(e, u) == [eco |-> e, url |-> u, isList |-> TRUE]
Absent == [state |-> "absent", entries |-> <<>>]
Tables(es) == [state |-> "tables", entries |-> es]

ClisOf == {<<>>,
           <<Entry("maven", Url("nexus")), Entry("maven", Url("central")), Entry("npm", Url("mirror"))>>,
           <<Entry("maven", PlainUrl("central")), Entry("", Url("central")), Entry("maven", BadPort("mirror"))>>,
           <<Entry("maven", Credentialed("nexus")), Entry("npm", Url("mirror"))>>}
FilesOf == {[xdg |-> Tables(<<Entry("maven", Url("mirror"))>>),
             home |-> Tables(<<Entry("npm", Url("central")), Entry("maven", Url("central")),
                               [Entry("maven", Url("nexus")) EXCEPT !.isList = FALSE]>>)],
            [xdg |-> [state |-> "malformed", entries |-> <<>>], home |-> Absent],
            [xdg |-> [state |-> "escapes", entries |-> <<>>], home |-> Absent]}
EnvsOf == {<<>>, <<Entry("maven", Url("mirror")), Entry("npm", PlainUrl("mirror"))>>}

\* One plain setting for each combination of flags, and many when fetching.
PlainSettings ==
  {[cli |-> <<>>, files |-> [xdg |-> Absent, home |-> Absent], env |-> <<>>, xdg |-> "unset",
    fetch |-> f, crossCheck |-> k, allowed |-> a] : f, k \in BOOLEAN, a \in {{}, {"nexus"}}}
ManySettings ==
  {[cli |-> c, files |-> f, env |-> v, xdg |-> x, fetch |-> TRUE, crossCheck |-> k, allowed |-> a] :
     c \in ClisOf, f \in FilesOf, v \in EnvsOf,
     x \in {"unset", "elsewhere", "in cwd", "in project", "unresolvable"},
     k \in BOOLEAN, a \in {{}, {"nexus"}}}
MCSettings == PlainSettings \cup ManySettings

MCInit == SInit /\ (set \in PlainSettings \/ in \in RunsThatFetch)
MCSpec == MCInit /\ [][SNext]_svars /\ WF_svars(SNext)
=============================================================================
