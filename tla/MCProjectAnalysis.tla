------------------------- MODULE MCProjectAnalysis -------------------------
(* Small projects of each ecosystem.  The first family varies two source    *)
(* files under fixed manifests, the second the manifests under one source.   *)
EXTENDS ProjectAnalysis

Site(form, path) == [form |-> form, path |-> path]
Dynamic(form) == Site(form, <<>>)

Yaml == <<"yaml">>
YamlC == <<"_yaml">>
Drf == <<"rest_framework">>
DrfCanon == <<"rest-framework">>
Requests == <<"requests">>
Urllib3 == <<"urllib3">>
Os == <<"os">>
Lodash == <<"lodash">>
Nest == <<"@nest", "core">>
Vue == <<"vue">>
Api == <<"k8s.io", "api">>
Core == <<"k8s.io", "api", "core">>
Zap == <<"gh.com", "u", "zap">>
Json == <<"Json">>

MCCanon ==
  [i \in {Yaml, YamlC, Drf, DrfCanon, Requests, Urllib3, Os, <<>>} |->
     IF i = Drf THEN DrfCanon ELSE IF i = YamlC THEN <<"-yaml">> ELSE i]
MCAliases == {<<Yaml, <<"pyyaml">>>>}
MCInstalled == <<"pyyaml">> :> {Yaml}
MCPrivate == {<<"_pip">>}
MCDistInfos ==
  {[name |-> <<"djangorestframework">>, topLevel |-> {}, record |-> {Drf, <<"_pip">>}],
   [name |-> <<"pyyaml">>, topLevel |-> {Yaml, YamlC}, record |-> {}]}
MCToolPackage == {<< <<"requests">>, Requests>>}
MCBuiltin == {Os, <<"fs">>, <<"fmt">>, <<"System">>}
MCScopes == {"@nest"}

File(class, sites, parses, razor) ==
  [class |-> class, sites |-> sites, parses |-> parses, razor |-> razor,
   notebook |-> FALSE]
Notebook(sites) == [File("tracked", sites, TRUE, FALSE) EXCEPT !.notebook = TRUE]

Files(siteSets, classes) ==
  {File(c, s, TRUE, FALSE) : c \in classes, s \in siteSets}

Scenario(eco, mode, manifests, sources, tools, locals) ==
  [eco |-> eco, mode |-> mode, deps |-> <<>>, files |-> sources, graph |-> <<>>,
   locked |-> FALSE, locals |-> locals, commands |-> tools.commands,
   scripts |-> tools.scripts, configs |-> tools.configs, manifests |-> manifests]

Manifest(eco, contents) ==
  [eco |-> eco, excludeTests |-> FALSE, excludeDev |-> FALSE, files |-> contents]
NameV(name, version) == [kind |-> "name", name |-> name, version |-> version]
Name(name) == NameV(name, None)
Pin(name, version) == [name |-> name, version |-> version]
Lines(lines) == [ok |-> TRUE, lines |-> lines]

Tools(commands, scripts, configs) ==
  [commands |-> commands, scripts |-> scripts, configs |-> configs]
Command(at, json, words) == [at |-> at, json |-> json, words |-> words]
NoTools == Tools({}, {}, {})

Djangorf == <<"djangorestframework">>
Pyyaml == <<"pyyaml">>
Idna == <<"idna">>
App == <<"app">>
EmptyPyproject ==
  [ok |-> TRUE, project |-> <<>>, extras |-> <<>>, poetry |-> <<>>, poetryDev |-> <<>>,
   poetryGroups |-> <<>>, requires |-> <<>>, groups |-> <<>>]
Locked(name, version, requires) ==
  [name |-> name, version |-> version, table |-> TRUE, requires |-> requires,
   root |-> FALSE, dev |-> {}]
PyLock == << Locked(Djangorf, "1", {}), Locked(Pyyaml, "1", {}), Locked(Requests, "1", {Urllib3}),
             Locked(Urllib3, "1", {Idna, Urllib3}), Locked(Idna, "1", {}) >>
PyDeclared == << Name(Djangorf), Name(Pyyaml), Name(Requests) >>
PyDeps ==
  Manifest("pypi",
    "pyproject.toml" :> [EmptyPyproject EXCEPT !.project = PyDeclared]
    @@ "uv.lock" :>
         [ok |-> TRUE,
          packages |-> Append(PyLock, [Locked(App, "0", {Djangorf, Pyyaml, Requests})
                                         EXCEPT !.root = TRUE])])
PyUnlocked ==
  Manifest("pypi",
    "pyproject.toml" :> [EmptyPyproject EXCEPT !.project = PyDeclared]
    @@ "poetry.lock" :> [ok |-> TRUE, packages |-> [i \in DOMAIN PyLock |->
                                                     [PyLock[i] EXCEPT !.table = FALSE]]])
PyStub ==
  Manifest("pypi", "requirements.txt" :>
                     Lines(<< Name(Requests), Name(<<"types-requests">>) >>))
PySites == {{}, {Site("import", Yaml), Site("import", YamlC)}, {Site("import", Drf)},
            {Site("wildcard", Requests)}, {Site("import_module", Requests), Site("import", Os)},
            {Site("import", Urllib3)}, {Dynamic("import_module(x)")}}
PyFiles == Files(PySites, {"tracked", "ignored"})
             \cup {File("named", {Site("import", Requests)}, TRUE, FALSE),
                   File("tracked", {Site("import", Requests)}, FALSE, FALSE),
                   Notebook({Site("import", Yaml), Site("magic", Requests)})}
BinRequests == <<"bin", "requests">>
PyTools ==
  {NoTools,
   Tools({Command("script", FALSE, << <<"exec">>, BinRequests >>)}, {}, {}),
   Tools({Command("CMD", TRUE, <<Requests>>)}, {}, {}),
   Tools({Command("Procfile", FALSE, <<Requests>>)}, {}, {}),
   Tools({Command("CMD", TRUE, <<BinRequests>>), Command("RUN", FALSE, <<Requests>>)},
         {<<"djangorestframework", "cli">>}, {<<"pyyaml">>})}
Py == {Scenario("pypi", m, PyDeps, f, t, {}) :
         m \in Modes, f \in PyFiles \X PyFiles, t \in PyTools}
      \cup {Scenario("pypi", m, d, f, NoTools, {}) :
              m \in Modes, d \in {PyStub, PyUnlocked},
              f \in PyFiles \X {File("tracked", {}, TRUE, FALSE)}}

NpmSites == {{}, {Site("import", <<"lodash", "merge">>)}, {Site("import", Nest \o <<"sub">>)},
             {Site("require", Lodash), Site("import", <<".", "x">>)},
             {Site("export from", Lodash)}, {Dynamic("require(x)")},
             {Site("declare module", Vue)}, {Site("import", Vue), Site("import", <<"fs">>)}}
NpmFiles == Files(NpmSites, {"tracked", "ignored"})
              \cup {File("tracked", {Site("import", Lodash)}, FALSE, FALSE)}
PackageJsonWith(sections) ==
  [ok |-> TRUE, sections |-> sections, scripts |-> {}, overrides |-> <<>>,
   resolutions |-> <<>>, pnpm |-> <<>>]
NpmDeps ==
  Manifest("npm", "package.json" :> PackageJsonWith("dependencies" :>
    << Pin(Lodash, "1"), Pin(<<"@types", "lodash">>, "1"), Pin(Nest, "1") >>))
NpmScenarios == {Scenario("npm", m, NpmDeps, f, NoTools, l) :
                   m \in Modes, f \in NpmFiles \X NpmFiles, l \in {{}, {Vue}}}

GoSites == {{}, {Site("import", Core)}, {Site("blank", Zap \o <<"core">>)},
            {Site("import", <<"gh.com", "u", "x", "y">>), Site("import", <<"fmt">>)}}
GoFiles == Files(GoSites, {"tracked", "ignored", "named"})
Req(path, version) ==
  [path |-> path, version |-> version, indirect |-> FALSE]
Single(block, item) == [kind |-> "single", block |-> block, item |-> item]
Item(item) == [kind |-> "item", item |-> item]
Open(block) == [kind |-> "open", block |-> block]
Close == [kind |-> "close"]
GoDeps == Manifest("go", "go.mod" :> Lines(<< Open("require"), Item(Req(Api, "1")),
                                              Item(Req(Zap, "1")), Close >>))
Go == {Scenario("go", m, GoDeps, f, NoTools, {}) : m \in Modes, f \in GoFiles \X GoFiles}

CsSites == {{}, {Site("using", <<"Json", "Linq">>)}, {Site("using static", Json)},
            {Site("using alias", <<"Log">>), Site("using", <<"System", "IO">>)}}
CsFiles == Files(CsSites, {"tracked", "ignored", "named_ignored"})
             \cup {File("tracked", {Site(form, Json)}, TRUE, TRUE) : form \in {"using", "using static", "using alias"}}
Ref(name, override, attribute, child) ==
  [kind |-> "name", name |-> name, override |-> override, attribute |-> attribute,
   child |-> child]
CsProject(path, references) ==
  [path |-> path, ok |-> TRUE, exists |-> TRUE, outside |-> FALSE, built |-> FALSE,
   tasks |-> {}, references |-> references]
Found0(projects) == [ok |-> TRUE, solution |-> "none", found |-> projects, listed |-> <<>>]
CsDeps == Manifest("nuget", "projects" :>
            Found0(<< CsProject("a.csproj", << Ref(Json, None, "1", None) >>) >>))
Cs == {Scenario("nuget", m, CsDeps, f, NoTools, {}) : m \in Modes, f \in CsFiles \X CsFiles}
----------------------------------------------------------------------------
(* Manifests in many shapes, one source file for each ecosystem. *)

MCNormal == [n \in {Requests, Urllib3, Idna, Djangorf, Pyyaml, App, Os, <<"Requests">>,
                    <<"python">>, <<"types-requests">>, <<"typing-extensions">>} |->
               IF n = <<"Requests">> THEN Requests ELSE n]
MCStdlib == {Os}
MCNotNpm == {<<"..", "x">>}
MCStubOf == <<"types-requests">> :> Requests @@ <<"@types", "lodash">> :> Lodash
            @@ <<"typing-extensions">> :> NoName
MCTestLike == {"test", "tests", "dev", "devops"}

OneFile(site) == << File("tracked", {site}, TRUE, FALSE) >>
With(manifests, site) ==
  {Scenario(m.eco, "include", m, OneFile(site), NoTools, {}) : m \in manifests}
Excluding(m) == {[m EXCEPT !.excludeTests = t] : t \in BOOLEAN}
WithDevChoice(m) == {[m EXCEPT !.excludeDev = t] : t \in BOOLEAN}

\* Three requirement files that include each other in every way.
Include(target) == [kind |-> "include", target |-> target]
IncludeLines(a, b) ==
  { << Name(Requests) >>, << Include(a), Name(Urllib3) >>, << Include(b), Include(a) >>,
    << NameV(<<"Requests">>, "2"), Include(a), Include(a) >> }
BrokenLines == << Include(Outside), Include("none.txt"), [kind |-> "bad"],
                  [kind |-> "option"], Name(Os) >>
Includes ==
  UNION {Excluding(Manifest("pypi", "requirements.txt" :> Lines(x) @@ "base.txt" :> Lines(y)
                                    @@ "requirements-dev.txt" :> Lines(z))) :
           x \in IncludeLines("base.txt", "requirements-dev.txt") \cup {BrokenLines},
           y \in IncludeLines("requirements.txt", "base.txt"),
           z \in IncludeLines("base.txt", "base.txt")}
  \cup {Manifest("pypi", "requirements.txt" :> Lines(<< Include("a") >>)
                         @@ "a" :> Lines(<< Include("b") >>) @@ "b" :> Lines(<< Include("c") >>)
                         @@ "c" :> Lines(<< Include("d") >>) @@ "d" :> [ok |-> FALSE])}

\* Dependency groups, extras and the poetry tables.
GroupTo(name) == [kind |-> "group", target |-> name]
GroupItems == { << Name(Urllib3) >>, << GroupTo("test"), Name(Idna) >>,
                << GroupTo("docs"), GroupTo("test") >>, << GroupTo("none"), [kind |-> "other"] >> }
Table(name, items) == [name |-> name, items |-> items]
GroupTables ==
  UNION {Excluding(Manifest("pypi", "pyproject.toml" :>
           [EmptyPyproject EXCEPT
              !.groups = << Table("test", x), Table("docs", y), Table("all", << GroupTo("docs") >>) >>,
              !.extras = << Table("dev", << Name(Pyyaml) >>) >>,
              !.requires = << NameV(Requests, "3") >>,
              !.poetry = << Pin(<<"python">>, "3"), Pin(Requests, "4") >>,
              !.poetryDev = << Pin(Idna, "1") >>,
              !.poetryGroups = << Table("devops", << Pin(Djangorf, "1") >>) >>])) :
         x \in GroupItems, y \in GroupItems}

\* One name in every set of files, with versions that differ or are missing.
ValueList(items) == [form |-> "list", items |-> items]
SetupPyFile ==
  [ok |-> TRUE, bindings |-> "EXTRAS" :> [form |-> "dict", items |->
                               << [name |-> "test", value |-> ValueList(<< Name(Idna) >>)] >>],
   calls |-> << << [arg |-> "install_requires", value |-> [form |-> "call"]],
                   [arg |-> "install_requires", value |-> ValueList(<< NameV(Requests, "5") >>)],
                   [arg |-> "extras_require", value |-> [form |-> "name", name |-> "EXTRAS"]],
                   [arg |-> "name", value |-> [form |-> "call"]] >> >>]
PyChoices ==
  << "requirements.txt" :> Lines(<< Name(Requests), [kind |-> "bad"] >>),
     "pyproject.toml" :> [EmptyPyproject EXCEPT !.poetry = << Pin(Requests, "2") >>],
     "setup.py" :> SetupPyFile,
     "setup.cfg" :> [ok |-> TRUE, install |-> << NameV(Requests, "6") >>,
                     extras |-> << Table("x", << Name(Urllib3) >>) >>],
     "Pipfile" :> [ok |-> TRUE, packages |-> << Pin(Requests, "*") >>, dev |-> << Pin(Idna, "1") >>],
     "Pipfile.lock" :> [ok |-> TRUE, default |-> << Pin(Requests, "7") >>, develop |-> <<>>],
     "poetry.lock" :> [ok |-> TRUE, packages |-> << Locked(Requests, "8", {Urllib3}),
                                                    Locked(Urllib3, "1", {Idna}) >>],
     "uv.lock" :> [ok |-> TRUE, packages |->
                     << [Locked(App, "0", {Urllib3}) EXCEPT !.root = TRUE, !.dev = {Idna}],
                        Locked(Requests, "9", {}), Locked(Urllib3, "2", {Idna}) >>],
     "environment.yaml" :> [ok |-> TRUE, items |->
                     << Name(<<"python">>), [kind |-> "url"],
                        [kind |-> "pip", items |-> << Name(Requests) >>] >>] >>
Merge(parts) == FoldLeft(LAMBDA m, f : f @@ m, <<>>, parts)
Picked(seq, chosen) ==
  Merge([i \in DOMAIN seq |-> IF i \in chosen THEN seq[i] ELSE <<>>])
Precedences == {Manifest("pypi", Picked(PyChoices, c)) : c \in SUBSET DOMAIN PyChoices}

Run(words) == << [install |-> FALSE, words |-> <<>>], [install |-> TRUE, words |-> words] >>
Word(kind) == [kind |-> kind]
CiFile(tox) ==
  [dockerfiles |-> << [ok |-> TRUE, name |-> "Dockerfile", dir |-> None, lines |->
        << Run(<< Word("-r"), Name(Idna), Word("option"), Word("variable"),
                  NameV(Requests, "1") >>) >>],
      [ok |-> TRUE, name |-> "Dockerfile", dir |-> "deploy", lines |-> << Run(<< Name(Requests) >>) >>],
      [ok |-> FALSE, name |-> "Containerfile"] >>,
   workflows |-> << [ok |-> TRUE, jobs |-> << << Run(<< Name(Pyyaml) >>) >> >>] >>,
   gitlab |-> [ok |-> TRUE, jobs |-> << << Run(<< Word("valued option"), Name(Idna) >>) >> >>],
   tox |-> [ok |-> TRUE, order |-> << "testenv", "base", "tox", "x" >>, sections |-> tox],
   nox |-> [ok |-> TRUE, calls |-> << << Name(Urllib3), [kind |-> "expression"] >>, <<>>,
                                      << [kind |-> "expression"], Name(Idna) >> >>]]
ToRef(section) == [kind |-> "ref", target |-> <<section, "deps">>]
ToxSections ==
  {<<"testenv", "deps">> :> << ToRef(a), Name(Requests) >>
   @@ <<"base", "deps">> :> << ToRef(b), Name(Urllib3) >>
   @@ <<"tox", "requires">> :> << [kind |-> "bad"] >> @@ <<"x", "deps">> :> << ToRef("base") >> :
     a \in {"base", "testenv", "none"}, b \in {"x", "testenv", "base"}}
CiFiles == {Manifest("pypi", "containers and CI" :> CiFile(t)) : t \in ToxSections}

\* npm: every set of files that declare lodash, its stub and vue.
Requiring(name, version, nested, requires) ==
  [name |-> name, version |-> version, nested |-> nested, requires |-> requires]
LockFile ==
  [ok |-> TRUE, flat |-> FALSE, sections |-> "dependencies" :> << Pin(Lodash, "1") >>,
   packages |-> << Requiring(Lodash, "2", FALSE, << Pin(Vue, "1"), Pin(Nest, "1") >>),
                   Requiring(Vue, "2", FALSE, << Pin(Nest, "1") >>),
                   Requiring(Nest, "3", TRUE, <<>>) >>]
FlatLock == [ok |-> TRUE, flat |-> TRUE, table |-> << Pin(Vue, None) >>]
NpmPackage ==
  [ok |-> TRUE, scripts |-> {"postinstall"},
   sections |-> "dependencies" :> << Pin(Lodash, "1"), Pin(<<"..", "x">>, "1") >>
                @@ "devDependencies" :> << Pin(Vue, "3"), Pin(Lodash, "3") >>,
   overrides |-> << <<Vue>>, <<Nest, Lodash, Vue>>, <<Nest, Lodash>> >>,
   resolutions |-> << Nest, <<"..", "x">> >>, pnpm |-> << [under |-> NoName, name |-> Lodash] >>]
YarnLines ==
  << [kind |-> "header", name |-> Lodash], [kind |-> "version", version |-> "4"],
     [kind |-> "version", version |-> "9"], [kind |-> "header", name |-> Vue], [kind |-> "blank"],
     [kind |-> "version", version |-> "5"] >>
NpmChoices ==
  << "package.json" :> NpmPackage, "package-lock.json" :> LockFile,
     "npm-shrinkwrap.json" :> FlatLock,
     "yarn.lock" :> [ok |-> TRUE, berry |-> FALSE, lines |-> YarnLines],
     "pnpm-lock.yaml" :> [ok |-> TRUE, workspace |-> FALSE,
                          sections |-> "devDependencies" :> << Pin(Vue, "6") >>,
                          packages |-> << Requiring(Vue, None, FALSE, << Pin(Lodash, "1") >>) >>],
     "bun.lock" :> [ok |-> TRUE, packages |-> << Pin(Lodash, None) >>],
     "deno.jsonc" :> [ok |-> TRUE, imports |-> << [scheme |-> "npm", name |-> Lodash, version |-> "8"],
                                                  [scheme |-> "http", name |-> Vue, version |-> "8"] >>] >>
NpmManifestsMC ==
  UNION {WithDevChoice(Manifest("npm", Picked(NpmChoices, c))) : c \in SUBSET DOMAIN NpmChoices}
  \cup {Manifest("npm", "bun.lockb" :> [ok |-> TRUE]),
        Manifest("npm", "yarn.lock" :> [ok |-> TRUE, berry |-> TRUE, blocks |-> << Pin(Vue, "1") >>]
                        @@ "pnpm-lock.yaml" :> [ok |-> FALSE] @@ ".npmrc" :> [ok |-> TRUE,
                                                       registries |-> {"other"}]),
        Manifest("npm", "deno.lock" :> [ok |-> TRUE, specifiers |-> <<>>]
                        @@ "pnpm-lock.yaml" :> [ok |-> TRUE, workspace |-> TRUE, packages |-> <<>>,
                               sections |-> "peerDependencies" :> << Pin(Lodash, None) >>])}

Rep(path, new, version) == [path |-> path, new |-> new, version |-> version]
GoMods ==
  {<< Single("require", Req(Api, "1")), Open("require"), Item(Req(Zap, "1")),
      Item([Req(Api, "2") EXCEPT !.indirect = TRUE]), Close,
      Single("go", Req(Api, "x")), Item(Req(Core, "1")),
      Open("replace"), Item(r), Close, Open("retract"), Item(Req(Api, "1")), Close,
      Open("exclude"), Item(x), Close, Single("exclude", Req(Zap, "9")) >> :
    r \in {Rep(Zap, "local", None), Rep(Zap, "url", "2"), Rep(Zap, "other", None)},
    x \in {Req(Zap, "1"), Req(Zap, "2"), Req(Core, "1")}}
GoManifestsMC ==
  {Manifest("go", "go.mod" :> Lines(l) @@ s @@ v) : l \in GoMods,
     s \in {<<>>, "go.sum" :> Lines(<< Req(Zap, "3"), Req(Zap, "1") >>)},
     v \in {<<>>, "vendor/modules.txt" :> [ok |-> TRUE, modules |-> {Zap, Core}]}}

Projects2 == << CsProject("a.csproj", << Ref(Json, None, None, None), Ref(<<"Log">>, "3", "1", None) >>),
                CsProject("b.csproj", << Ref(<<"Log">>, None, "1", None), Ref(<<"Web">>, None, None, "4") >>) >>
Twice == << Projects2[1], Projects2[2], Projects2[1],
            [Projects2[2] EXCEPT !.outside = TRUE, !.path = "../c.csproj", !.tasks = {"TS-SI-016"}] >>
CsManifestsMC ==
  {Manifest("nuget", "projects" :> [ok |-> TRUE, solution |-> s, found |-> Projects2, listed |-> Twice]
             @@ c @@ p @@ l) :
     s \in {"none", "read", "unreadable"},
     c \in {<<>>, "Directory.Packages.props" :> [ok |-> TRUE, versions |-> << Pin(Json, "1"), Pin(Json, "2") >>]},
     p \in {<<>>, "packages.config" :> [ok |-> TRUE, packages |-> << Pin(Json, "7"), Pin(<<"Old">>, "1") >>]
                   @@ "nuget.config" :> [ok |-> TRUE, sources |-> {"other"}]},
     l \in {<<>>, "packages.lock.json" :> [ok |-> TRUE, packages |-> << Pin(Json, "8"), Pin(<<"Deep">>, "1") >>]}}

PyShapes == With(Includes \cup GroupTables \cup Precedences \cup CiFiles, Site("import", Urllib3))
OtherShapes ==
  With(NpmManifestsMC, Site("import", Lodash)) \cup With(GoManifestsMC, Site("import", Core))
    \cup With(CsManifestsMC, Site("using", Json))

MCScenarios == Py \cup NpmScenarios \cup Go \cup Cs \cup PyShapes \cup OtherShapes
=============================================================================
