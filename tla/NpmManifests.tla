----------------------------- MODULE NpmManifests -----------------------------
(***************************************************************************)
(* The npm dependency files (analysers/javascript/dep_file_parser.py): the *)
(* manifest, six lock files, deno, .npmrc, and the override mechanisms.    *)
(* A name is a tuple of segments, <<"@types", "lodash">>; a pin is         *)
(* [name, version].  Results also carry edges [parent, child, declared].   *)
(***************************************************************************)
EXTENDS DependencyFiles

Sections == <<"dependencies", "devDependencies", "peerDependencies", "optionalDependencies">>

NpmNothing == [deps |-> <<>>, notes |-> {}, edges |-> <<>>]
NpmNoted(n) == [NpmNothing EXCEPT !.notes = {n}]
NpmParsed(file, f, result) == IF f.ok THEN result ELSE NpmNoted(<<"unreadable", file>>)

\* _emit_npm_edge stops silently at the cap.
EdgesFrom(parent, pins) ==
  [i \in DOMAIN pins |-> [parent |-> parent, child |-> pins[i].name,
                          declared |-> pins[i].version]]
Capped(edges) == IF Len(edges) > MaxEdges THEN SubSeq(edges, 1, MaxEdges) ELSE edges

PinsOf(r, pins, from) == [r EXCEPT !.deps = @ \o Entries(pins, from)]

\* A pin of the project itself makes an entry and an edge from the root.
RootPins(r, pins, from) ==
  [PinsOf(r, pins, from) EXCEPT !.edges = Capped(@ \o EdgesFrom(NoName, pins))]

\* The pins of the given sections, one section after the other.
PinsIn(f, chosen) ==
  FlattenSeq([i \in DOMAIN Sections |->
                IF Sections[i] \in DOMAIN f.sections \cap chosen THEN f.sections[Sections[i]]
                ELSE <<>>])
----------------------------------------------------------------------------
PackageJson(f) ==
  NpmParsed("package.json", f,
    [NpmNothing EXCEPT !.deps = FlattenSeq([i \in DOMAIN Sections |->
       IF Sections[i] \in DOMAIN f.sections
       THEN Entries(f.sections[Sections[i]], Label("package.json", Sections[i], None))
       ELSE <<>>])])

\* TS-SI-007: scripts that run when the package is installed.
InstallHooks == {"preinstall", "install", "postinstall", "prepare"}
PackageJsonFindings(f) == IF f.ok /\ f.scripts \cap InstallHooks # {} THEN {"TS-SI-007"} ELSE {}

\* The edges of installed packages, the first n of them.  When one of these
\* edges reaches the cap the whole parser returns.
ChildEdges(packages, n) ==
  FlattenSeq([i \in 1..n |-> IF packages[i].nested THEN <<>>
                             ELSE EdgesFrom(packages[i].name, packages[i].requires)])
IsFull(r, children) == children # <<>> /\ Len(r.edges) + Len(children) >= MaxEdges
WithChildren(r, packages, file) ==
  LET children == ChildEdges(packages, Len(packages))
  IN [r EXCEPT !.edges = Capped(@ \o children),
               !.notes = @ \cup (IF IsFull(r, children) THEN {<<"edge cap", file>>} ELSE {})]

\* node_modules/<name>: of every package at the top of node_modules, hoisted
\* ones too, an entry when its version is known.
InstalledPins(r, packages) ==
  FlattenSeq([i \in DOMAIN packages |->
    IF IsFull(r, ChildEdges(packages, i - 1)) \/ packages[i].nested \/ packages[i].version = None
    THEN <<>> ELSE <<packages[i]>>])

\* _parse_npm_lockfile: versions 2 and 3 have the root's own sections and
\* the installed packages, version 1 only a flat table.
NpmLockfile(file, f) ==
  NpmParsed(file, f,
    IF f.flat THEN PinsOf(NpmNothing, f.table, Of(file))
    ELSE LET root == RootPins(NpmNothing, PinsIn(f, Range(Sections)), Of(file))
         IN WithChildren(PinsOf(root, InstalledPins(root, f.packages), Of(file)),
                         f.packages, file))

\* Berry's file is YAML and has entries only, the project's own workspace
\* among them; version 1 is read line by line: a header names the package, a
\* blank line or a comment forgets it, its first version line makes the entry.
YarnBerry(f) == PinsOf(NpmNothing, f.blocks, Of("yarn.lock"))

YarnV1Line(acc, line) ==
  CASE line.kind = "header" -> [acc EXCEPT !.name = line.name]
    [] line.kind = "blank" -> [acc EXCEPT !.name = NoName]
    [] line.kind = "version" /\ acc.name # NoName ->
         [name |-> NoName,
          out  |-> Append(acc.out, [name |-> acc.name, version |-> line.version])]
    [] OTHER -> acc
YarnV1(f) ==
  RootPins(NpmNothing, FoldLeft(YarnV1Line, [name |-> NoName, out |-> <<>>], f.lines).out,
           Of("yarn.lock"))

YarnLock(f) ==
  NpmParsed("yarn.lock", f, IF f.berry THEN YarnBerry(f) ELSE YarnV1(f))

\* Of a workspace the root importer only; older files have two top tables,
\* and only these make edges from the root.
PnpmLock(f) ==
  NpmParsed("pnpm-lock.yaml", f,
    LET root == IF f.workspace
                THEN PinsOf(NpmNothing, PinsIn(f, Range(Sections)), Of("pnpm-lock.yaml"))
                ELSE RootPins(NpmNothing, PinsIn(f, {"dependencies", "devDependencies"}),
                              Of("pnpm-lock.yaml"))
    IN WithChildren(root, f.packages, "pnpm-lock.yaml"))

BunLock(f) == NpmParsed("bun.lock", f, PinsOf(NpmNothing, f.packages, Of("bun.lock")))

\* The binary form is refused unless its text form is there.
BunLockb(files) ==
  IF "bun.lock" \in DOMAIN files THEN NpmNothing ELSE NpmNoted(<<"binary lockfile", "bun.lockb">>)

\* _parse_deno_specifier: npm: and jsr: only.
DenoPins(pins, from) ==
  PinsOf(NpmNothing, Only(pins, LAMBDA p : p.scheme \in {"npm", "jsr"}), from)
DenoJson(file, f) == NpmParsed(file, f, DenoPins(f.imports, Of(file)))
DenoLock(f) == NpmParsed("deno.lock", f, DenoPins(f.specifiers, Of("deno.lock")))

\* TS-SI-008: a registry that is not one of npm's own.
NpmrcFindings(f) == IF f.ok /\ "other" \in f.registries THEN {"TS-SI-008"} ELSE {}
----------------------------------------------------------------------------
(* What the coordinator makes of all entries *)

\* --exclude-dev looks at the label: what a lock file repeats stays.
WithoutDev(deps) == Only(deps, LAMBDA d : d.source.section # "devDependencies")

NpmFileRank(file) ==
  CASE file = "bun.lock" -> 80
    [] file = "pnpm-lock.yaml" -> 75
    [] file = "yarn.lock" -> 70
    [] file \in {"package-lock.json", "npm-shrinkwrap.json"} -> 65
    [] file = "deno.lock" -> 60
    [] file = "package.json" -> 40
    [] file \in {"deno.json", "deno.jsonc"} -> 35
    [] OTHER -> 0
NpmRank(from) == NpmFileRank(from.file)

\* Unlike in Python the stronger entry takes the place whole.
KeptNpm(cur, e) ==
  CASE NpmRank(e.source) > NpmRank(cur.source) -> e
    [] NpmRank(e.source) < NpmRank(cur.source) /\ cur.version = None ->
         [cur EXCEPT !.version = e.version]
    [] OTHER -> cur

MergeNpm(acc, e) ==
  IF e.name = NoName THEN acc
  ELSE IF e.name \in NotNpm THEN [acc EXCEPT !.notes = @ \cup {<<"invalid name", e.name>>}]
  ELSE IF PositionOf(acc.deps, e.name) = {} THEN [acc EXCEPT !.deps = Append(@, e)]
  ELSE LET i == CHOOSE j \in PositionOf(acc.deps, e.name) : TRUE
           cur == acc.deps[i]
           clash == Conflict(cur, e) /\ NpmRank(cur.source) # NpmRank(e.source)
       IN [deps  |-> [acc.deps EXCEPT ![i] = KeptNpm(cur, e)],
           notes |-> acc.notes \cup (IF clash THEN {<<"conflict", e.name>>} ELSE {})]

DeduplicateNpm(deps) == FoldLeft(MergeNpm, Nothing, deps)

\* @types/X is a stub of X, and @types/s__X of @s/X, when that is a name.
DependencyNpm(d, pin) ==
  LET stub == d.name \in DOMAIN StubOf /\ StubOf[d.name] \notin NotNpm
  IN [name |-> d.name, version |-> d.version, source |-> d.source,
      transitive |-> FALSE, stub |-> stub,
      runtime |-> IF stub THEN StubOf[d.name] ELSE NoName,
      status |-> "UNCERTAIN", pin |-> pin]

\* The global cap over all lock files.
CapNotes(edges) == IF Len(edges) > MaxEdges THEN {<<"edge cap", "all">>} ELSE {}
----------------------------------------------------------------------------
(* Overrides: [target, by] in the order of their discovery; out stops at    *)
(* the cap.  npm's table of tables is the sequence of its chains, the keys   *)
(* on the way to a pin.                                                      *)

Emit(acc, target, by) ==
  IF target \in NotNpm THEN acc
  ELSE IF Len(acc.out) >= MaxOverrides THEN [acc EXCEPT !.notes = @ \cup {<<"entry cap", "overrides">>}]
  ELSE [acc EXCEPT !.out = Append(@, [target |-> target, by |-> by])]

\* _walk_overrides: what is nested too deeply is not looked at.
WalkOverrides(acc, chain) ==
  IF Len(chain) > MaxNesting THEN [acc EXCEPT !.notes = @ \cup {<<"nesting cap", "overrides">>}]
  ELSE Emit(acc, Last(chain), "NPM_OVERRIDES")

\* _split_yarn_resolution_key: the last segment of the path is the target,
\* also when the path is a scoped name.
YarnTarget(key) == <<Last(key)>>

\* _split_pnpm_overrides_key: "parent>child" is [under, name].
Overrides(f) ==
  LET none == [out |-> <<>>, notes |-> {}]
      npm  == FoldLeft(WalkOverrides, none, f.overrides)
      yarn == FoldLeft(LAMBDA a, r : Emit(a, YarnTarget(r), "YARN_RESOLUTIONS"), npm, f.resolutions)
  IN IF ~ f.ok THEN none
     ELSE FoldLeft(LAMBDA a, r : Emit(a, r.name, "PNPM_OVERRIDES"), yarn, f.pnpm)

\* _detect_npm_pin_overrides: the first override of a name marks it.
PinnedBy(overrides, name) ==
  LET mine == Only(overrides, LAMBDA o : o.target = name)
  IN IF mine = <<>> THEN None ELSE mine[1].by
=============================================================================
