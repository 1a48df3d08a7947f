----------------------------- MODULE GoManifests -----------------------------
(* go.mod, go.sum and vendor/modules.txt (analysers/go/dep_file_parser.py).  *)
EXTENDS DependencyFiles

\* The state of the reader of go.mod: the open block, the requirements, the
\* excluded pairs and the replacements, old path -> [new, version].
GoModStart == [block |-> None, deps |-> <<>>, excludes |-> {}, replaces |-> <<>>]

Require(st, i) ==
  [st EXCEPT !.deps = Append(@, Entry(i.path, i.version,
     Label("go.mod", "require", IF i.indirect THEN "indirect" ELSE None)))]
Replace(st, i) ==
  [st EXCEPT !.replaces = i.path :> [new |-> i.new, version |-> i.version] @@ @]
Exclude(st, i) == [st EXCEPT !.excludes = @ \cup {<<i.path, i.version>>}]

Directive(st, block, i) ==
  CASE block = "require" -> Require(st, i)
    [] block = "replace" -> Replace(st, i)
    [] block = "exclude" -> Exclude(st, i)
    [] OTHER -> st                            \* retract, module, go, toolchain

\* A line opens a block, closes it, is a directive of its own, or an item of
\* the block that is open.
GoModLine(st, line) ==
  CASE line.kind = "open"  -> [st EXCEPT !.block = line.block]
    [] line.kind = "close" -> [st EXCEPT !.block = None]
    [] line.kind = "single" /\ st.block = None -> Directive(st, line.block, line.item)
    [] line.kind = "item" /\ st.block # None -> Directive(st, st.block, line.item)
    [] OTHER -> st

\* A local replacement has no version; one without a version keeps the old.
Replaced(d, replaces) ==
  IF d.name \notin DOMAIN replaces THEN d
  ELSE LET r == replaces[d.name]
       IN CASE r.new = "local" -> [d EXCEPT !.version = "local"]
            [] r.new # "local" /\ r.version # None -> [d EXCEPT !.version = r.version]
            [] OTHER -> d

\* Exclusions are looked up with the version that replaced the required one.
GoMod(f) ==
  LET st == FoldLeft(GoModLine, GoModStart, f.lines)
      replaced == [i \in DOMAIN st.deps |-> Replaced(st.deps[i], st.replaces)]
  IN Parsed("go.mod", f,
       [Nothing EXCEPT !.deps =
          Only(replaced, LAMBDA d : <<d.name, d.version>> \notin st.excludes)])

\* TS-DS-002: a replacement by a URL.
GoModFindings(f) ==
  IF f.ok /\ \E r \in Range(FoldLeft(GoModLine, GoModStart, f.lines).replaces) : r.new = "url"
  THEN {"TS-DS-002"} ELSE {}

\* go.sum: the version of the last line of a module, whatever was selected.
GoSum(f, deps) ==
  LET resolved == FoldLeft(LAMBDA m, l : l.path :> l.version @@ m, <<>>, f.lines)
  IN IF ~ f.ok THEN deps
     ELSE [i \in DOMAIN deps |->
            IF deps[i].name \in DOMAIN resolved
            THEN [deps[i] EXCEPT !.version = resolved[deps[i].name]] ELSE deps[i]]

Vendored(f, deps) ==
  IF ~ f.ok THEN deps
  ELSE [i \in DOMAIN deps |-> IF deps[i].name \in f.modules
                              THEN [deps[i] EXCEPT !.source.section = "require (vendored)"]
                              ELSE deps[i]]
VendorNotes(f, deps) ==
  LET names == {d.name : d \in Range(deps)}
  IN IF ~ f.ok THEN {<<"unreadable", "modules.txt">>}
     ELSE {<<"stowaway", m>> : m \in f.modules \ names}
            \cup {<<"not vendored", n>> : n \in names \ f.modules}

\* The first entry of a module that has a version.
MergeGo(acc, e) ==
  IF PositionOf(acc.deps, e.name) = {} THEN [acc EXCEPT !.deps = Append(@, e)]
  ELSE LET i == CHOOSE j \in PositionOf(acc.deps, e.name) : TRUE
       IN IF e.version # None /\ acc.deps[i].version = None
          THEN [acc EXCEPT !.deps[i] = e] ELSE acc
DeduplicateGo(deps) == FoldLeft(MergeGo, Nothing, deps)
=============================================================================
