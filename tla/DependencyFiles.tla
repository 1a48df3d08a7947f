--------------------------- MODULE DependencyFiles ---------------------------
(***************************************************************************)
(* What the dependency file parsers of all ecosystems share: the entries   *)
(* they find, the notes they leave, and the constants that stand for names *)
(* and limits.  A parser is an operator from the contents of a file to     *)
(*   [deps  |-> the entries in the order of the file,                      *)
(*    notes |-> the errors it reports, as a set of tuples].                *)
(* A file is a record whose field ok says that it can be read and parsed;  *)
(* its tables are sequences, because the order decides which entry wins.   *)
(***************************************************************************)
EXTENDS Naturals, Sequences, FiniteSets, SequencesExt, TLC

CONSTANTS
  Normal,       \* python: name -> name, the PEP 503 form
  Stdlib,       \* python: what sys.stdlib_module_names holds
  NotNpm,       \* npm: names that _is_valid_npm_name rejects
  StubOf,       \* type stubs: name -> the package described, None if unknown
  TestLike,     \* python: group names that begin with test, tests or dev
  MaxDepth,     \* includes, group includes and tox references: 10 in the code
  MaxEdges,     \* LOCKFILE_MAX_EDGES: 50,000
  MaxOverrides, \* _NPM_OVERRIDES_MAX_ENTRIES: 2,048
  MaxNesting    \* _NPM_OVERRIDES_MAX_NESTING: 8

ASSUME CapAssumption ==
  /\ MaxDepth \in Nat /\ MaxEdges \in Nat \ {0}
  /\ MaxOverrides \in Nat /\ MaxNesting \in Nat \ {0}

None == ""       \* no version, no section, no group
NoName == <<>>

\* The label of a source: "pyproject.toml:poetry.group.dev" is
\* Label("pyproject.toml", "poetry.group", "dev").
Label(file, section, group) == [file |-> file, section |-> section, group |-> group]
Of(file) == Label(file, None, None)

\* _RawDep
Entry(name, version, from) ==
  [name |-> name, version |-> version, source |-> from, transitive |-> FALSE]

Nothing      == [deps |-> <<>>, notes |-> {}]
Noted(n)     == [deps |-> <<>>, notes |-> {n}]
One(n, v, s) == [deps |-> <<Entry(n, v, s)>>, notes |-> {}]
Entries(pins, from) == [i \in DOMAIN pins |-> Entry(pins[i].name, pins[i].version, from)]

Joined(a, b) == [deps |-> a.deps \o b.deps, notes |-> a.notes \cup b.notes]
All(results) ==
  [deps  |-> FlattenSeq([i \in DOMAIN results |-> results[i].deps]),
   notes |-> UNION {results[i].notes : i \in DOMAIN results}]
Each(seq, Parse(_)) == All([i \in DOMAIN seq |-> Parse(seq[i])])

\* The elements that pass the test, in their order: SelectSeq, as one of the
\* concatenations that everything here is made of.
Only(seq, Test(_)) ==
  FlattenSeq([i \in DOMAIN seq |-> IF Test(seq[i]) THEN <<seq[i]>> ELSE <<>>])

\* A file too large, unreadable or with a syntax error is noted and skipped.
Parsed(file, f, result) == IF f.ok THEN result ELSE Noted(<<"unreadable", file>>)

PositionOf(deps, name) == {i \in DOMAIN deps : deps[i].name = name}

\* The versions of two sources disagree.
Conflict(a, b) == a.version # None /\ b.version # None /\ a.version # b.version
=============================================================================
