------------------------ MODULE VersionedClassifier ------------------------
(***************************************************************************)
(* core/classifier.py, classify_versioned (REQ-20): from the verdicts on   *)
(* the direct dependencies and the version-keyed edges of the build, a     *)
(* verdict for each (coordinate, declared version) node.  A node that is   *)
(* marked removable is advice to drop that version.                        *)
(*                                                                         *)
(* Coordinates are normalised names, each with the first dependency of     *)
(* that name (dep_by_name.setdefault) or none.  Versions are numbers in    *)
(* the order of their texts; NoVersion is Python's None, which sorts first *)
(* because the sort key is (declared_version or "").                       *)
(***************************************************************************)
EXTENDS Naturals, FiniteSets

CONSTANTS
  Coord,     \* normalised coordinates
  Version,   \* declared or resolved versions: positive numbers
  Covers,    \* pairs <<declared, resolved>> that a version range accepts
  Cap,       \* _COORD_VERSION_CAP, nodes kept per coordinate
  Inputs,    \* what the resolver hands over: records [deps, edges, resolved]
  NoDep,     \* the coordinate occurs in edges only
  Root,      \* the parent of the project's own edges ("" in the code)
  Unset      \* node_status has no entry

NoVersion == 0

Status == {"SAFE", "UNCERTAIN", "IN_USE", "UNDECLARED"}

\* registered: the ecosystem has a pin detector, has no pin mechanism, or is
\* one of the exempt placeholders.
Direct == {d \in [status: Status, registered: BOOLEAN,
                  pin: {"none", "static", "dynamic"}, redundant: BOOLEAN] :
             ~ (d.pin # "none" /\ d.redundant)}

Node == Coord \X (Version \cup {NoVersion})

Edge == [parent: Coord \cup {Root}, child: Coord,
         version: Version \cup {NoVersion}]

ASSUME VersionAssumption == Version \subseteq Nat \ {0} /\ IsFiniteSet(Version)
ASSUME CapAssumption == Cap \in Nat \ {0}
ASSUME MarksAssumption ==
  Root \notin Coord /\ NoDep \notin Direct /\ Unset \notin Status
ASSUME InputsAssumption ==
  \A in \in Inputs : /\ in.deps \in [Coord -> Direct \cup {NoDep}]
                     /\ in.edges \subseteq Edge
                     /\ in.resolved \in [Coord -> Version \cup {NoVersion}]

VARIABLES
  deps, edges, resolved,  \* the inputs
  pc,          \* "edges", "nodes", "cap", "rollup", "done"
  rootsLeft,   \* the project's own edges not propagated yet
  nodeStatus,  \* node_status
  verdict,     \* the VersionedNode of each node
  kept,        \* the nodes that survive the cap
  rollup       \* the returned dependency status of each coordinate

inputs == <<deps, edges, resolved>>
vars == <<deps, edges, resolved, pc, rootsLeft, nodeStatus, verdict, kept, rollup>>

Rank == [s \in Status |-> CASE s = "SAFE" -> 0 [] s = "UNDECLARED" -> 1
                            [] s = "UNCERTAIN" -> 2 [] s = "IN_USE" -> 3]

\* Mutant of Stronger: the last verdict wins.
Latest(current, new) == new

Stronger(current, new) ==
  IF current = Unset \/ Rank[new] > Rank[current] THEN new ELSE current

Strongest(S) == CHOOSE s \in S : \A t \in S : Rank[t] <= Rank[s]

\* Mutant of Effective: the status is taken as it is.
EffectiveAsIs(d) == d.status

\* ADR-012: a SAFE direct dependency of an ecosystem nobody registered is
\* only UNCERTAIN.
Effective(d) ==
  IF d.status = "SAFE" /\ ~ d.registered THEN "UNCERTAIN" ELSE d.status

Children(c) == {e.child : e \in {x \in edges : x.parent = c}}

\* The names the walk from c visits: the least set with c and all children.
Visited(c) ==
  {n \in Coord : \A S \in SUBSET Coord :
     c \in S /\ (\A m \in S : Children(m) \subseteq S) => n \in S}

\* The nodes whose status the walk from root edge e strengthens.
WalkedNodes(e) ==
  {<<e.child, e.version>>} \cup
  {<<x.child, x.version>> : x \in {y \in edges : y.parent \in Visited(e.child)}}

IsResolved(n) ==
  /\ n[2] # NoVersion
  /\ resolved[n[1]] # NoVersion
  /\ n[2] = resolved[n[1]] \/ <<n[2], resolved[n[1]]>> \in Covers

NodesOf(c) == {n \in Node : n[1] = c /\ nodeStatus[n] # Unset}
KeptOf(c) == {n \in kept : n[1] = c}
----------------------------------------------------------------------------
Init ==
  /\ \E in \in Inputs : /\ deps = in.deps
                        /\ edges = in.edges
                        /\ resolved = in.resolved
  /\ pc = "edges"
  /\ rootsLeft = {e \in edges : e.parent = Root}
  /\ nodeStatus = [n \in Node |-> Unset]
  /\ verdict = [n \in Node |-> Unset]
  /\ kept = {}
  /\ rollup = [c \in Coord |-> IF deps[c] = NoDep THEN Unset ELSE deps[c].status]

\* One turn of the loop over the root edges, with the walk below it.  Taking
\* the strongest status is commutative, so neither order shows.
PropagateRoot(e) ==
  /\ pc = "edges"
  /\ e \in rootsLeft
  /\ rootsLeft' = rootsLeft \ {e}
  /\ nodeStatus' =
       IF deps[e.child] = NoDep THEN nodeStatus
       ELSE [n \in Node |->
              IF n \in WalkedNodes(e)
              THEN Stronger(nodeStatus[n], Effective(deps[e.child]))
              ELSE nodeStatus[n]]
  /\ UNCHANGED <<inputs, pc, verdict, kept, rollup>>

\* The node of a status: only a SAFE one is removable.
Held(s) == [status |-> s, removable |-> s = "SAFE"]

\* Mutants of Safety: the resolved version is not kept; the resolved version
\* wins over a dynamic pin.
SafetyUnresolved(d, n) ==
  Held(IF d # NoDep /\ d.pin = "dynamic" THEN "UNCERTAIN"
       ELSE IF d # NoDep /\ (d.pin = "static" \/ d.redundant) THEN "IN_USE"
       ELSE nodeStatus[n])

SafetyResolvedFirst(d, n) ==
  Held(IF IsResolved(n) THEN "IN_USE"
       ELSE IF d # NoDep /\ d.pin = "dynamic" THEN "UNCERTAIN"
       ELSE IF d # NoDep /\ (d.pin = "static" \/ d.redundant) THEN "IN_USE"
       ELSE nodeStatus[n])

\* apply_pin_override_safety, after the node was built from its status.
Safety(d, n) ==
  Held(IF d # NoDep /\ d.pin = "dynamic" THEN "UNCERTAIN"
       ELSE IF d # NoDep /\ (d.pin = "static" \/ d.redundant) THEN "IN_USE"
       ELSE IF IsResolved(n) THEN "IN_USE"
       ELSE nodeStatus[n])

BuildNodes ==
  /\ pc = "edges"
  /\ rootsLeft = {}
  /\ verdict' = [n \in Node |-> IF nodeStatus[n] = Unset THEN Unset
                                ELSE Safety(deps[n[1]], n)]
  /\ pc' = "cap"
  /\ UNCHANGED <<inputs, rootsLeft, nodeStatus, kept, rollup>>

\* Mutant of Before: by version text alone.
BeforeByText(m, n) == m[2] < n[2]

\* The sort key of the cap: resolved nodes first, then by version text.
Before(m, n) ==
  \/ IsResolved(m) /\ ~ IsResolved(n)
  \/ (IsResolved(m) <=> IsResolved(n)) /\ m[2] < n[2]

CapNodes ==
  /\ pc = "cap"
  /\ kept' = {n \in UNION {NodesOf(c) : c \in Coord} :
                Cardinality({m \in NodesOf(n[1]) : Before(m, n)}) < Cap}
  /\ pc' = "rollup"
  /\ UNCHANGED <<inputs, rootsLeft, nodeStatus, verdict, rollup>>

RollUp ==
  /\ pc = "rollup"
  /\ rollup' = [c \in Coord |->
                  IF deps[c] = NoDep \/ KeptOf(c) = {} THEN rollup[c]
                  ELSE Strongest({verdict[n].status : n \in KeptOf(c)})]
  /\ pc' = "done"
  /\ UNCHANGED <<inputs, rootsLeft, nodeStatus, verdict, kept>>

Returned == pc = "done" /\ UNCHANGED vars

Step ==
  \/ \E e \in edges : PropagateRoot(e)
  \/ BuildNodes
  \/ CapNodes
  \/ RollUp

Next == Step \/ Returned

Spec == Init /\ [][Next]_vars

\* multi_version_coords: more than one node, not all accepting the resolved
\* version.
MultiVersion ==
  {c \in Coord : /\ Cardinality(KeptOf(c)) > 1
                 /\ \E n \in KeptOf(c) : ~ IsResolved(n)}
----------------------------------------------------------------------------
TypeOK ==
  /\ deps \in [Coord -> Direct \cup {NoDep}]
  /\ edges \subseteq Edge
  /\ resolved \in [Coord -> Version \cup {NoVersion}]
  /\ pc \in {"edges", "cap", "rollup", "done"}
  /\ rootsLeft \subseteq edges
  /\ nodeStatus \in [Node -> Status \cup {Unset}]
  /\ verdict \in [Node -> [status: Status, removable: BOOLEAN] \cup {Unset}]
  /\ kept \subseteq Node
  /\ rollup \in [Coord -> Status \cup {Unset}]
  /\ \A c \in Coord : rollup[c] = Unset <=> deps[c] = NoDep

\* The direct dependencies, by root edge, whose requirements include node n.
RequiredBy(n) ==
  {e \in edges : /\ e.parent = Root
                 /\ deps[e.child] # NoDep
                 /\ n \in WalkedNodes(e)}

\* A version is only marked removable when every direct dependency that
\* requires it is SAFE in an ecosystem whose pins the analyser can see, and it
\* is neither the resolved version nor held by a pin.
RemovableOnlyIfUnused ==
  \A n \in Node :
    verdict[n] # Unset /\ verdict[n].removable =>
      /\ RequiredBy(n) # {}
      /\ \A e \in RequiredBy(n) : /\ deps[e.child].status = "SAFE"
                                  /\ deps[e.child].registered
      /\ ~ IsResolved(n)
      /\ deps[n[1]] # NoDep => deps[n[1]].pin = "none"

\* SEC-NEW-39: the cap bounds the nodes of a coordinate, drops nothing it need
\* not drop, and never drops every node the resolver settled on.
CapKeepsResolved ==
  pc \in {"rollup", "done"} =>
    \A c \in Coord :
      /\ Cardinality(KeptOf(c)) <= Cap
      /\ Cardinality(NodesOf(c)) <= Cap => KeptOf(c) = NodesOf(c)
      /\ (\E n \in NodesOf(c) : IsResolved(n)) => \E n \in KeptOf(c) : IsResolved(n)

\* SUC-42: the classifier never hands back SAFE for a pinned dependency that
\* some edge declares; a dynamic pin is left to manual review.
PinnedNeverSafe ==
  pc = "done" =>
    \A c \in Coord :
      deps[c] # NoDep /\ deps[c].pin # "none" /\ NodesOf(c) # {} =>
        rollup[c] = IF deps[c].pin = "dynamic" THEN "UNCERTAIN" ELSE "IN_USE"

\* ADR-012 as far as the cap allows: a SAFE direct dependency of an
\* unregistered ecosystem comes back stronger than SAFE.
FailsClosed ==
  pc = "done" =>
    \A e \in edges :
      /\ e.parent = Root
      /\ deps[e.child] # NoDep
      /\ ~ deps[e.child].registered
      /\ Cardinality(NodesOf(e.child)) <= Cap
      => rollup[e.child] # "SAFE"
=============================================================================
