----------------------------- MODULE MavenWalk -----------------------------
(***************************************************************************)
(* analysers/java/maven.py, MavenPomResolver.analyse: from the direct      *)
(* dependencies of the project, the POMs of the local repository are read  *)
(* depth first; each contributes its edges.  What the walk discovers is    *)
(* added to the dependencies, and pin overrides are flagged.  All of this  *)
(* happens before the source code is looked at.                            *)
(*                                                                         *)
(* The order of dependencies within a POM is any order.  Only compile and  *)
(* runtime dependencies are modelled; the others are skipped by the code.  *)
(***************************************************************************)
EXTENDS Naturals, Sequences, FiniteSets

CONSTANTS
  Coord, Version,
  Inputs,     \* records [direct, poms, exclusions, managed]
  Sanitised,  \* sanitise_declared_version, which may strip a text to nothing
  MaxNodes,   \* _MAX_TRANSITIVE_NODES
  Root,       \* the parent of the project's own edges
  NoVersion,  \* no <version>, it is managed elsewhere: Python's None
  Broken,     \* a <version> whose placeholder cannot be resolved
  NoPom,      \* the POM is in no repository
  None        \* not declared, not discovered, not flagged

Child == [coord: Coord, version: Version \cup {NoVersion, Broken}]

Edge == [parent: Coord \cup {Root}, child: Coord, version: Version \cup {NoVersion}]

ASSUME MarksAssumption ==
  /\ Root \notin Coord
  /\ {NoVersion, Broken, None} \cap Version = {}
  /\ NoVersion # Broken /\ None # NoVersion
ASSUME SanitisedAssumption == Sanitised \in [Version -> Version \cup {NoVersion}]
ASSUME MaxNodesAssumption == MaxNodes \in Nat
ASSUME InputsAssumption ==
  \A in \in Inputs :
    /\ in.direct \in [Coord -> Version \cup {NoVersion, None}]
    /\ \A j \in Coord \X Version : in.poms[j] \in {NoPom} \cup SUBSET Child
    /\ in.exclusions \subseteq Coord \X Coord
    /\ in.managed \subseteq Coord

VARIABLES
  direct,      \* version of each dependency of the project's POMs, or None
  poms,        \* the dependencies of each POM
  exclusions,  \* pairs <<excluded, the dependency that excludes it>>
  managed,     \* keys of the root POM's <dependencyManagement>
  phase,       \* "seed", "walk", "expand", "pins", "done"
  worklist,    \* stack of <<label, version>>
  current, todo, visited,
  edges,
  discovered,  \* discovered_transitives
  pin          \* pin_override_kind of each dependency

input == <<direct, poms, exclusions, managed>>
vars == <<input, phase, worklist, current, todo, visited, edges, discovered, pin>>

Direct == {c \in Coord : direct[c] # None}

\* The version of an edge.  The walk goes on with the text as it is.
Declares(v) == IF v \in Version THEN Sanitised[v] ELSE NoVersion

Top == worklist[Len(worklist)]
\* Mutant of Popped: the top is read and left on the stack.
Peeked == worklist

Popped == SubSeq(worklist, 1, Len(worklist) - 1)
----------------------------------------------------------------------------
Init ==
  /\ \E in \in Inputs : /\ direct = in.direct
                        /\ poms = in.poms
                        /\ exclusions = in.exclusions
                        /\ managed = in.managed
  /\ phase = "seed"
  /\ worklist = <<>>
  /\ current = Root
  /\ todo = {}
  /\ visited = {}
  /\ edges = {}
  /\ discovered = [c \in Coord |-> None]
  /\ pin = [c \in Coord |-> None]

SeedDirect(c) ==
  /\ phase = "seed"
  /\ c \in Direct
  /\ \A i \in 1..Len(worklist) : worklist[i][1] # c
  /\ worklist' = Append(worklist, <<c, direct[c]>>)
  /\ edges' = edges \cup {[parent |-> Root, child |-> c,
                           version |-> Declares(direct[c])]}
  /\ UNCHANGED <<input, phase, current, todo, visited, discovered, pin>>

Seeded ==
  /\ phase = "seed"
  /\ Len(worklist) = Cardinality(Direct)
  /\ phase' = "walk"
  /\ UNCHANGED <<input, worklist, current, todo, visited, edges, discovered, pin>>

SkipVisited ==
  /\ phase = "walk"
  /\ worklist # <<>>
  /\ Top[1] \in visited
  /\ worklist' = Popped
  /\ UNCHANGED <<input, phase, current, todo, visited, edges, discovered, pin>>

\* Mutants of Visit: a label is read again for another version; the node cap
\* is one too low.
VisitAgain ==
  /\ phase = "walk"
  /\ worklist # <<>>
  /\ visited' = visited \cup {Top[1]}
  /\ worklist' = Popped
  /\ IF Top[2] = NoVersion \/ poms[Top] = NoPom
     THEN UNCHANGED <<phase, current, todo>>
     ELSE phase' = "expand" /\ current' = Top[1] /\ todo' = poms[Top]
  /\ UNCHANGED <<input, edges, discovered, pin>>

VisitBelow(cap) ==
  /\ phase = "walk"
  /\ worklist # <<>>
  /\ Top[1] \notin visited
  /\ visited' = visited \cup {Top[1]}
  /\ worklist' = Popped
  /\ CASE Cardinality(visited') > cap -> phase' = "pins" /\ UNCHANGED <<current, todo>>
       [] OTHER ->
            IF Top[2] = NoVersion \/ poms[Top] = NoPom
            THEN UNCHANGED <<phase, current, todo>>
            ELSE phase' = "expand" /\ current' = Top[1] /\ todo' = poms[Top]
  /\ UNCHANGED <<input, edges, discovered, pin>>

VisitOneLess == VisitBelow(MaxNodes - 1)

\* The label is marked before it is known whether its POM can be read.
Visit ==
  /\ phase = "walk"
  /\ worklist # <<>>
  /\ Top[1] \notin visited
  /\ visited' = visited \cup {Top[1]}
  /\ worklist' = Popped
  /\ CASE Cardinality(visited') > MaxNodes ->
            phase' = "pins" /\ UNCHANGED <<current, todo>>
       [] OTHER ->
            IF Top[2] = NoVersion \/ poms[Top] = NoPom
            THEN UNCHANGED <<phase, current, todo>>
            ELSE phase' = "expand" /\ current' = Top[1] /\ todo' = poms[Top]
  /\ UNCHANGED <<input, edges, discovered, pin>>

\* Mutant of ExpandChild: the first version stays, also when it is absent.
ExpandChildFirst(ch) ==
  /\ phase = "expand"
  /\ ch \in todo
  /\ todo' = todo \ {ch}
  /\ edges' = edges \cup {[parent |-> current, child |-> ch.coord,
                           version |-> Declares(ch.version)]}
  /\ discovered' = [discovered EXCEPT ![ch.coord] =
                      IF @ = None THEN Declares(ch.version) ELSE @]
  /\ worklist' = IF ch.version # Broken /\ ch.coord \notin visited
                 THEN Append(worklist, <<ch.coord, ch.version>>) ELSE worklist
  /\ UNCHANGED <<input, phase, current, visited, pin>>

\* One <dependency> of the POM.  An edge is always emitted; the label is not
\* pushed when the version is a broken placeholder, but is when it is absent.
ExpandChild(ch) ==
  /\ phase = "expand"
  /\ ch \in todo
  /\ todo' = todo \ {ch}
  /\ edges' = edges \cup {[parent |-> current, child |-> ch.coord,
                           version |-> Declares(ch.version)]}
  /\ discovered' = [discovered EXCEPT ![ch.coord] =
                      IF @ \in {None, NoVersion} THEN Declares(ch.version) ELSE @]
  /\ worklist' = IF ch.version # Broken /\ ch.coord \notin visited
                 THEN Append(worklist, <<ch.coord, ch.version>>) ELSE worklist
  /\ UNCHANGED <<input, phase, current, visited, pin>>

Expanded ==
  /\ phase = "expand"
  /\ todo = {}
  /\ phase' = "walk"
  /\ UNCHANGED <<input, worklist, current, todo, visited, edges, discovered, pin>>

Walked ==
  /\ phase = "walk"
  /\ worklist = <<>>
  /\ phase' = "pins"
  /\ UNCHANGED <<input, worklist, current, todo, visited, edges, discovered, pin>>

\* G3: every discovered coordinate becomes a dependency, with status IN_USE; a
\* direct one is UNCERTAIN until the source has been analysed.
Dependencies == Direct \cup {c \in Coord : discovered[c] # None}

\* A coordinate that is direct already is skipped: it keeps the project's own
\* version, also when that is none.
ReportedVersion(c) == IF c \in Direct THEN direct[c] ELSE discovered[c]

Status(c) == IF c \in Direct THEN "UNCERTAIN" ELSE "IN_USE"

ReachableFrom(S) ==
  {c \in Coord : \A T \in SUBSET Coord :
     S \subseteq T /\ (\A e \in edges : e.parent \in T => e.child \in T) => c \in T}
Children(p) == {e.child : e \in {x \in edges : x.parent = p}}

\* _detect_pin_overrides: pattern (a), an exclusion by another dependency;
\* else pattern (b), dependencyManagement.
PinKind(c) ==
  CASE \E x \in exclusions : x[1] = c /\ x[2] # c -> "EXCLUSION"
    [] (~ \E x \in exclusions : x[1] = c /\ x[2] # c)
       /\ c \in managed
       /\ c \in ReachableFrom(Children(Root))
       /\ Status(c) # "IN_USE" -> "DEPENDENCY_MANAGEMENT"
    [] OTHER -> None

DetectPinOverrides ==
  /\ phase = "pins"
  /\ pin' = [c \in Coord |-> IF c \in Dependencies THEN PinKind(c) ELSE None]
  /\ phase' = "done"
  /\ UNCHANGED <<input, worklist, current, todo, visited, edges, discovered>>

Returned == phase = "done" /\ UNCHANGED vars

Step ==
  \/ \E c \in Coord : SeedDirect(c)
  \/ Seeded
  \/ SkipVisited
  \/ Visit
  \/ \E ch \in Child : ExpandChild(ch)
  \/ Expanded
  \/ Walked
  \/ DetectPinOverrides

Next == Step \/ Returned

Spec == Init /\ [][Next]_vars

\* A single-threaded loop.
FairSpec == Spec /\ WF_vars(Step)
----------------------------------------------------------------------------
TypeOK ==
  /\ phase \in {"seed", "walk", "expand", "pins", "done"}
  /\ worklist \in Seq(Coord \X (Version \cup {NoVersion}))
  /\ current \in Coord \cup {Root}
  /\ todo \subseteq Child
  /\ visited \subseteq Coord
  /\ edges \subseteq Edge
  /\ discovered \in [Coord -> Version \cup {NoVersion, None}]
  /\ pin \in [Coord -> {"EXCLUSION", "DEPENDENCY_MANAGEMENT", None}]

\* The edges below a coordinate are those of one POM, of a version that
\* another edge declares for that coordinate, and all of them once the POM has
\* been read: the walk neither mixes the POMs of two versions nor invents a
\* version, and no version left out or broken suppresses an edge.
EdgesOfOnePom ==
  \A p \in Coord :
    Children(p) # {} =>
      \E v \in Version :
        /\ \E f \in edges : f.child = p /\ f.version = Declares(v)
        /\ poms[<<p, v>>] # NoPom
        /\ LET below == {[parent |-> p, child |-> ch.coord, version |-> Declares(ch.version)] :
                           ch \in poms[<<p, v>>]}
               found == {e \in edges : e.parent = p}
           IN  IF phase = "expand" /\ current = p THEN found \subseteq below ELSE found = below

\* FR-191 and G3: what any edge names is a dependency of the report and is
\* reached from the root.  One that only the walk brings has the version of an
\* edge that names it, in whatever order the edges came, and has none only if no
\* edge gives one.  (A direct one keeps what the project says of it.)
EveryEdgeIsReported ==
  phase = "done" =>
    \A e \in edges :
      /\ e.child \in Dependencies
      /\ e.child \in ReachableFrom(Children(Root))
      /\ e.child \notin Direct =>
           /\ \E g \in edges : g.child = e.child /\ g.version = ReportedVersion(e.child)
           /\ e.version # NoVersion => ReportedVersion(e.child) # NoVersion

\* When every edge to a coordinate declares the same version, and only one text
\* is sanitised to it, its POM is read if there is one, whatever the order of the
\* walk and below the node cap.
AgreedPomIsRead ==
  phase = "done" /\ Cardinality(visited) <= MaxNodes =>
    \A f \in edges, v \in Version :
      /\ f.version = Declares(v) /\ f.version # NoVersion
      /\ \A w \in Version : Declares(w) = f.version => w = v
      /\ poms[<<f.child, v>>] # NoPom
      /\ \A g \in edges : g.child = f.child => g.version = f.version
      => Children(f.child) = {ch.coord : ch \in poms[<<f.child, v>>]}

\* The walk ends, on cyclic graphs too.
WalkEnds == <>(phase = "done")

=============================================================================
