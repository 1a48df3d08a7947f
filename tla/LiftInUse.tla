----------------------------- MODULE LiftInUse -----------------------------
(***************************************************************************)
(* The last step of every scarno run (cli.py, FR-150): the results of the  *)
(* per-language analysers are merged, and every SAFE dependency that an    *)
(* IN_USE one reaches through the merged dependency graph is lifted to     *)
(* IN_USE.  A dependency that is left SAFE is reported as removable, so a  *)
(* SAFE dependency that this sweep misses is advice to break the build.    *)
(*                                                                         *)
(* A dependency is an element of Dep (a position in the merged list).  It  *)
(* is a separate thing from its name: two analysers may each report a      *)
(* dependency of the same name (an npm and a PyPI package called "redis"), *)
(* and the graph, the worklist and lifted_by are keyed by name alone.      *)
(*                                                                         *)
(* The code iterates over Python sets of strings, whose order is that of   *)
(* the process's hash seed; each such loop is a nondeterministic choice.   *)
(***************************************************************************)
EXTENDS Naturals, Sequences, FiniteSets

CONSTANTS
  Name,      \* canonical dependency names
  Eco,       \* ecosystems; one analyser contributes one sub-graph
  Dep,       \* positions in the merged dependency list
  Inputs,    \* what the analysers may hand over: records [decl, subgraphs]
  NoRoot     \* stands for Python's None, and for "no entry in the dict"

Status == {"SAFE", "UNCERTAIN", "IN_USE", "UNDECLARED"}

Dependency == [name: Name, eco: Eco, status: Status,
               isTransitive: BOOLEAN, pinOverride: BOOLEAN]

Graph == [Name -> SUBSET Name]

ASSUME NoRootAssumption == NoRoot \notin Name
ASSUME InputsAssumption ==
  Inputs \subseteq [decl: [Dep -> Dependency], subgraphs: [Eco -> Graph]]

VARIABLES
  decl,             \* the merged dependencies, as the analysers classified them
  subgraphs,        \* each analyser's dep_graph
  pc,               \* where the sweep is
  worklist,         \* stack of <<name, root>>
  current,          \* the pair whose children are being looked at
  todo,             \* the children of current not looked at yet
  visited,          \* names already expanded
  liftedBy,         \* name -> the IN_USE root that reached it first
  status,           \* the reported status of each dependency
  redundantParent   \* the reported redundant_parent (NoRoot: not redundant)

inputs  == <<decl, subgraphs>>
outputs == <<status, redundantParent>>
vars == <<decl, subgraphs, pc, worklist, current, todo, visited, liftedBy,
          status, redundantParent>>

\* The adjacency map of the merged result: children are united per name.
depGraph == [n \in Name |-> UNION {subgraphs[e][n] : e \in Eco}]

InUseNames == {decl[d].name : d \in {x \in Dep : decl[x].status = "IN_USE"}}

OnWorklist(n) == \E i \in 1..Len(worklist) : worklist[i][1] = n
----------------------------------------------------------------------------
Init ==
  /\ \E in \in Inputs : decl = in.decl /\ subgraphs = in.subgraphs
  /\ pc = "seed"
  /\ worklist = <<>>
  /\ current = <<NoRoot, NoRoot>>
  /\ todo = {}
  /\ visited = {}
  /\ liftedBy = [n \in Name |-> NoRoot]
  /\ status = [d \in Dep |-> decl[d].status]
  /\ redundantParent = [d \in Dep |-> NoRoot]

\* The list comprehension over in_use_names: any order.
Seed(n) ==
  /\ pc = "seed"
  /\ n \in InUseNames
  /\ ~ OnWorklist(n)
  /\ worklist' = Append(worklist, <<n, n>>)
  /\ UNCHANGED <<inputs, pc, current, todo, visited, liftedBy, outputs>>

\* Nothing is IN_USE: the result is returned as it came.
NothingInUse ==
  /\ pc = "seed"
  /\ InUseNames = {}
  /\ pc' = "done"
  /\ UNCHANGED <<inputs, worklist, current, todo, visited, liftedBy, outputs>>

Seeded ==
  /\ pc = "seed"
  /\ InUseNames # {}
  /\ \A n \in InUseNames : OnWorklist(n)
  /\ pc' = "pop"
  /\ UNCHANGED <<inputs, worklist, current, todo, visited, liftedBy, outputs>>

Top == worklist[Len(worklist)]
\* Mutant of Popped: the top is read and left on the stack.
Peeked == worklist

Popped == SubSeq(worklist, 1, Len(worklist) - 1)

SkipVisited ==
  /\ pc = "pop"
  /\ worklist # <<>>
  /\ Top[1] \in visited
  /\ worklist' = Popped
  /\ UNCHANGED <<inputs, pc, current, todo, visited, liftedBy, outputs>>

Visit ==
  /\ pc = "pop"
  /\ worklist # <<>>
  /\ Top[1] \notin visited
  /\ current' = Top
  /\ worklist' = Popped
  /\ visited' = visited \cup {Top[1]}
  /\ todo' = depGraph[Top[1]]
  /\ pc' = "expand"
  /\ UNCHANGED <<inputs, liftedBy, outputs>>

\* Mutants of ExpandChild: a reached child is not itself expanded; only one
\* child is looked at.
ExpandChildShallow(c) ==
  /\ pc = "expand"
  /\ c \in todo
  /\ todo' = todo \ {c}
  /\ liftedBy' = [liftedBy EXCEPT ![c] =
                    IF @ = NoRoot /\ c \notin visited THEN current[2] ELSE @]
  /\ UNCHANGED <<inputs, pc, current, visited, worklist, outputs>>

ExpandOneChild(c) ==
  /\ pc = "expand"
  /\ c \in todo
  /\ todo' = {}
  /\ IF c \in visited
     THEN UNCHANGED <<liftedBy, worklist>>
     ELSE /\ liftedBy' = [liftedBy EXCEPT ![c] =
                            IF @ = NoRoot THEN current[2] ELSE @]
          /\ worklist' = Append(worklist, <<c, current[2]>>)
  /\ UNCHANGED <<inputs, pc, current, visited, outputs>>

\* One turn of the loop over the children.  The root of the first path that
\* gets to a name stays (dict.setdefault).
ExpandChild(c) ==
  /\ pc = "expand"
  /\ c \in todo
  /\ todo' = todo \ {c}
  /\ IF c \in visited
     THEN UNCHANGED <<liftedBy, worklist>>
     ELSE /\ liftedBy' = [liftedBy EXCEPT ![c] =
                            IF @ = NoRoot THEN current[2] ELSE @]
          /\ worklist' = Append(worklist, <<c, current[2]>>)
  /\ UNCHANGED <<inputs, pc, current, visited, outputs>>

Expanded ==
  /\ pc = "expand"
  /\ todo = {}
  /\ pc' = "pop"
  /\ UNCHANGED <<inputs, worklist, current, todo, visited, liftedBy, outputs>>

\* The dependency list is rebuilt: SAFE and reached becomes IN_USE, and a
\* direct declaration that is no pin substitute is flagged redundant.
Lifts(d) == decl[d].status = "SAFE" /\ liftedBy[decl[d].name] # NoRoot

\* Mutant of Redundant: pin substitutes are not looked at.
RedundantPinned(d) == ~ decl[d].isTransitive

Redundant(d) == ~ decl[d].isTransitive /\ ~ decl[d].pinOverride

Rebuild ==
  /\ pc = "pop"
  /\ worklist = <<>>
  /\ status' = [d \in Dep |-> IF Lifts(d) THEN "IN_USE" ELSE decl[d].status]
  /\ redundantParent' =
       [d \in Dep |-> IF Lifts(d) /\ Redundant(d)
                      THEN liftedBy[decl[d].name] ELSE NoRoot]
  /\ pc' = "done"
  /\ UNCHANGED <<inputs, worklist, current, todo, visited, liftedBy>>

\* The function has returned.
Returned == pc = "done" /\ UNCHANGED vars

Step ==
  \/ \E n \in Name : Seed(n)
  \/ NothingInUse
  \/ Seeded
  \/ SkipVisited
  \/ Visit
  \/ \E c \in Name : ExpandChild(c)
  \/ Expanded
  \/ Rebuild

Next == Step \/ Returned

Spec == Init /\ [][Next]_vars

\* A single-threaded loop: it goes on as long as it can take a step.
FairSpec == Spec /\ WF_vars(Step)
----------------------------------------------------------------------------
TypeOK ==
  /\ decl \in [Dep -> Dependency]
  /\ subgraphs \in [Eco -> Graph]
  /\ pc \in {"seed", "pop", "expand", "done"}
  /\ worklist \in Seq(Name \X Name)
  /\ current \in (Name \cup {NoRoot}) \X (Name \cup {NoRoot})
  /\ pc = "expand" => current \in Name \X Name
  /\ todo \in SUBSET Name
  /\ visited \in SUBSET Name
  /\ liftedBy \in [Name -> Name \cup {NoRoot}]
  /\ status \in [Dep -> Status]
  /\ redundantParent \in [Dep -> Name \cup {NoRoot}]

ClosedUnderGraph(S) == \A n \in S : depGraph[n] \subseteq S

\* m is on every graph-closed set that n is on: m is n or a descendant of n.
Reaches(n, m) == \A S \in SUBSET Name : n \in S /\ ClosedUnderGraph(S) => m \in S

\* When the sweep returns, no dependency is reported SAFE (removable) while
\* one reported IN_USE has it as a child, whether the parent was IN_USE from
\* the start or was itself lifted.  Restricted to names that no IN_USE
\* dependency of another ecosystem shares: the sweep looks at names only and
\* takes the child for the dependency that is IN_USE already.
NoSafeChildOfInUse ==
  pc = "done" =>
    \A p, d \in Dep :
      /\ status[p] = "IN_USE"
      /\ decl[d].name \in depGraph[decl[p].name]
      /\ decl[d].name \notin InUseNames
      => status[d] # "SAFE"

\* The verdicts are a function of the input: whatever the order in which the
\* sets were iterated, a SAFE dependency comes out IN_USE exactly when some
\* IN_USE dependency reaches it, through parents of any status.  (Names that an
\* IN_USE dependency shares are again left out.)
VerdictsAreDetermined ==
  pc = "done" =>
    \A d \in Dep :
      decl[d].status = "SAFE" /\ decl[d].name \notin InUseNames =>
        (status[d] = "IN_USE" <=> \E n \in InUseNames : Reaches(n, decl[d].name))

\* A dependency whose status the sweep changed was SAFE, and some dependency
\* the analysers found IN_USE really reaches it: the sweep neither touches an
\* UNCERTAIN or UNDECLARED verdict nor keeps an unreachable dependency.
OnlyReachedAreLifted ==
  \A d \in Dep :
    status[d] # decl[d].status =>
      /\ decl[d].status = "SAFE"
      /\ \E p \in Dep : /\ decl[p].status = "IN_USE"
                        /\ Reaches(decl[p].name, decl[d].name)

\* The report's "remove this manifest line, <parent> keeps it" is only given
\* for a parent that is another name, is itself IN_USE, and reaches the
\* dependency; and never for a pin substitute.
RedundantParentKeepsItAlive ==
  \A d \in Dep :
    redundantParent[d] # NoRoot =>
      /\ redundantParent[d] # decl[d].name
      /\ redundantParent[d] \in InUseNames
      /\ Reaches(redundantParent[d], decl[d].name)
      /\ ~ decl[d].pinOverride

\* The sweep ends on every graph, cycles and self-loops included.
SweepEnds == <>(pc = "done")
----------------------------------------------------------------------------
(***************************************************************************)
(* The inductive invariant of the sweep.  A name is accounted for when an  *)
(* IN_USE dependency bears it or a root has been recorded for it.          *)
(***************************************************************************)
Accounted(n) == n \in InUseNames \/ liftedBy[n] # NoRoot

Running == pc \in {"pop", "expand"}

\* Every recorded root is IN_USE, reaches the name, and is not the name: the
\* root was visited before anything was recorded for it, or is the name of a
\* seed that is still on the worklist.
RootsJustified ==
  /\ \A n \in Name : liftedBy[n] # NoRoot =>
       /\ liftedBy[n] \in InUseNames
       /\ liftedBy[n] # n
       /\ Reaches(liftedBy[n], n)
  /\ \A i \in 1..Len(worklist) :
       /\ worklist[i][2] \in InUseNames
       /\ Reaches(worklist[i][2], worklist[i][1])
       /\ worklist[i][2] \in visited \/ worklist[i][2] = worklist[i][1]
  /\ pc = "expand" =>
       /\ current[2] \in InUseNames
       /\ current[2] \in visited
       /\ Reaches(current[2], current[1])

\* Whatever is visited or waiting is accounted for, and whatever is accounted
\* for has been visited or is waiting.
NothingForgotten ==
  /\ \A n \in visited : Accounted(n)
  /\ \A i \in 1..Len(worklist) : Accounted(worklist[i][1])
  /\ Running => \A n \in Name : Accounted(n) => n \in visited \/ OnWorklist(n)
  /\ pc = "done" => \A n \in Name : Accounted(n) => n \in visited

\* Each child of a visited name is accounted for, or is still to be looked at.
ChildrenAccounted ==
  /\ \A n \in visited : \A m \in depGraph[n] :
       Accounted(m) \/ (pc = "expand" /\ n = current[1] /\ m \in todo)
  /\ pc = "expand" => /\ current[1] \in visited
                      /\ todo \subseteq depGraph[current[1]]

\* Before the sweep starts nothing is recorded, before it returns nothing is
\* reported, and afterwards the report is what liftedBy says.
PhaseInv ==
  /\ pc = "seed" => visited = {} /\ liftedBy = [n \in Name |-> NoRoot]
  /\ pc # "done" => /\ status = [d \in Dep |-> decl[d].status]
                    /\ redundantParent = [d \in Dep |-> NoRoot]
  /\ pc = "done" =>
       /\ status = [d \in Dep |-> IF Lifts(d) THEN "IN_USE" ELSE decl[d].status]
       /\ redundantParent =
            [d \in Dep |-> IF Lifts(d) /\ Redundant(d)
                           THEN liftedBy[decl[d].name] ELSE NoRoot]

\* The five parts together are what one iteration of the loop preserves.
SweepInv ==
  TypeOK /\ RootsJustified /\ NothingForgotten /\ ChildrenAccounted /\ PhaseInv
=============================================================================
