----------------------------- MODULE JavaReport -----------------------------
(***************************************************************************)
(* What a run over a Java project reports: the per-version nodes come from *)
(* classify_versioned, but the dependency list it returns is dropped and   *)
(* the source analyser's verdicts are kept (analysers/java/__init__.py);   *)
(* cli.py then lifts what an IN_USE dependency reaches.  The lift is the   *)
(* result proved of LiftInUse, in one step.                                *)
(***************************************************************************)
EXTENDS VersionedClassifier

VARIABLE report   \* the reported status of each declared coordinate

jvars == <<vars, report>>

\* dep_graph is the version-less form of dep_edges.
LiftedFrom(c) ==
  {d \in Coord : deps[d] # NoDep /\ deps[d].status = "IN_USE" /\ c \in Visited(d)}

JInit == Init /\ report = [c \in Coord |-> Unset]

Classify == Step /\ UNCHANGED report

Assemble ==
  /\ pc = "done"
  /\ report' = [c \in Coord |->
       CASE deps[c] = NoDep -> Unset
         [] deps[c] # NoDep /\ deps[c].status = "SAFE" /\ LiftedFrom(c) # {} -> "IN_USE"
         [] OTHER -> deps[c].status]
  /\ UNCHANGED vars

JNext == Classify \/ Assemble

JSpec == JInit /\ [][JNext]_jvars

Reported == \E c \in Coord : report[c] # Unset

\* The sweep over names and the propagation over versions agree: a dependency
\* lifted because a directly required IN_USE one reaches it keeps a version
\* that is not marked removable.  Coordinates with more versions than the cap
\* keeps are left out: the one in use may be among those it dropped.
LiftedKeepsAVersion ==
  Reported =>
    \A c \in Coord :
      /\ report[c] = "IN_USE"
      /\ deps[c].status = "SAFE"
      /\ \E d \in LiftedFrom(c) : \E e \in edges : e.parent = Root /\ e.child = d
      /\ Cardinality(NodesOf(c)) <= Cap
      => \E n \in KeptOf(c) : ~ verdict[n].removable

\* README.md of a pinned dependency: "Scarno treats these as load-bearing and
\* will not mark them removable, even with no source usage".
PinnedNotReportedRemovable ==
  \A c \in Coord :
    deps[c] # NoDep /\ deps[c].pin # "none" => report[c] # "SAFE"
=============================================================================
