----------------------------- MODULE AbiDiffer -----------------------------
(***************************************************************************)
(* analysers/java/abi_diff.py, CrossVersionAbiDiffer.diff_all (REQ-22):    *)
(* a pool of threads compares, for each coordinate that occurs in several  *)
(* versions, every declared version with the resolved one.                 *)
(*                                                                         *)
(* A JAR is the set of its classes, numbers in the order of their names,   *)
(* and a class has one signature; SignatureDiff is the comparison of one   *)
(* class's members.  The JARs are fixed during the run; what may differ    *)
(* from run to run is the schedule and, where Faults says so, javap and    *)
(* the indexes.                                                            *)
(***************************************************************************)
EXTENDS Naturals, FiniteSets, SequencesExt

CONSTANTS
  Worker,      \* _compute_max_workers threads
  Coord, Version,
  Nodes,       \* result.versioned_nodes: a sequence of [coord, version, resolved]
  Multi,       \* result.multi_version_coords
  Inputs,      \* what the JARs may be: records [classes, place]
  MaxSlots,    \* _JAVAP_MAX_JARS_PER_RUN
  MaxClasses,  \* _MAX_CLASSES_PER_JAR
  Faults,      \* what may fail: a subset of {"javap", "index"}
  None         \* no coordinate

JarId == Coord \X Version
Place == {"m2", "index", "nowhere"}

ASSUME NodesAssumption ==
  /\ Nodes \in Seq([coord: Coord, version: Version, resolved: BOOLEAN])
  /\ IsInjective(Nodes)
  /\ Multi \subseteq Coord
ASSUME NoneAssumption == None \notin Coord
ASSUME BoundsAssumption == MaxSlots \in Nat /\ MaxClasses \in Nat \ {0}
ASSUME FaultsAssumption == Faults \subseteq {"javap", "index"}
ASSUME InputsAssumption ==
  \A in \in Inputs : /\ in.classes \in [JarId -> SUBSET Nat]
                     /\ in.place \in [JarId -> Place]

VARIABLES
  classes, place,   \* the JARs, and where each is to be had
  phase,            \* "index", "diff", "done"
  provider,         \* provider_index: class -> coordinate
  queue,            \* work items that no thread has taken
  pc, item,
  provenance,       \* per worker: of the comparison it makes
  slots,            \* _inspected_jar_count
  findings,
  outcomes          \* [item, outcome], in the order the threads got there

input == <<classes, place>>
vars == <<input, phase, provider, queue, pc, item, provenance, slots,
          findings, outcomes>>

AllClasses == UNION {classes[j] : j \in JarId}

\* One item per node of a coordinate that occurs in several versions, against
\* the first of its nodes that is resolved; grouped by coordinate.
Earliest(S) == CHOOSE i \in S : \A j \in S : i <= j
NodesOf(c) == {i \in DOMAIN Nodes : Nodes[i].coord = c}
ResolvedNodes(c) == {i \in NodesOf(c) : Nodes[i].resolved}
ResolvedVersion(c) == Nodes[Earliest(ResolvedNodes(c))].version

WorkItems ==
  LET is == {i \in DOMAIN Nodes :
               LET c == Nodes[i].coord IN
               /\ c \in Multi
               /\ ResolvedNodes(c) # {}
               /\ Nodes[i].version # ResolvedVersion(c)}
      first(i) == Earliest(NodesOf(Nodes[i].coord))
      before(i, j) == first(i) < first(j) \/ (first(i) = first(j) /\ i < j)
      nth(n) == CHOOSE i \in is : Cardinality({j \in is : before(j, i)}) = n - 1 IN
  [n \in 1..Cardinality(is) |-> Nodes[nth(n)]]

DeclaredJar(n) == <<n.coord, n.version>>
ResolvedJar(n) == <<n.coord, ResolvedVersion(n.coord)>>

\* _resolve_jar finds what the local repository has, and what an index has
\* unless the fetch fails.
Findable(S, found) ==
  /\ found \subseteq {j \in S : place[j] # "nowhere"}
  /\ \A j \in S \ found : place[j] # "nowhere" => place[j] = "index" /\ "index" \in Faults

\* sorted(names)[:_MAX_CLASSES_PER_JAR]
Inspected(j) ==
  {c \in classes[j] : Cardinality({d \in classes[j] : d < c}) < MaxClasses}

\* javap is called per batch of classes; a batch that fails is left out.
Readable(j, read) ==
  read \subseteq Inspected(j) /\ ("javap" \notin Faults => read = Inspected(j))

\* _emit_findings: a class that is gone but that another resolved JAR provides
\* has moved.
Emitted(n, dRead, rRead, index, prov) ==
  LET finding(action, c, moved) ==
        [coord |-> n.coord, declared |-> n.version, action |-> action,
         class |-> c, moved |-> moved, provenance |-> prov]
      movedTo(c) == IF index[c] = n.coord THEN None ELSE index[c] IN
  {finding("REMOVED", c, movedTo(c)) : c \in dRead \ rRead}
  \cup {finding("ADDED", c, None) : c \in rRead \ dRead}

\* _build_class_provider_index.  It takes the path of each resolved JAR and
\* forgets its provenance; the first coordinate that provides a class keeps it.
\* Mutants of IndexOf: every version instead of the resolved ones; nothing at
\* all.
IndexOfAllVersions(found) ==
  [c \in AllClasses |->
     LET providers == {i \in DOMAIN Nodes : c \in classes[DeclaredJar(Nodes[i])]} IN
     IF providers = {} THEN None ELSE Nodes[Earliest(providers)].coord]

IndexOfNothing(found) == [c \in AllClasses |-> None]

IndexOf(found) ==
  [c \in AllClasses |->
     LET providers == {i \in DOMAIN Nodes :
                         /\ Nodes[i].resolved
                         /\ DeclaredJar(Nodes[i]) \in found
                         /\ c \in classes[DeclaredJar(Nodes[i])]} IN
     IF providers = {} THEN None ELSE Nodes[Earliest(providers)].coord]

\* Mutant of Provenance: one local JAR makes the comparison local.
ProvenanceOfBoth(jars) == IF \A j \in jars : place[j] = "index" THEN "remote" ELSE "local"

Provenance(jars) == IF \E j \in jars : place[j] = "index" THEN "remote" ELSE "local"
----------------------------------------------------------------------------
NoItem == [coord |-> None]

Init ==
  /\ \E in \in Inputs : classes = in.classes /\ place = in.place
  /\ phase = "index"
  /\ provider = [c \in AllClasses |-> None]
  /\ queue = <<>>
  /\ pc = [w \in Worker |-> "idle"]
  /\ item = [w \in Worker |-> NoItem]
  /\ provenance = [w \in Worker |-> "local"]
  /\ slots = 0
  /\ findings = {}
  /\ outcomes = <<>>

\* Before the pool starts: the index of what the resolved JARs provide.
BuildClassProviderIndex(found) ==
  /\ phase = "index"
  /\ Findable({DeclaredJar(Nodes[i]) : i \in {k \in DOMAIN Nodes : Nodes[k].resolved}}, found)
  /\ provider' = IndexOf(found)
  /\ queue' = WorkItems
  /\ phase' = "diff"
  /\ UNCHANGED <<input, pc, item, provenance, slots, findings, outcomes>>

Take(w) ==
  /\ phase = "diff"
  /\ pc[w] = "idle"
  /\ queue # <<>>
  /\ item' = [item EXCEPT ![w] = Head(queue)]
  /\ queue' = Tail(queue)
  /\ pc' = [pc EXCEPT ![w] = "claim"]
  /\ UNCHANGED <<input, phase, provider, provenance, slots, findings, outcomes>>

Outcome(w, o) ==
  /\ outcomes' = Append(outcomes, [item |-> item[w], outcome |-> o])
  /\ pc' = [pc EXCEPT ![w] = "idle"]

\* Mutant of ClaimSlots: off by one.
ClaimSlotsEarly(w) ==
  /\ pc[w] = "claim"
  /\ IF slots + 2 >= MaxSlots
     THEN Outcome(w, "capped") /\ UNCHANGED slots
     ELSE /\ slots' = slots + 2
          /\ pc' = [pc EXCEPT ![w] = "resolve"]
          /\ UNCHANGED outcomes
  /\ UNCHANGED <<input, phase, provider, queue, item, provenance, findings>>

\* _try_consume_cap_slots(2), under the lock.
ClaimSlots(w) ==
  /\ pc[w] = "claim"
  /\ IF slots + 2 > MaxSlots
     THEN Outcome(w, "capped") /\ UNCHANGED slots
     ELSE /\ slots' = slots + 2
          /\ pc' = [pc EXCEPT ![w] = "resolve"]
          /\ UNCHANGED outcomes
  /\ UNCHANGED <<input, phase, provider, queue, item, provenance, findings>>

ResolveJars(w, found) ==
  /\ pc[w] = "resolve"
  /\ LET jars == {DeclaredJar(item[w]), ResolvedJar(item[w])} IN
     /\ Findable(jars, found)
     /\ IF found = jars
        THEN /\ provenance' = [provenance EXCEPT ![w] = Provenance(jars)]
             /\ pc' = [pc EXCEPT ![w] = "compare"]
             /\ UNCHANGED outcomes
        ELSE Outcome(w, "missing") /\ UNCHANGED provenance
  /\ UNCHANGED <<input, phase, provider, queue, item, slots, findings>>

\* Mutant of Compare: the findings replace those of the other threads.
CompareLast(w, dRead, rRead) ==
  /\ pc[w] = "compare"
  /\ Readable(DeclaredJar(item[w]), dRead)
  /\ Readable(ResolvedJar(item[w]), rRead)
  /\ findings' = Emitted(item[w], dRead, rRead, provider, provenance[w])
  /\ Outcome(w, "compared")
  /\ UNCHANGED <<input, phase, provider, queue, item, provenance, slots>>

Compare(w, dRead, rRead) ==
  /\ pc[w] = "compare"
  /\ Readable(DeclaredJar(item[w]), dRead)
  /\ Readable(ResolvedJar(item[w]), rRead)
  /\ IF dRead = {} /\ rRead = {}
     THEN Outcome(w, "empty") /\ UNCHANGED findings
     ELSE /\ findings' = findings \cup
                         Emitted(item[w], dRead, rRead, provider, provenance[w])
          /\ Outcome(w, "compared")
  /\ UNCHANGED <<input, phase, provider, queue, item, provenance, slots>>

\* The pool is joined; findings are returned sorted.
Join ==
  /\ phase = "diff"
  /\ queue = <<>>
  /\ \A w \in Worker : pc[w] = "idle"
  /\ phase' = "done"
  /\ UNCHANGED <<input, provider, queue, pc, item, provenance, slots, findings, outcomes>>

Returned == phase = "done" /\ UNCHANGED vars

Next ==
  \/ \E found \in SUBSET JarId : BuildClassProviderIndex(found)
  \/ \E w \in Worker :
       \/ Take(w) \/ ClaimSlots(w)
       \/ \E found \in SUBSET JarId : ResolveJars(w, found)
       \/ \E dRead, rRead \in SUBSET AllClasses : Compare(w, dRead, rRead)
  \/ Join
  \/ Returned

Spec == Init /\ [][Next]_vars
----------------------------------------------------------------------------
TypeOK ==
  /\ phase \in {"index", "diff", "done"}
  /\ provider \in [AllClasses -> Coord \cup {None}]
  /\ queue \in Seq(Range(Nodes))
  /\ pc \in [Worker -> {"idle", "claim", "resolve", "compare"}]
  /\ item \in [Worker -> Range(Nodes) \cup {NoItem}]
  /\ provenance \in [Worker -> {"local", "remote"}]
  /\ slots \in Nat
  /\ outcomes \in Seq([item: Range(Nodes),
                       outcome: {"capped", "missing", "empty", "compared"}])

\* NEW-ARCH-010: the cap is exact under concurrent execution: as many items
\* are let through as it has room for, no more and no fewer, and each item
\* ends in exactly one way.
CapIsExact ==
  phase = "done" =>
    LET let_through == {i \in DOMAIN outcomes : outcomes[i].outcome # "capped"} IN
    /\ {outcomes[i].item : i \in DOMAIN outcomes} = Range(WorkItems)
    /\ Len(outcomes) = Len(WorkItems)
    /\ Cardinality(let_through) = IF 2 * Len(WorkItems) <= MaxSlots
                                  THEN Len(WorkItems) ELSE MaxSlots \div 2

\* SUC-68: a finding is local only when neither of the two JARs that were
\* compared came from an index, whichever thread compared them and however the
\* fetches ended.  The JARs of the provider index are not among them: see
\* EveryContributionIsTagged.
RemoteIsTagged ==
  \A f \in findings :
    f.provenance = "local" =>
      \A j \in {<<f.coord, f.declared>>, <<f.coord, ResolvedVersion(f.coord)>>} :
        place[j] = "m2"

\* FR-265 as the constructor of the differ states it: a JAR that came from an
\* index makes remote any finding it contributes to.  The new home that a
\* finding names is such a contribution; the code violates it.
EveryContributionIsTagged ==
  \A f \in findings :
    f.provenance = "local" /\ f.moved # None =>
      \E i \in ResolvedNodes(f.moved) :
        /\ f.class \in classes[DeclaredJar(Nodes[i])]
        /\ place[DeclaredJar(Nodes[i])] = "m2"

\* Issue 3: a class that is reported as moved is in the resolved JAR of
\* another coordinate that it names.
MovedIsProvided ==
  \A f \in findings :
    f.moved # None =>
      /\ f.moved # f.coord
      /\ \E i \in ResolvedNodes(f.moved) : f.class \in classes[DeclaredJar(Nodes[i])]

\* The comparisons do not disturb each other: whichever items the threads got
\* to, and however they interleaved, the findings are those that comparing each
\* of these items alone gives.
ComparedAlone(n) ==
  Emitted(n, Inspected(DeclaredJar(n)), Inspected(ResolvedJar(n)), provider,
          Provenance({DeclaredJar(n), ResolvedJar(n)}))

ComparisonsAreIndependent ==
  phase = "done" /\ "javap" \notin Faults =>
    findings = UNION {ComparedAlone(o.item) :
                        o \in {x \in Range(outcomes) : x.outcome = "compared"}}

\* A removal is judged against the whole class path: a class that is reported
\* REMOVED, and not as moved, is in no resolved JAR of the local repository.
\* The code does not go further than that for one coordinate, the one that is
\* compared: where one of its own resolved JARs has the class, the class is
\* past the cut, its javap batch failed, or that JAR is not the one compared.
NotRead(f, i) ==
  DeclaredJar(Nodes[i]) = ResolvedJar(f) =>
    f.class \notin Inspected(ResolvedJar(f)) \/ "javap" \in Faults

RemovedIsGone ==
  \A f \in findings :
    f.action = "REMOVED" /\ f.moved = None =>
      \/ \A i \in DOMAIN Nodes :
           Nodes[i].resolved /\ place[DeclaredJar(Nodes[i])] = "m2"
             => f.class \notin classes[DeclaredJar(Nodes[i])]
      \/ \E i \in ResolvedNodes(f.coord) :
           f.class \in classes[DeclaredJar(Nodes[i])] /\ NotRead(f, i)
=============================================================================
