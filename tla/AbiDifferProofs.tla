--------------------------- MODULE AbiDifferProofs ---------------------------
(***************************************************************************)
(* What the differ's pool promises for every number of threads, every set  *)
(* of JARs, every cap and every choice of what may fail; and what its      *)
(* comparison of two JARs promises for all signatures.                     *)
(***************************************************************************)
EXTENDS AbiDiffer, SignatureDiff, FiniteSetTheorems, WellFoundedInduction, TLAPS

JarsOf(n) == {DeclaredJar(n), ResolvedJar(n)}

InputTypes == classes \in [JarId -> SUBSET Nat] /\ place \in [JarId -> Place]

\* Each thread has its own variables, and the outcomes are a sequence.
VariableShapes ==
  /\ pc \in [Worker -> {"idle", "claim", "resolve", "compare"}]
  /\ item = [w \in Worker |-> item[w]]
  /\ provenance = [w \in Worker |-> provenance[w]]
  /\ \E S : outcomes \in Seq(S)

\* Nothing is compared before the index is built.
IndexFirst ==
  phase = "index" => findings = {} /\ outcomes = <<>> /\ \A w \in Worker : pc[w] = "idle"

Provided(index) ==
  \A c \in AllClasses :
    index[c] # None => \E i \in ResolvedNodes(index[c]) : c \in classes[DeclaredJar(Nodes[i])]

\* A thread that compares has found both JARs, and knows where they come from.
ComparingInv ==
  \A w \in Worker :
    pc[w] = "compare" =>
      /\ \A j \in JarsOf(item[w]) : j \in JarId /\ place[j] # "nowhere"
      /\ provenance[w] = Provenance(JarsOf(item[w]))

Compared(s) == {s[i].item : i \in {k \in 1 .. Len(s) : s[k].outcome = "compared"}}

FindingsInv ==
  "javap" \notin Faults => findings = UNION {ComparedAlone(n) : n \in Compared(outcomes)}

IInv ==
  /\ InputTypes /\ VariableShapes /\ IndexFirst /\ Provided(provider)
  /\ ComparingInv /\ FindingsInv /\ RemoteIsTagged /\ MovedIsProvided
-----------------------------------------------------------------------------
\* A set of numbers that is not empty has a least element.
LEMMA LeastNumber ==
  ASSUME NEW S \in SUBSET Nat, S # {}
  PROVE  \E m \in S : \A k \in S : m <= k
<1>. DEFINE R == {ss \in Nat \X Nat : ss[1] < ss[2]}
<1>1. IsWellFoundedOn(R, Nat)
  BY NatLessThanWellFounded DEF OpToRel
<1>2. \A k, m \in Nat : <<k, m>> \in R <=> k < m
  OBVIOUS
<1>. HIDE DEF R
<1>3. PICK m \in S : \A k \in S : ~ (<<k, m>> \in R)
  BY <1>1, WFMin
<1>4. ASSUME NEW k \in S PROVE m <= k
  <2>1. k \in Nat /\ m \in Nat
    OBVIOUS
  <2>2. ~ (k < m)
    BY <2>1, <1>2, <1>3
  <2>. QED BY <2>1, <2>2
<1>. QED BY <1>4

\* The earliest of some nodes is one of them.
LEMMA EarliestIsOne ==
  ASSUME NEW S \in SUBSET (DOMAIN Nodes), S # {}
  PROVE  Earliest(S) \in S
<1>1. S \subseteq Nat
  BY NodesAssumption
<1>2. \E m \in S : \A k \in S : m <= k
  BY <1>1, LeastNumber
<1>. QED BY <1>2 DEF Earliest

\* The index names, for a class, a coordinate whose resolved JAR has it.
LEMMA IndexIsProvided ==
  ASSUME NEW found
  PROVE  Provided(IndexOf(found))
<1>. SUFFICES ASSUME NEW c \in AllClasses, IndexOf(found)[c] # None
              PROVE  \E i \in ResolvedNodes(IndexOf(found)[c]) :
                       c \in classes[DeclaredJar(Nodes[i])]
  BY DEF Provided
<1>. DEFINE providers == {i \in DOMAIN Nodes :
                            /\ Nodes[i].resolved
                            /\ DeclaredJar(Nodes[i]) \in found
                            /\ c \in classes[DeclaredJar(Nodes[i])]}
<1>1. providers # {} /\ IndexOf(found)[c] = Nodes[Earliest(providers)].coord
  BY DEF IndexOf
<1>2. Earliest(providers) \in providers
  BY <1>1, EarliestIsOne
<1>. QED BY <1>1, <1>2 DEF ResolvedNodes, NodesOf

\* What a finding of a comparison says.
LEMMA EmittedFields ==
  ASSUME NEW n, NEW d, NEW r, NEW index, NEW prov, NEW f \in Emitted(n, d, r, index, prov)
  PROVE  /\ f.coord = n.coord /\ f.declared = n.version /\ f.provenance = prov
         /\ f.class \in d \cup r
         /\ f.moved # None => f.moved = index[f.class] /\ f.moved # n.coord
BY DEF Emitted

\* Two JARs that are found and none of which comes from an index are local.
LEMMA LocalIsLocal ==
  ASSUME InputTypes, NEW n, Provenance(JarsOf(n)) = "local",
         \A j \in JarsOf(n) : j \in JarId /\ place[j] # "nowhere"
  PROVE  \A j \in JarsOf(n) : place[j] = "m2"
BY DEF InputTypes, Place, Provenance

\* Appending an outcome.
LEMMA OneMoreOutcome ==
  ASSUME NEW S, NEW s \in Seq(S), NEW o
  PROVE  /\ Append(s, o) \in Seq(S \cup {o})
         /\ o.outcome = "compared" => Compared(Append(s, o)) = Compared(s) \cup {o.item}
         /\ o.outcome # "compared" => Compared(Append(s, o)) = Compared(s)
<1>. DEFINE t == Append(s, o)
<1>1. s \in Seq(S \cup {o})
  OBVIOUS
<1>2. /\ t \in Seq(S \cup {o})
      /\ Len(t) = Len(s) + 1 /\ Len(s) \in Nat
      /\ \A i \in 1 .. Len(s) : t[i] = s[i]
      /\ t[Len(s) + 1] = o
  BY <1>1
<1>. HIDE DEF t
<1>3. 1 .. Len(t) = (1 .. Len(s)) \cup {Len(s) + 1}
  BY <1>2
<1>4. CASE o.outcome = "compared"
  <2>1. {k \in 1 .. Len(t) : t[k].outcome = "compared"} =
          {k \in 1 .. Len(s) : s[k].outcome = "compared"} \cup {Len(s) + 1}
    BY <1>2, <1>3, <1>4
  <2>. QED BY <1>2, <1>4, <2>1 DEF Compared, t
<1>5. CASE o.outcome # "compared"
  <2>1. {k \in 1 .. Len(t) : t[k].outcome = "compared"} =
          {k \in 1 .. Len(s) : s[k].outcome = "compared"}
    BY <1>2, <1>3, <1>5
  <2>. QED BY <1>2, <1>5, <2>1 DEF Compared, t
<1>. QED BY <1>2, <1>4, <1>5 DEF t
-----------------------------------------------------------------------------
LEMMA Initially == Init => IInv
<1>. SUFFICES ASSUME Init PROVE IInv
  OBVIOUS
<1>1. InputTypes
  BY InputsAssumption DEF Init, InputTypes
<1>2. outcomes \in Seq({})
  BY DEF Init
<1>3. Compared(outcomes) = {}
  BY DEF Init, Compared
<1>4. Provided(provider)
  BY DEF Init, Provided
<1>5. ComparingInv /\ IndexFirst /\ RemoteIsTagged /\ MovedIsProvided
  BY DEF Init, ComparingInv, IndexFirst, RemoteIsTagged, MovedIsProvided
<1>6. FindingsInv
  BY <1>3 DEF Init, FindingsInv
<1>7. VariableShapes
  BY <1>2 DEF Init, VariableShapes
<1>. QED BY <1>1, <1>4, <1>5, <1>6, <1>7 DEF IInv

\* What is found does not depend on anything but the JARs and the index.
LEMMA SameFindings ==
  ASSUME UNCHANGED <<input, provider, findings>>
  PROVE  /\ InputTypes' <=> InputTypes
         /\ Provided(provider)' <=> Provided(provider)
         /\ RemoteIsTagged' <=> RemoteIsTagged
         /\ MovedIsProvided' <=> MovedIsProvided
<1>1. classes' = classes /\ place' = place
  BY DEF input
<1>2. Provided(provider)' <=> Provided(provider)
  BY <1>1 DEF Provided, AllClasses
<1>. QED BY <1>1, <1>2 DEF InputTypes, RemoteIsTagged, MovedIsProvided

LEMMA SameComparison ==
  ASSUME UNCHANGED <<input, provider>>
  PROVE  \A n : ComparedAlone(n)' = ComparedAlone(n)
BY DEF input, ComparedAlone, Inspected, Provenance, Emitted, DeclaredJar, ResolvedJar

LEMMA IndexStep ==
  ASSUME IInv, NEW found \in SUBSET JarId, BuildClassProviderIndex(found)
  PROVE  IInv'
<1>1. /\ phase = "index" /\ phase' = "diff" /\ provider' = IndexOf(found)
      /\ UNCHANGED <<input, pc, item, provenance, slots, findings, outcomes>>
  BY DEF BuildClassProviderIndex
<1>2. findings = {} /\ outcomes = <<>> /\ \A w \in Worker : pc[w] = "idle"
  BY <1>1 DEF IInv, IndexFirst
<1>3. Provided(provider)'
  <2>1. Provided(IndexOf(found))
    BY IndexIsProvided
  <2>. QED BY <1>1, <2>1 DEF Provided, AllClasses, input
<1>4. Compared(outcomes)' = {}
  BY <1>1, <1>2 DEF Compared
<1>5. RemoteIsTagged' /\ MovedIsProvided' /\ FindingsInv'
  BY <1>1, <1>2, <1>4 DEF RemoteIsTagged, MovedIsProvided, FindingsInv
<1>6. InputTypes' /\ VariableShapes' /\ IndexFirst' /\ ComparingInv'
  BY <1>1, <1>2 DEF IInv, InputTypes, VariableShapes, IndexFirst, ComparingInv, input
<1>. QED BY <1>3, <1>5, <1>6 DEF IInv

\* A thread's step that compares nothing: it leaves what was found alone, adds
\* at most an outcome that is no comparison, and goes on to compare only with
\* both JARs found.
LEMMA QuietStep ==
  ASSUME IInv, NEW w \in Worker, phase # "index", NEW to, to # "compare",
         UNCHANGED <<input, phase, provider, findings>>,
         to \in {"idle", "claim", "resolve"},
         pc' = [pc EXCEPT ![w] = to],
         item' = [item EXCEPT ![w] = item'[w]],
         UNCHANGED provenance,
         \/ outcomes' = outcomes
         \/ \E o : outcomes' = Append(outcomes, o) /\ o.outcome # "compared"
  PROVE  IInv'
<1>1. InputTypes' /\ Provided(provider)' /\ RemoteIsTagged' /\ MovedIsProvided'
  BY SameFindings DEF IInv
<1>2. /\ \E S : outcomes' \in Seq(S)
      /\ Compared(outcomes)' = Compared(outcomes)
  <2>1. CASE outcomes' = outcomes
    BY <2>1 DEF IInv, VariableShapes, Compared
  <2>2. ASSUME NEW o, outcomes' = Append(outcomes, o), o.outcome # "compared"
        PROVE  /\ \E S : outcomes' \in Seq(S)
               /\ Compared(outcomes)' = Compared(outcomes)
    <3>1. PICK S : outcomes \in Seq(S)
      BY DEF IInv, VariableShapes
    <3>2. /\ Append(outcomes, o) \in Seq(S \cup {o})
          /\ Compared(Append(outcomes, o)) = Compared(outcomes)
      BY <2>2, <3>1, OneMoreOutcome
    <3>3. Compared(outcomes)' = Compared(Append(outcomes, o))
      BY <2>2 DEF Compared
    <3>. QED BY <2>2, <3>2, <3>3
  <2>. QED BY <2>1, <2>2
<1>3. VariableShapes'
  BY <1>2 DEF IInv, VariableShapes
<1>4. IndexFirst'
  BY DEF IndexFirst
<1>5. ComparingInv'
  <2>. SUFFICES ASSUME NEW v \in Worker, pc'[v] = "compare"
                PROVE  /\ \A j \in JarsOf(item'[v]) : j \in JarId /\ place'[j] # "nowhere"
                       /\ provenance'[v] = IF \E j \in JarsOf(item'[v]) : place'[j] = "index"
                                           THEN "remote" ELSE "local"
    BY DEF ComparingInv, Provenance
  <2>1. v # w /\ pc[v] = "compare"
    BY DEF IInv, VariableShapes
  <2>2. item'[v] = item[v] /\ provenance'[v] = provenance[v] /\ place' = place
    BY <2>1 DEF IInv, VariableShapes, input
  <2>. QED BY <2>1, <2>2 DEF IInv, ComparingInv, Provenance
<1>6. FindingsInv'
  BY <1>2, SameComparison DEF IInv, FindingsInv
<1>. QED BY <1>1, <1>3, <1>4, <1>5, <1>6 DEF IInv

LEMMA ResolveStep ==
  ASSUME IInv, NEW w \in Worker, NEW found \in SUBSET JarId, ResolveJars(w, found)
  PROVE  IInv'
<1>1. /\ pc[w] = "resolve"
      /\ UNCHANGED <<input, phase, provider, queue, item, slots, findings>>
  BY DEF ResolveJars
<1>2. phase # "index"
  BY <1>1 DEF IInv, IndexFirst
<1>3. CASE found = JarsOf(item[w])
  <2>1. /\ provenance' = [provenance EXCEPT ![w] = Provenance(JarsOf(item[w]))]
        /\ pc' = [pc EXCEPT ![w] = "compare"]
        /\ outcomes' = outcomes
    BY <1>3 DEF ResolveJars, JarsOf
  <2>2. \A j \in JarsOf(item[w]) : j \in JarId /\ place[j] # "nowhere"
    BY <1>3 DEF ResolveJars, Findable, JarsOf
  <2>3. InputTypes' /\ Provided(provider)' /\ RemoteIsTagged' /\ MovedIsProvided'
    BY <1>1, SameFindings DEF IInv
  <2>4. VariableShapes' /\ IndexFirst'
    BY <1>1, <1>2, <2>1 DEF IInv, VariableShapes, IndexFirst
  <2>5. ComparingInv'
    <3>. SUFFICES ASSUME NEW v \in Worker, pc'[v] = "compare"
                  PROVE  /\ \A j \in JarsOf(item'[v]) : j \in JarId /\ place'[j] # "nowhere"
                         /\ provenance'[v] = IF \E j \in JarsOf(item'[v]) : place'[j] = "index"
                                             THEN "remote" ELSE "local"
      BY DEF ComparingInv, Provenance
    <3>1. item'[v] = item[v] /\ place' = place
      BY <1>1 DEF input
    <3>2. CASE v = w
      <4>1. provenance'[v] = Provenance(JarsOf(item[w]))
        BY <2>1, <3>2 DEF IInv, VariableShapes
      <4>. QED BY <2>2, <3>1, <3>2, <4>1 DEF Provenance
    <3>3. CASE v # w
      <4>1. pc[v] = "compare" /\ provenance'[v] = provenance[v]
        BY <2>1, <3>3 DEF IInv, VariableShapes
      <4>. QED BY <3>1, <4>1 DEF IInv, ComparingInv, Provenance
    <3>. QED BY <3>2, <3>3
  <2>6. FindingsInv'
    BY <1>1, <2>1, SameComparison DEF IInv, FindingsInv, Compared
  <2>. QED BY <2>3, <2>4, <2>5, <2>6 DEF IInv
<1>4. CASE found # JarsOf(item[w])
  <2>1. /\ outcomes' = Append(outcomes, [item |-> item[w], outcome |-> "missing"])
        /\ pc' = [pc EXCEPT ![w] = "idle"]
        /\ provenance' = provenance
    BY <1>4 DEF ResolveJars, Outcome, JarsOf
  <2>2. [item |-> item[w], outcome |-> "missing"].outcome # "compared"
    OBVIOUS
  <2>3. item' = [item EXCEPT ![w] = item'[w]]
    BY <1>1 DEF IInv, VariableShapes
  <2>. QED BY <1>1, <1>2, <2>1, <2>2, <2>3, QuietStep
<1>. QED BY <1>3, <1>4

\* A comparison adds its findings to those of the others.
LEMMA CompareStep ==
  ASSUME IInv, NEW w \in Worker, NEW d \in SUBSET AllClasses, NEW r \in SUBSET AllClasses,
         Compare(w, d, r)
  PROVE  IInv'
<1>1. /\ pc[w] = "compare" /\ pc' = [pc EXCEPT ![w] = "idle"]
      /\ Readable(DeclaredJar(item[w]), d) /\ Readable(ResolvedJar(item[w]), r)
      /\ UNCHANGED <<input, phase, provider, queue, item, provenance, slots>>
  BY DEF Compare, Outcome
<1>2. phase # "index"
  BY <1>1 DEF IInv, IndexFirst
<1>3. CASE d = {} /\ r = {}
  <2>1. /\ outcomes' = Append(outcomes, [item |-> item[w], outcome |-> "empty"])
        /\ findings' = findings
    BY <1>3 DEF Compare, Outcome
  <2>2. [item |-> item[w], outcome |-> "empty"].outcome # "compared"
    OBVIOUS
  <2>3. item' = [item EXCEPT ![w] = item'[w]]
    BY <1>1 DEF IInv, VariableShapes
  <2>. QED BY <1>1, <1>2, <2>1, <2>2, <2>3, QuietStep
<1>4. CASE ~ (d = {} /\ r = {})
  <2>. DEFINE o == [item |-> item[w], outcome |-> "compared"]
              new == Emitted(item[w], d, r, provider, provenance[w])
  <2>1. outcomes' = Append(outcomes, o) /\ findings' = findings \cup new
    BY <1>4 DEF Compare, Outcome
  <2>2. o.item = item[w] /\ o.outcome = "compared"
    OBVIOUS
  <2>. HIDE DEF o
  <2>3. PICK S : outcomes \in Seq(S)
    BY DEF IInv, VariableShapes
  <2>4. /\ Append(outcomes, o) \in Seq(S \cup {o})
        /\ Compared(Append(outcomes, o)) = Compared(outcomes) \cup {item[w]}
    BY <2>2, <2>3, OneMoreOutcome
  <2>5. /\ outcomes' \in Seq(S \cup {o})
        /\ Compared(outcomes)' = Compared(outcomes) \cup {item[w]}
    BY <2>1, <2>4 DEF Compared
  <2>6. VariableShapes'
    BY <1>1, <2>5 DEF IInv, VariableShapes
  <2>7. InputTypes' /\ Provided(provider)' /\ IndexFirst'
    BY <1>1, <1>2 DEF IInv, InputTypes, Provided, AllClasses, IndexFirst, input
  <2>8. ComparingInv'
    BY <1>1 DEF IInv, ComparingInv, VariableShapes, JarsOf, DeclaredJar, ResolvedJar, Provenance, input
  <2>9. /\ \A j \in JarsOf(item[w]) : j \in JarId /\ place[j] # "nowhere"
        /\ provenance[w] = Provenance(JarsOf(item[w]))
    BY <1>1 DEF IInv, ComparingInv
  <2>10. FindingsInv'
    <3>. SUFFICES ASSUME "javap" \notin Faults
                  PROVE  findings' = UNION {ComparedAlone(n)' : n \in Compared(outcomes)'}
      BY DEF FindingsInv
    <3>1. new = ComparedAlone(item[w])
      BY <1>1, <2>9 DEF Readable, ComparedAlone, JarsOf
    <3>2. findings = UNION {ComparedAlone(n) : n \in Compared(outcomes)}
      BY DEF IInv, FindingsInv
    <3>3. \A n : ComparedAlone(n)' = ComparedAlone(n)
      BY <1>1, SameComparison
    <3>. HIDE DEF new
    <3>4. UNION {ComparedAlone(n)' : n \in Compared(outcomes)'}
            = UNION {ComparedAlone(n) : n \in Compared(outcomes) \cup {item[w]}}
      BY <2>5, <3>3
    <3>. QED BY <2>1, <3>1, <3>2, <3>4
  <2>11. RemoteIsTagged'
    <3>1. ASSUME NEW f \in new, f.provenance = "local"
          PROVE  \A j \in {<<f.coord, f.declared>>, <<f.coord, ResolvedVersion(f.coord)>>} :
                   place[j] = "m2"
      <4>1. f.coord = item[w].coord /\ f.declared = item[w].version
            /\ provenance[w] = "local"
        BY <3>1, EmittedFields
      <4>2. \A j \in JarsOf(item[w]) : place[j] = "m2"
        BY <2>9, <4>1, LocalIsLocal DEF IInv
      <4>. QED BY <4>1, <4>2 DEF JarsOf, DeclaredJar, ResolvedJar
    <3>. HIDE DEF new
    <3>2. place' = place
      BY <1>1 DEF input
    <3>. QED BY <2>1, <3>1, <3>2 DEF IInv, RemoteIsTagged
  <2>12. MovedIsProvided'
    <3>1. ASSUME NEW f \in new, f.moved # None
          PROVE  /\ f.moved # f.coord
                 /\ \E i \in ResolvedNodes(f.moved) : f.class \in classes[DeclaredJar(Nodes[i])]
      <4>1. /\ f.class \in AllClasses /\ f.moved # f.coord
            /\ f.moved = provider[f.class]
        BY <3>1, EmittedFields
      <4>. QED BY <3>1, <4>1 DEF IInv, Provided
    <3>. HIDE DEF new
    <3>2. classes' = classes
      BY <1>1 DEF input
    <3>. QED BY <2>1, <3>1, <3>2 DEF IInv, MovedIsProvided
  <2>. QED BY <2>6, <2>7, <2>8, <2>10, <2>11, <2>12 DEF IInv
<1>. QED BY <1>3, <1>4

LEMMA SameStep ==
  ASSUME IInv, UNCHANGED <<input, provider, pc, item, provenance, findings, outcomes>>,
         phase' = "index" => phase = "index"
  PROVE  IInv'
<1>1. InputTypes' /\ Provided(provider)' /\ RemoteIsTagged' /\ MovedIsProvided'
  BY SameFindings DEF IInv
<1>2. VariableShapes' /\ IndexFirst'
  BY DEF IInv, VariableShapes, IndexFirst
<1>3. ComparingInv'
  BY DEF IInv, ComparingInv, JarsOf, DeclaredJar, ResolvedJar, Provenance, input
<1>4. FindingsInv'
  BY SameComparison DEF IInv, FindingsInv, Compared
<1>. QED BY <1>1, <1>2, <1>3, <1>4 DEF IInv

\* The pool keeps its inductive invariant (abi_diff.py, diff_all).
THEOREM DifferInvariant == Spec => []IInv
<1>1. IInv /\ [Next]_vars => IInv'
  <2>. SUFFICES ASSUME IInv, [Next]_vars PROVE IInv'
    OBVIOUS
  <2>1. ASSUME NEW found \in SUBSET JarId, BuildClassProviderIndex(found) PROVE IInv'
    BY <2>1, IndexStep
  <2>2. ASSUME NEW w \in Worker, Take(w) PROVE IInv'
    <3>1. /\ phase = "diff" /\ pc' = [pc EXCEPT ![w] = "claim"]
          /\ item' = [item EXCEPT ![w] = Head(queue)]
          /\ UNCHANGED <<input, phase, provider, provenance, slots, findings, outcomes>>
      BY <2>2 DEF Take
    <3>2. item' = [item EXCEPT ![w] = item'[w]]
      BY <3>1 DEF IInv, VariableShapes
    <3>. QED BY <3>1, <3>2, QuietStep
  <2>3. ASSUME NEW w \in Worker, ClaimSlots(w) PROVE IInv'
    <3>1. /\ pc[w] = "claim"
          /\ UNCHANGED <<input, phase, provider, queue, item, provenance, findings>>
          /\ \/ /\ outcomes' = Append(outcomes, [item |-> item[w], outcome |-> "capped"])
                /\ pc' = [pc EXCEPT ![w] = "idle"]
             \/ outcomes' = outcomes /\ pc' = [pc EXCEPT ![w] = "resolve"]
      BY <2>3 DEF ClaimSlots, Outcome
    <3>2. phase # "index"
      BY <3>1 DEF IInv, IndexFirst
    <3>3. [item |-> item[w], outcome |-> "capped"].outcome # "compared"
      OBVIOUS
    <3>4. item' = [item EXCEPT ![w] = item'[w]]
      BY <3>1 DEF IInv, VariableShapes
    <3>. QED BY <3>1, <3>2, <3>3, <3>4, QuietStep
  <2>4. ASSUME NEW w \in Worker, NEW found \in SUBSET JarId, ResolveJars(w, found)
        PROVE  IInv'
    BY <2>4, ResolveStep
  <2>5. ASSUME NEW w \in Worker, NEW d \in SUBSET AllClasses, NEW r \in SUBSET AllClasses,
               Compare(w, d, r)
        PROVE  IInv'
    BY <2>5, CompareStep
  <2>6. CASE Join \/ Returned \/ UNCHANGED vars
    BY <2>6, SameStep DEF Join, Returned, vars, input
  <2>. QED BY <2>1, <2>2, <2>3, <2>4, <2>5, <2>6 DEF Next
<1>. QED BY Initially, <1>1, PTL DEF Spec
-----------------------------------------------------------------------------
\* A finding that says it is local compared two JARs of the local repository
\* (abi_diff.py, _process_one; SUC-68).  Nothing is said of the JARs that the
\* provider index was built from: the run abi_home shows that one of them may
\* come from an index.
THEOREM RemoteBytesAreTagged == Spec => []RemoteIsTagged
<1>1. IInv => RemoteIsTagged
  BY DEF IInv
<1>. QED BY <1>1, DifferInvariant, PTL

\* A class reported as moved is in the resolved JAR that is named (abi_diff.py,
\* _build_class_provider_index).
THEOREM MovedMeansProvided == Spec => []MovedIsProvided
<1>1. IInv => MovedIsProvided
  BY DEF IInv
<1>. QED BY <1>1, DifferInvariant, PTL

\* The findings are those that comparing each item alone gives, however the
\* threads interleave (abi_diff.py, diff_all).
THEOREM ThreadsDoNotDisturbEachOther == Spec => []ComparisonsAreIndependent
<1>1. IInv => ComparisonsAreIndependent
  <2>. SUFFICES ASSUME IInv, "javap" \notin Faults
                PROVE  findings = UNION {ComparedAlone(o.item) :
                                           o \in {x \in Range(outcomes) : x.outcome = "compared"}}
    BY DEF ComparisonsAreIndependent
  <2>1. DOMAIN outcomes = 1 .. Len(outcomes)
    BY DEF IInv, VariableShapes
  <2>2. Compared(outcomes) = {o.item : o \in {x \in Range(outcomes) : x.outcome = "compared"}}
    BY <2>1 DEF Compared, Range
  <2>3. findings = UNION {ComparedAlone(n) : n \in Compared(outcomes)}
    BY DEF IInv, FindingsInv
  <2>. QED BY <2>2, <2>3
<1>. QED BY <1>1, DifferInvariant, PTL
-----------------------------------------------------------------------------
(* The cap on inspected JARs. *)

Items == Range(WorkItems)
Ended == [item: Items, outcome: {"capped", "missing", "empty", "compared"}]

ItemsOf(s) == {s[i].item : i \in DOMAIN s}
Passed(s) == {i \in DOMAIN s : s[i].outcome # "capped"}
SomeCapped(s) == \E i \in DOMAIN s : s[i].outcome = "capped"

Busy == {w \in Worker : pc[w] # "idle"}
Claimed == {w \in Worker : pc[w] \in {"resolve", "compare"}}

OwnVariables == pc = [w \in Worker |-> pc[w]] /\ item = [w \in Worker |-> item[w]]

\* Every item is in the queue, with a thread, or has ended, and none twice.
ItemsInv ==
  /\ queue \in Seq(Items) /\ outcomes \in Seq(Ended)
  /\ IsFiniteSet(Busy)
  /\ Len(queue) + Cardinality(Busy) + Len(outcomes) = Len(WorkItems)
  /\ Items = Range(queue) \cup {item[w] : w \in Busy} \cup ItemsOf(outcomes)

\* Two slots are taken for an item that a thread was let through with, and an
\* item was turned away only when fewer than two were left.
SlotsInv ==
  /\ slots = 2 * (Cardinality(Passed(outcomes)) + Cardinality(Claimed))
  /\ slots <= MaxSlots
  /\ SomeCapped(outcomes) => MaxSlots < slots + 2

CapInv ==
  /\ OwnVariables
  /\ phase = "index" => outcomes = <<>> /\ Busy = {} /\ slots = 0
  /\ phase # "index" => ItemsInv /\ SlotsInv
  /\ phase = "done" => queue = <<>> /\ Busy = {}

\* The work items are a sequence.
LEMMA ItemsAreListed ==
  /\ WorkItems \in Seq(Items) /\ Len(WorkItems) \in Nat /\ MaxSlots \in Nat
<1>. DEFINE is == {i \in DOMAIN Nodes :
                     LET c == Nodes[i].coord IN
                     /\ c \in Multi
                     /\ ResolvedNodes(c) # {}
                     /\ Nodes[i].version # ResolvedVersion(c)}
<1>1. IsFiniteSet(DOMAIN Nodes)
  <2>1. DOMAIN Nodes = 1 .. Len(Nodes) /\ Len(Nodes) \in Nat
    BY NodesAssumption
  <2>. QED BY <2>1, FS_Interval
<1>2. IsFiniteSet(is) /\ Cardinality(is) \in Nat
  BY <1>1, FS_Subset, FS_CardinalityType
<1>3. \E f : WorkItems = [n \in 1 .. Cardinality(is) |-> f[n]]
  <2>. DEFINE first(i) == Earliest(NodesOf(Nodes[i].coord))
              before(i, j) == first(i) < first(j) \/ (first(i) = first(j) /\ i < j)
              nth(n) == CHOOSE i \in is : Cardinality({j \in is : before(j, i)}) = n - 1
              f == [n \in 1 .. Cardinality(is) |-> Nodes[nth(n)]]
  <2>1. WorkItems = f
    BY DEF WorkItems
  <2>. HIDE DEF is, nth
  <2>2. f = [n \in 1 .. Cardinality(is) |-> f[n]]
    OBVIOUS
  <2>. HIDE DEF f
  <2>. QED BY <2>1, <2>2
<1>. HIDE DEF is
<1>4. WorkItems = [n \in 1 .. Cardinality(is) |-> WorkItems[n]]
  BY <1>3
<1>5. \A n \in 1 .. Cardinality(is) : WorkItems[n] \in Items
  BY <1>4 DEF Items, Range
<1>. QED BY <1>2, <1>4, <1>5, BoundsAssumption

\* The outcomes that are not "capped" can be counted.
LEMMA PassedAreFinite ==
  ASSUME NEW X, NEW s \in Seq(X)
  PROVE  IsFiniteSet(Passed(s)) /\ Cardinality(Passed(s)) \in Nat
<1>1. DOMAIN s = 1 .. Len(s) /\ Len(s) \in Nat
  OBVIOUS
<1>2. IsFiniteSet(DOMAIN s)
  BY <1>1, FS_Interval
<1>. QED BY <1>2, FS_Subset, FS_CardinalityType DEF Passed

\* One more outcome.
LEMMA OneMore ==
  ASSUME NEW X, NEW s \in Seq(X), NEW o \in X
  PROVE  /\ Append(s, o) \in Seq(X) /\ Len(Append(s, o)) = Len(s) + 1 /\ Len(s) \in Nat
         /\ ItemsOf(Append(s, o)) = ItemsOf(s) \cup {o.item}
         /\ Cardinality(Passed(s)) \in Nat
         /\ Cardinality(Passed(Append(s, o))) =
              Cardinality(Passed(s)) + (IF o.outcome = "capped" THEN 0 ELSE 1)
         /\ SomeCapped(Append(s, o)) <=> SomeCapped(s) \/ o.outcome = "capped"
<1>. DEFINE t == Append(s, o)
            k == Len(s) + 1
<1>1. /\ t \in Seq(X) /\ Len(t) = k /\ Len(s) \in Nat
      /\ DOMAIN s = 1 .. Len(s) /\ DOMAIN t = 1 .. k
      /\ t[k] = o /\ \A i \in 1 .. Len(s) : t[i] = s[i]
  OBVIOUS
<1>. HIDE DEF t
<1>2. DOMAIN t = DOMAIN s \cup {k} /\ k \notin DOMAIN s /\ \A i \in DOMAIN s : t[i] = s[i]
  BY <1>1
<1>3. ItemsOf(t) = ItemsOf(s) \cup {o.item}
  BY <1>1, <1>2 DEF ItemsOf
<1>4. SomeCapped(t) <=> SomeCapped(s) \/ o.outcome = "capped"
  BY <1>1, <1>2 DEF SomeCapped
<1>5. IsFiniteSet(Passed(s)) /\ Cardinality(Passed(s)) \in Nat
  BY PassedAreFinite
<1>6. Passed(t) = IF o.outcome = "capped" THEN Passed(s) ELSE Passed(s) \cup {k}
  BY <1>1, <1>2 DEF Passed
<1>7. k \notin Passed(s)
  BY <1>2 DEF Passed
<1>8. Cardinality(Passed(s) \cup {k}) = Cardinality(Passed(s)) + 1
  BY <1>5, <1>7, FS_AddElement
<1>. QED BY <1>1, <1>3, <1>4, <1>5, <1>6, <1>8 DEF t

\* The threads that were let through are among those that have an item.
LEMMA ClaimedAreBusy ==
  ASSUME IsFiniteSet(Busy)
  PROVE  /\ IsFiniteSet(Claimed) /\ Cardinality(Claimed) \in Nat /\ Cardinality(Busy) \in Nat
         /\ Claimed \subseteq Busy
<1>1. Claimed \subseteq Busy
  BY DEF Claimed, Busy
<1>. QED BY <1>1, FS_Subset, FS_CardinalityType

\* A thread ends its item: turned away, or after it was let through.
LEMMA EndStep ==
  ASSUME OwnVariables, ItemsInv, SlotsInv, NEW w \in Worker,
         NEW o \in {"capped", "missing", "empty", "compared"},
         Outcome(w, o), UNCHANGED <<queue, item, slots>>,
         IF o = "capped" THEN pc[w] = "claim" /\ slots + 2 > MaxSlots
         ELSE pc[w] \in {"resolve", "compare"}
  PROVE  OwnVariables' /\ ItemsInv' /\ SlotsInv'
<1>. DEFINE e == [item |-> item[w], outcome |-> o]
<1>1. /\ outcomes' = Append(outcomes, e) /\ pc' = [pc EXCEPT ![w] = "idle"]
      /\ queue' = queue /\ item' = item /\ slots' = slots
  BY DEF Outcome
<1>2. OwnVariables'
  BY <1>1 DEF OwnVariables
<1>3. w \in Busy /\ Busy' = Busy \ {w} /\ Claimed' = Claimed \ {w}
      /\ (w \in Claimed <=> o # "capped")
  BY <1>1 DEF OwnVariables, Busy, Claimed
<1>4. item[w] \in Items
  BY <1>3 DEF ItemsInv
<1>5. e \in Ended /\ e.item = item[w] /\ e.outcome = o
  BY <1>4 DEF Ended
<1>. HIDE DEF e
<1>6. outcomes \in Seq(Ended)
  BY DEF ItemsInv
<1>7. /\ outcomes' \in Seq(Ended) /\ Len(outcomes') = Len(outcomes) + 1 /\ Len(outcomes) \in Nat
      /\ ItemsOf(outcomes') = ItemsOf(outcomes) \cup {item[w]}
      /\ Cardinality(Passed(outcomes)) \in Nat
      /\ Cardinality(Passed(outcomes')) =
           Cardinality(Passed(outcomes)) + (IF o = "capped" THEN 0 ELSE 1)
      /\ SomeCapped(outcomes') <=> SomeCapped(outcomes) \/ o = "capped"
  BY <1>1, <1>5, <1>6, OneMore
<1>8. IsFiniteSet(Busy) /\ IsFiniteSet(Claimed) /\ Cardinality(Claimed) \in Nat
      /\ Cardinality(Busy) \in Nat
  BY ClaimedAreBusy DEF ItemsInv
<1>9. IsFiniteSet(Busy') /\ Cardinality(Busy') = Cardinality(Busy) - 1
  BY <1>3, <1>8, FS_RemoveElement
<1>10. Cardinality(Claimed') = Cardinality(Claimed) - (IF o = "capped" THEN 0 ELSE 1)
  <2>1. Cardinality(Claimed \ {w}) =
          IF w \in Claimed THEN Cardinality(Claimed) - 1 ELSE Cardinality(Claimed)
    BY <1>8, FS_RemoveElement
  <2>. QED BY <1>3, <1>8, <2>1
<1>11. {item'[v] : v \in Busy'} \cup {item[w]} = {item[v] : v \in Busy}
  BY <1>1, <1>3
<1>12. ItemsInv'
  <2>1. Len(queue') + Cardinality(Busy') + Len(outcomes') = Len(WorkItems)
    <3>1. Len(queue) \in Nat
      BY DEF ItemsInv
    <3>. QED BY <1>1, <1>7, <1>8, <1>9, <3>1 DEF ItemsInv
  <2>2. Items = Range(queue) \cup {item[v] : v \in Busy} \cup ItemsOf(outcomes)
    BY DEF ItemsInv
  <2>3. Items = Range(queue') \cup {item'[v] : v \in Busy'} \cup ItemsOf(outcomes')
    BY <1>1, <1>7, <1>11, <2>2
  <2>4. queue' \in Seq(Items)
    BY <1>1 DEF ItemsInv
  <2>. QED BY <1>7, <1>9, <2>1, <2>3, <2>4 DEF ItemsInv
<1>13. SlotsInv'
  <2>1. Cardinality(Passed(outcomes')) + Cardinality(Claimed') =
          Cardinality(Passed(outcomes)) + Cardinality(Claimed)
    BY <1>7, <1>8, <1>10
  <2>2. SomeCapped(outcomes') => MaxSlots < slots + 2
    <3>1. slots \in Nat
      BY <1>7, <1>8 DEF SlotsInv
    <3>. QED BY <1>7, <3>1, ItemsAreListed DEF SlotsInv
  <2>. QED BY <1>1, <2>1, <2>2 DEF SlotsInv
<1>. QED BY <1>2, <1>12, <1>13

\* A thread that takes the next item.
LEMMA TakeStep ==
  ASSUME OwnVariables, ItemsInv, SlotsInv, NEW w \in Worker, Take(w)
  PROVE  OwnVariables' /\ ItemsInv' /\ SlotsInv'
<1>1. /\ pc[w] = "idle" /\ queue # <<>> /\ queue' = Tail(queue)
      /\ item' = [item EXCEPT ![w] = Head(queue)] /\ pc' = [pc EXCEPT ![w] = "claim"]
      /\ outcomes' = outcomes /\ slots' = slots
  BY DEF Take
<1>2. OwnVariables'
  BY <1>1 DEF OwnVariables
<1>3. w \notin Busy /\ Busy' = Busy \cup {w} /\ Claimed' = Claimed
  BY <1>1 DEF OwnVariables, Busy, Claimed
<1>4. queue \in Seq(Items)
  BY DEF ItemsInv
<1>5. /\ queue' \in Seq(Items) /\ Len(queue') = Len(queue) - 1 /\ Len(queue) \in Nat
      /\ Range(queue) = Range(queue') \cup {Head(queue)}
  <2>1. \A X : \A s \in Seq(X) : s # <<>> =>
          /\ Tail(s) \in Seq(X) /\ Len(Tail(s)) = Len(s) - 1 /\ Len(s) \in Nat \ {0}
          /\ DOMAIN s = 1 .. Len(s) /\ DOMAIN Tail(s) = 1 .. (Len(s) - 1)
          /\ Head(s) = s[1] /\ \A i \in DOMAIN Tail(s) : Tail(s)[i] = s[i + 1]
    OBVIOUS
  <2>. DEFINE t == queue'
  <2>2. /\ t \in Seq(Items) /\ Len(t) = Len(queue) - 1 /\ Len(queue) \in Nat \ {0}
        /\ DOMAIN queue = 1 .. Len(queue) /\ DOMAIN t = 1 .. (Len(queue) - 1)
        /\ Head(queue) = queue[1] /\ \A i \in DOMAIN t : t[i] = queue[i + 1]
    BY <1>1, <1>4, <2>1
  <2>. HIDE DEF t
  <2>3. /\ 1 \in DOMAIN queue /\ \A i \in DOMAIN t : i + 1 \in DOMAIN queue
        /\ \A i \in DOMAIN queue : i = 1 \/ (i - 1 \in DOMAIN t /\ (i - 1) + 1 = i)
    BY <2>2
  <2>4. \A i \in DOMAIN queue : i = 1 \/ t[i - 1] = queue[i]
    BY <2>2, <2>3
  <2>5. Range(queue) = Range(t) \cup {queue[1]}
    BY <2>2, <2>3, <2>4 DEF Range
  <2>. QED BY <2>2, <2>5 DEF t
<1>6. item'[w] = Head(queue) /\ \A v \in Busy : item'[v] = item[v]
  BY <1>1, <1>3 DEF OwnVariables, Busy
<1>7. {item'[v] : v \in Busy'} = {item[v] : v \in Busy} \cup {Head(queue)}
  BY <1>3, <1>6
<1>8. IsFiniteSet(Busy') /\ Cardinality(Busy') = Cardinality(Busy) + 1
      /\ Cardinality(Busy) \in Nat
  BY <1>3, FS_AddElement, FS_CardinalityType DEF ItemsInv
<1>9. ItemsInv'
  <2>1. Len(outcomes) \in Nat
    BY DEF ItemsInv
  <2>2. Len(queue') + Cardinality(Busy') + Len(outcomes') = Len(WorkItems)
    BY <1>1, <1>5, <1>8, <2>1 DEF ItemsInv
  <2>3. Items = Range(queue) \cup {item[v] : v \in Busy} \cup ItemsOf(outcomes)
    BY DEF ItemsInv
  <2>4. Items = Range(queue') \cup {item'[v] : v \in Busy'} \cup ItemsOf(outcomes')
    BY <1>1, <1>5, <1>7, <2>3
  <2>5. outcomes' \in Seq(Ended)
    BY <1>1 DEF ItemsInv
  <2>. QED BY <1>5, <1>8, <2>2, <2>4, <2>5 DEF ItemsInv
<1>10. SlotsInv'
  BY <1>1, <1>3 DEF SlotsInv
<1>. QED BY <1>2, <1>9, <1>10

\* A thread that is let through, and one that goes on to compare.
LEMMA PassStep ==
  ASSUME OwnVariables, ItemsInv, SlotsInv, NEW w \in Worker,
         UNCHANGED <<queue, item, outcomes>>,
         \/ /\ pc[w] = "claim" /\ slots + 2 <= MaxSlots
            /\ pc' = [pc EXCEPT ![w] = "resolve"] /\ slots' = slots + 2
         \/ /\ pc[w] = "resolve"
            /\ pc' = [pc EXCEPT ![w] = "compare"] /\ slots' = slots
  PROVE  OwnVariables' /\ ItemsInv' /\ SlotsInv'
<1>1. OwnVariables'
  BY DEF OwnVariables
<1>2. Busy' = Busy
  BY DEF OwnVariables, Busy
<1>3. ItemsInv'
  BY <1>2 DEF ItemsInv
<1>4. /\ IsFiniteSet(Claimed) /\ Cardinality(Claimed) \in Nat
      /\ Cardinality(Passed(outcomes)) \in Nat
  <2>1. outcomes \in Seq(Ended) /\ IsFiniteSet(Busy)
    BY DEF ItemsInv
  <2>. QED BY <2>1, ClaimedAreBusy, PassedAreFinite
<1>5. CASE /\ pc[w] = "claim" /\ slots + 2 <= MaxSlots
           /\ pc' = [pc EXCEPT ![w] = "resolve"] /\ slots' = slots + 2
  <2>1. w \notin Claimed /\ Claimed' = Claimed \cup {w}
    BY <1>5 DEF OwnVariables, Claimed
  <2>2. Cardinality(Claimed') = Cardinality(Claimed) + 1
    BY <1>4, <2>1, FS_AddElement
  <2>3. slots \in Nat
    BY <1>4 DEF SlotsInv
  <2>4. ~ SomeCapped(outcomes)
    BY <1>5, <2>3, ItemsAreListed DEF SlotsInv
  <2>. QED BY <1>1, <1>3, <1>4, <1>5, <2>2, <2>3, <2>4 DEF SlotsInv
<1>6. CASE /\ pc[w] = "resolve"
           /\ pc' = [pc EXCEPT ![w] = "compare"] /\ slots' = slots
  <2>1. Claimed' = Claimed
    BY <1>6 DEF OwnVariables, Claimed
  <2>. QED BY <1>1, <1>3, <1>6, <2>1 DEF SlotsInv
<1>. QED BY <1>5, <1>6

\* Nothing is taken before the index is built.
LEMMA CapInitially == Init => CapInv
BY DEF Init, CapInv, OwnVariables, Busy

\* Every step keeps the count of items and of slots.
LEMMA CapKept == CapInv /\ [Next]_vars => CapInv'
<1>. SUFFICES ASSUME CapInv, [Next]_vars PROVE CapInv'
  OBVIOUS
<1>. DEFINE Good == OwnVariables' /\ ItemsInv' /\ SlotsInv'
<1>1. ASSUME NEW found \in SUBSET JarId, BuildClassProviderIndex(found) PROVE CapInv'
  <2>1. /\ phase' = "diff" /\ queue' = WorkItems /\ outcomes' = <<>> /\ slots' = 0
        /\ Busy = {} /\ UNCHANGED <<pc, item>>
    BY <1>1 DEF BuildClassProviderIndex, CapInv
  <2>2. Busy' = {} /\ Claimed' = {} /\ OwnVariables'
    BY <2>1 DEF CapInv, Busy, Claimed, OwnVariables
  <2>3. Passed(outcomes') = {} /\ ~ SomeCapped(outcomes') /\ ItemsOf(outcomes') = {}
    BY <2>1 DEF Passed, SomeCapped, ItemsOf
  <2>4. ItemsInv'
    <3>1. IsFiniteSet(Busy') /\ Cardinality(Busy') = 0
      BY <2>2, FS_EmptySet
    <3>2. outcomes' \in Seq(Ended) /\ Len(outcomes') = 0
      BY <2>1
    <3>3. Len(queue') + Cardinality(Busy') + Len(outcomes') = Len(WorkItems)
      BY <2>1, <3>1, <3>2, ItemsAreListed
    <3>4. queue' \in Seq(Items) /\ Range(queue') = Items
      BY <2>1, ItemsAreListed DEF Items
    <3>5. {item'[w] : w \in Busy'} = {}
      BY <2>2
    <3>. QED BY <2>3, <3>1, <3>2, <3>3, <3>4, <3>5 DEF ItemsInv
  <2>5. SlotsInv'
    <3>1. Cardinality(Passed(outcomes')) = 0 /\ Cardinality(Claimed') = 0
      BY <2>2, <2>3, FS_EmptySet
    <3>2. slots' = 2 * (Cardinality(Passed(outcomes')) + Cardinality(Claimed'))
      BY <2>1, <3>1
    <3>. QED BY <2>1, <2>3, <3>2, ItemsAreListed DEF SlotsInv
  <2>. QED BY <2>1, <2>2, <2>4, <2>5 DEF CapInv
<1>2. ASSUME NEW w \in Worker,
             \/ Take(w) \/ ClaimSlots(w)
             \/ \E found \in SUBSET JarId : ResolveJars(w, found)
             \/ \E dRead, rRead \in SUBSET AllClasses : Compare(w, dRead, rRead)
      PROVE  CapInv'
  <2>1. phase # "index" /\ phase # "done" /\ phase' = phase
    <3>1. phase' = phase
      BY <1>2 DEF Take, ClaimSlots, ResolveJars, Compare
    <3>2. CASE Take(w)
      BY <3>1, <3>2 DEF Take
    <3>3. CASE ~ Take(w)
      <4>1. w \in Busy
        BY <1>2, <3>3 DEF ClaimSlots, ResolveJars, Compare, Busy
      <4>. QED BY <3>1, <4>1 DEF CapInv
    <3>. QED BY <3>2, <3>3
  <2>2. OwnVariables /\ ItemsInv /\ SlotsInv
    BY <2>1 DEF CapInv
  <2>3. CASE Take(w)
    <3>1. Good
      BY <2>2, <2>3, TakeStep
    <3>. QED BY <2>1, <3>1 DEF CapInv
  <2>4. CASE ClaimSlots(w)
    <3>1. Good
      <4>1. slots \in Int /\ MaxSlots \in Nat
        <5>1. Cardinality(Claimed) \in Nat
          BY <2>2, ClaimedAreBusy DEF ItemsInv
        <5>2. Cardinality(Passed(outcomes)) \in Nat
          BY <2>2, PassedAreFinite DEF ItemsInv
        <5>. QED BY <2>2, <5>1, <5>2, ItemsAreListed DEF SlotsInv
      <4>2. CASE slots + 2 > MaxSlots
        <5>1. Outcome(w, "capped") /\ UNCHANGED <<queue, item, slots>> /\ pc[w] = "claim"
          BY <2>4, <4>2 DEF ClaimSlots
        <5>. QED BY <2>2, <4>2, <5>1, EndStep
      <4>3. CASE ~ (slots + 2 > MaxSlots)
        <5>1. /\ UNCHANGED <<queue, item, outcomes>> /\ pc[w] = "claim"
              /\ pc' = [pc EXCEPT ![w] = "resolve"] /\ slots' = slots + 2
          BY <2>4, <4>3 DEF ClaimSlots
        <5>2. slots + 2 <= MaxSlots
          BY <4>1, <4>3
        <5>. QED BY <2>2, <5>1, <5>2, PassStep
      <4>. QED BY <4>2, <4>3
    <3>. QED BY <2>1, <3>1 DEF CapInv
  <2>5. CASE \E found \in SUBSET JarId : ResolveJars(w, found)
    <3>1. PICK found \in SUBSET JarId : ResolveJars(w, found)
      BY <2>5
    <3>2. pc[w] = "resolve" /\ UNCHANGED <<queue, item, slots>>
      BY <3>1 DEF ResolveJars
    <3>3. \/ pc' = [pc EXCEPT ![w] = "compare"] /\ UNCHANGED outcomes
          \/ Outcome(w, "missing")
      BY <3>1 DEF ResolveJars
    <3>4. CASE Outcome(w, "missing")
      <4>1. Good
        BY <2>2, <3>2, <3>4, EndStep
      <4>. QED BY <2>1, <4>1 DEF CapInv
    <3>5. CASE pc' = [pc EXCEPT ![w] = "compare"] /\ UNCHANGED outcomes
      <4>1. Good
        BY <2>2, <3>2, <3>5, PassStep
      <4>. QED BY <2>1, <4>1 DEF CapInv
    <3>. QED BY <3>3, <3>4, <3>5
  <2>6. CASE \E dRead, rRead \in SUBSET AllClasses : Compare(w, dRead, rRead)
    <3>1. PICK dRead, rRead \in SUBSET AllClasses : Compare(w, dRead, rRead)
      BY <2>6
    <3>2. pc[w] = "compare" /\ UNCHANGED <<queue, item, slots>>
      BY <3>1 DEF Compare
    <3>3. Outcome(w, "empty") \/ Outcome(w, "compared")
      BY <3>1 DEF Compare
    <3>4. Good
      BY <2>2, <3>2, <3>3, EndStep
    <3>. QED BY <2>1, <3>4 DEF CapInv
  <2>. QED BY <1>2, <2>3, <2>4, <2>5, <2>6
<1>3. CASE UNCHANGED vars
  <2>1. UNCHANGED <<phase, queue, pc, item, slots, outcomes>>
    BY <1>3 DEF vars
  <2>. QED BY <2>1 DEF CapInv, OwnVariables, ItemsInv, SlotsInv, Busy, Claimed
<1>4. CASE Join
  <2>1. /\ phase = "diff" /\ phase' = "done" /\ queue = <<>>
        /\ UNCHANGED <<queue, pc, item, slots, outcomes>> /\ Busy = {}
    BY <1>4 DEF Join, Busy
  <2>2. Busy' = Busy /\ Claimed' = Claimed /\ OwnVariables'
    BY <2>1 DEF CapInv, Busy, Claimed, OwnVariables
  <2>. QED BY <2>1, <2>2 DEF CapInv, ItemsInv, SlotsInv
<1>5. CASE Returned
  BY <1>3, <1>5 DEF Returned
<1>. QED BY <1>1, <1>2, <1>3, <1>4, <1>5 DEF Next

\* However the threads interleave, exactly as many items are let through as the
\* cap has room for, and every item ends once (abi_diff.py,
\* _try_consume_cap_slots).
THEOREM TheCapIsExact == Spec => []CapIsExact
<1>1. CapInv => CapIsExact
  <2>. DEFINE L == Len(WorkItems)
              P == Cardinality(Passed(outcomes))
  <2>. SUFFICES ASSUME CapInv, phase = "done"
                PROVE  /\ ItemsOf(outcomes) = Items
                       /\ Len(outcomes) = L
                       /\ P = IF 2 * L <= MaxSlots THEN L ELSE MaxSlots \div 2
    BY DEF CapIsExact, ItemsOf, Passed, Items
  <2>1. ItemsInv /\ SlotsInv /\ queue = <<>> /\ Busy = {}
    BY DEF CapInv
  <2>2. Claimed = {}
    BY <2>1 DEF Claimed, Busy
  <2>3. Cardinality(Busy) = 0 /\ Cardinality(Claimed) = 0
    BY <2>1, <2>2, FS_EmptySet
  <2>4. Len(outcomes) = L /\ outcomes \in Seq(Ended) /\ L \in Nat /\ MaxSlots \in Nat
    BY <2>1, <2>3, ItemsAreListed DEF ItemsInv
  <2>5. ItemsOf(outcomes) = Items
    BY <2>1 DEF ItemsInv, Range
  <2>6. DOMAIN outcomes = 1 .. L
    BY <2>4
  <2>7. IsFiniteSet(DOMAIN outcomes) /\ Cardinality(DOMAIN outcomes) = L
    <3>. HIDE DEF L
    <3>1. IsFiniteSet(1 .. L) /\ Cardinality(1 .. L) = L
      BY <2>4, FS_Interval
    <3>. QED BY <2>6, <3>1
  <2>8. /\ Passed(outcomes) \subseteq DOMAIN outcomes
        /\ SomeCapped(outcomes) <=> Passed(outcomes) # DOMAIN outcomes
    BY DEF Passed, SomeCapped
  <2>9. P \in Nat /\ P <= L /\ (P = L => Passed(outcomes) = DOMAIN outcomes)
    BY <2>7, <2>8, FS_Subset, FS_CardinalityType
  <2>10. slots = 2 * P /\ slots <= MaxSlots /\ (SomeCapped(outcomes) => MaxSlots < slots + 2)
    BY <2>1, <2>3, <2>9 DEF SlotsInv
  <2>. HIDE DEF L, P
  <2>11. CASE SomeCapped(outcomes)
    <3>1. P < L /\ 2 * P <= MaxSlots /\ MaxSlots < 2 * P + 2
      BY <2>4, <2>8, <2>9, <2>10, <2>11
    <3>2. MaxSlots \div 2 = P /\ ~ 2 * L <= MaxSlots
      BY <2>4, <2>9, <3>1
    <3>. QED BY <2>4, <2>5, <3>2
  <2>12. CASE ~ SomeCapped(outcomes)
    <3>1. Passed(outcomes) = DOMAIN outcomes
      BY <2>8, <2>12
    <3>2. P = L
      BY <2>7, <3>1 DEF P
    <3>. QED BY <2>4, <2>5, <2>10, <3>2
  <2>. QED BY <2>11, <2>12
<1>. QED BY <1>1, CapInitially, CapKept, PTL DEF Spec
-----------------------------------------------------------------------------
(* Removals.                                                                *)

\* Every class that a resolved JAR of the local repository has is in the index.
IndexIsComplete ==
  phase # "index" =>
    \A i \in DOMAIN Nodes, c \in AllClasses :
      /\ Nodes[i].resolved /\ place[DeclaredJar(Nodes[i])] = "m2"
      /\ c \in classes[DeclaredJar(Nodes[i])]
      => provider[c] # None

RemovedInv == IInv /\ IndexIsComplete /\ RemovedIsGone

\* The index misses no resolved JAR of the local repository.
LEMMA IndexCompletes ==
  ASSUME InputTypes, NEW found \in SUBSET JarId, BuildClassProviderIndex(found)
  PROVE  IndexIsComplete'
<1>1. /\ provider' = IndexOf(found) /\ UNCHANGED <<classes, place>>
      /\ Findable({DeclaredJar(Nodes[i]) : i \in {k \in DOMAIN Nodes : Nodes[k].resolved}}, found)
  BY DEF BuildClassProviderIndex, input
<1>2. ASSUME NEW i \in DOMAIN Nodes, NEW c \in AllClasses,
             Nodes[i].resolved, place[DeclaredJar(Nodes[i])] = "m2",
             c \in classes[DeclaredJar(Nodes[i])]
      PROVE  IndexOf(found)[c] # None
  <2>1. DeclaredJar(Nodes[i]) \in found
    BY <1>1, <1>2 DEF Findable
  <2>. DEFINE P == {k \in DOMAIN Nodes : /\ Nodes[k].resolved
                                         /\ DeclaredJar(Nodes[k]) \in found
                                         /\ c \in classes[DeclaredJar(Nodes[k])]}
  <2>2. i \in P
    BY <1>2, <2>1
  <2>3. IndexOf(found)[c] = Nodes[Earliest(P)].coord
    BY <2>2 DEF IndexOf
  <2>4. Earliest(P) \in DOMAIN Nodes
    <3>1. P \in SUBSET (DOMAIN Nodes) /\ P # {}
      BY <2>2
    <3>. HIDE DEF P
    <3>2. Earliest(P) \in P
      BY <3>1, EarliestIsOne
    <3>. QED BY <3>1, <3>2
  <2>. HIDE DEF P
  <2>5. \A k \in DOMAIN Nodes : Nodes[k].coord \in Coord
    <3>1. \A X : \A s \in Seq(X) : \A k \in DOMAIN s : s[k] \in X
      OBVIOUS
    <3>2. \A k \in DOMAIN Nodes : Nodes[k] \in [coord: Coord, version: Version, resolved: BOOLEAN]
      BY <3>1, NodesAssumption
    <3>. QED BY <3>2
  <2>. QED BY <2>3, <2>4, <2>5, NoneAssumption
<1>3. AllClasses' = AllClasses
  BY <1>1 DEF AllClasses
<1>. QED BY <1>1, <1>2, <1>3 DEF IndexIsComplete, DeclaredJar

\* What a comparison reports as gone is in no resolved JAR of the local
\* repository, or in one of the same coordinate that the comparison did not read.
LEMMA RemovalsAreReal ==
  ASSUME RemovedInv, phase # "index",
         NEW w \in Worker, pc[w] = "compare",
         NEW d \in SUBSET AllClasses, NEW r \in SUBSET AllClasses,
         Readable(ResolvedJar(item[w]), r),
         NEW f \in Emitted(item[w], d, r, provider, provenance[w]),
         f.action = "REMOVED", f.moved = None,
         NEW i \in DOMAIN Nodes, Nodes[i].resolved, place[DeclaredJar(Nodes[i])] = "m2",
         f.class \in classes[DeclaredJar(Nodes[i])]
  PROVE  \E k \in ResolvedNodes(f.coord) :
           f.class \in classes[DeclaredJar(Nodes[k])] /\ NotRead(f, k)
<1>. DEFINE n == item[w]
            c == f.class
<1>1. /\ c \in d /\ c \notin r /\ (provider[c] = n.coord \/ provider[c] = None)
      /\ f.coord = n.coord
  BY DEF Emitted
<1>2. c \in AllClasses
  BY <1>1
<1>. HIDE DEF c, n
<1>3. provider[c] # None
  BY <1>2 DEF RemovedInv, IndexIsComplete, c
<1>4. provider[c] = n.coord
  BY <1>1, <1>3
<1>5. PICK k \in ResolvedNodes(n.coord) : c \in classes[DeclaredJar(Nodes[k])]
  BY <1>2, <1>3, <1>4 DEF RemovedInv, IInv, Provided
<1>6. ResolvedJar(f) = ResolvedJar(n)
  BY <1>1 DEF ResolvedJar
<1>7. c \notin Inspected(ResolvedJar(n)) \/ "javap" \in Faults
  BY <1>1 DEF Readable, n
<1>8. NotRead(f, k)
  BY <1>6, <1>7 DEF NotRead, c
<1>. QED BY <1>1, <1>5, <1>8 DEF c

\* A class that is reported as removed, and not as moved, is in no resolved JAR
\* of the local repository, unless a resolved JAR of the compared coordinate
\* has it and the comparison did not read it there (abi_diff.py, _emit_findings
\* and _build_class_provider_index): any pool, any JARs, any faults.
THEOREM RemovalsAreJudgedAgainstAll == Spec => []RemovedIsGone
<1>1. Init => RemovedInv
  <2>. SUFFICES ASSUME Init PROVE RemovedInv
    OBVIOUS
  <2>1. IndexIsComplete /\ RemovedIsGone
    BY DEF Init, IndexIsComplete, RemovedIsGone
  <2>. QED BY <2>1, Initially DEF RemovedInv
<1>2. RemovedInv /\ IInv' /\ [Next]_vars => RemovedInv'
  <2>. SUFFICES ASSUME RemovedInv, IInv', [Next]_vars PROVE RemovedInv'
    OBVIOUS
  <2>1. UNCHANGED <<classes, place>>
    BY DEF Next, vars, input, BuildClassProviderIndex, Take, ClaimSlots, ResolveJars, Compare,
           Join, Returned
  <2>2. /\ AllClasses' = AllClasses
        /\ \A f, i : NotRead(f, i)' <=> NotRead(f, i)
    BY <2>1 DEF AllClasses, NotRead, Inspected, DeclaredJar, ResolvedJar
  <2>3. ASSUME NEW found \in SUBSET JarId, BuildClassProviderIndex(found) PROVE RemovedInv'
    <3>1. IndexIsComplete'
      BY <2>3, IndexCompletes DEF RemovedInv, IInv
    <3>2. RemovedIsGone'
      BY <2>1, <2>2, <2>3 DEF BuildClassProviderIndex, RemovedInv, RemovedIsGone, DeclaredJar
    <3>. QED BY <3>1, <3>2 DEF RemovedInv
  <2>4. ASSUME UNCHANGED <<provider, findings>>, phase' = "index" <=> phase = "index"
        PROVE  RemovedInv'
    <3>1. IndexIsComplete'
      BY <2>1, <2>2, <2>4 DEF RemovedInv, IndexIsComplete, DeclaredJar
    <3>2. RemovedIsGone'
      BY <2>1, <2>2, <2>4 DEF RemovedInv, RemovedIsGone, DeclaredJar
    <3>. QED BY <3>1, <3>2 DEF RemovedInv
  <2>5. ASSUME NEW w \in Worker, Take(w) \/ ClaimSlots(w) \/ \E found \in SUBSET JarId : ResolveJars(w, found)
        PROVE  RemovedInv'
    BY <2>4, <2>5 DEF Take, ClaimSlots, ResolveJars
  <2>6. ASSUME NEW w \in Worker, NEW d \in SUBSET AllClasses, NEW r \in SUBSET AllClasses,
               Compare(w, d, r)
        PROVE  RemovedInv'
    <3>1. /\ pc[w] = "compare" /\ Readable(ResolvedJar(item[w]), r)
          /\ UNCHANGED <<provider, phase>>
          /\ \A f \in findings' : f \in findings
                                  \/ f \in Emitted(item[w], d, r, provider, provenance[w])
      BY <2>6 DEF Compare
    <3>2. phase # "index"
      BY <3>1 DEF RemovedInv, IInv, IndexFirst
    <3>3. ASSUME NEW f \in findings', f.action = "REMOVED", f.moved = None,
                 NEW i \in DOMAIN Nodes, Nodes[i].resolved, place[DeclaredJar(Nodes[i])] = "m2",
                 f.class \in classes[DeclaredJar(Nodes[i])]
          PROVE  \E k \in ResolvedNodes(f.coord) :
                   f.class \in classes[DeclaredJar(Nodes[k])] /\ NotRead(f, k)
      <4>1. CASE f \in findings
        BY <3>3, <4>1 DEF RemovedInv, RemovedIsGone
      <4>2. CASE f \in Emitted(item[w], d, r, provider, provenance[w])
        BY <3>1, <3>2, <3>3, <4>2, RemovalsAreReal
      <4>. QED BY <3>1, <4>1, <4>2
    <3>4. RemovedIsGone'
      BY <2>1, <2>2, <3>3 DEF RemovedIsGone, DeclaredJar
    <3>5. IndexIsComplete'
      BY <2>1, <2>2, <3>1 DEF RemovedInv, IndexIsComplete, DeclaredJar
    <3>. QED BY <3>4, <3>5 DEF RemovedInv
  <2>7. CASE Join
    BY <2>4, <2>7 DEF Join
  <2>8. CASE UNCHANGED vars
    BY <2>4, <2>8 DEF vars
  <2>. QED BY <2>3, <2>5, <2>6, <2>7, <2>8 DEF Next, Returned
<1>3. RemovedInv => RemovedIsGone
  BY DEF RemovedInv
<1>. QED BY <1>1, <1>2, <1>3, DifferInvariant, PTL DEF Spec
-----------------------------------------------------------------------------
(* signature_diff, the comparison of one pair of JARs, for all signatures. *)

\* A comparison that has returned holds the three sets of its inputs.
DiffInv ==
  /\ declared \subseteq Sig /\ resolved \subseteq Sig
  /\ done \in BOOLEAN
  /\ result = IF done THEN [added   |-> Added(declared, resolved),
                            removed |-> Removed(declared, resolved),
                            changed |-> Changed(declared, resolved)]
              ELSE NoDifference

\* The invariant holds of the specification of signature_diff.
LEMMA DiffInvariant == DiffSpec => []DiffInv
<1>1. DiffInit => DiffInv
  BY DEF DiffInit, DiffInv
<1>2. DiffInv /\ [DiffNext]_diffVars => DiffInv'
  <2> SUFFICES ASSUME DiffInv, [DiffNext]_diffVars PROVE DiffInv'
    OBVIOUS
  <2>1. CASE Diff
    BY <2>1 DEF DiffInv, Diff
  <2>2. CASE UNCHANGED diffVars
    BY <2>2 DEF DiffInv, diffVars, NoDifference
  <2> QED
    BY <2>1, <2>2 DEF DiffNext, DiffReturned
<1> QED
  BY <1>1, <1>2, PTL DEF DiffSpec

\* The lookup by member and descriptor finds what links.
LEMMA PresentLinks ==
  ASSUME NEW s, NEW S
  PROVE  Present(s, S) <=> Links(s, S)
BY DEF Present, Descriptors, Links

\* A missing descriptor that is not REMOVED is the one that was retyped, and
\* the resolved signature of that member is CHANGED.
LEMMA RetypedIsChanged ==
  ASSUME NEW D \in SUBSET Sig, NEW R \in SUBSET Sig, NEW s \in D,
         Retyped(D, R, s.member)
  PROVE  \E c \in Changed(D, R) : c.member = s.member /\ c.descriptor # s.descriptor
<1>1. PICK d, e \in Descriptor : d # e /\ Descriptors(D, s.member) = {d}
                                       /\ Descriptors(R, s.member) = {e}
  BY DEF Retyped
<1>2. s.descriptor = d
  BY <1>1 DEF Descriptors
<1>3. PICK c \in R : c.member = s.member /\ c.descriptor = e
  BY <1>1 DEF Descriptors
<1>4. c \in Changed(D, R)
  BY <1>3 DEF Changed
<1> QED
  BY <1>1, <1>2, <1>3, <1>4

\* FR-272: no descriptor that the resolved JAR lacks goes unreported.
THEOREM NoRemovalIsLost == DiffSpec => []NoLostRemoval
<1>1. DiffInv => NoLostRemoval
  <2> SUFFICES ASSUME DiffInv, done, NEW s \in declared, ~ Links(s, resolved),
                      s \notin result.removed
               PROVE  \E c \in result.changed : c.member = s.member
                                                /\ c.descriptor # s.descriptor
    BY DEF NoLostRemoval
  <2>1. Retyped(declared, resolved, s.member)
    BY PresentLinks DEF DiffInv, Removed
  <2> QED
    BY <2>1, RetypedIsChanged DEF DiffInv
<1> QED
  BY <1>1, DiffInvariant, PTL

\* Nothing that both JARs have is called REMOVED or ADDED, and the three sets
\* do not overlap on any descriptor of a member.
THEOREM NothingIsMisreported == DiffSpec => []NoFalseReport
<1>1. DiffInv => NoFalseReport
  <2> SUFFICES ASSUME DiffInv PROVE NoFalseReport
    OBVIOUS
  <2>1. CASE ~ done
    BY <2>1 DEF DiffInv, NoDifference, NoFalseReport
  <2>2. CASE done
    <3> DEFINE D == declared
               R == resolved
    <3>1. /\ result.removed = Removed(D, R)
          /\ result.added = Added(D, R)
          /\ result.changed = Changed(D, R)
      BY <2>2 DEF DiffInv
    <3>2. \A s \in Removed(D, R) : s \in D /\ ~ Links(s, R)
      BY PresentLinks DEF Removed
    <3>3. \A s \in Added(D, R) : s \in R /\ ~ Links(s, D)
      BY PresentLinks DEF Added
    <3>4. \A c \in Changed(D, R) \cup Added(D, R) : c \in R
      BY DEF Changed, Added
    <3>5. \A s \in Removed(D, R), c \in Changed(D, R) \cup Added(D, R) :
            ~ (s.member = c.member /\ s.descriptor = c.descriptor)
      BY <3>2, <3>4 DEF Links
    <3>6. \A s \in Added(D, R), c \in Changed(D, R) :
            ~ (s.member = c.member /\ s.descriptor = c.descriptor)
      <4> SUFFICES ASSUME NEW s \in Added(D, R), NEW c \in Changed(D, R),
                          s.member = c.member, s.descriptor = c.descriptor
                   PROVE  FALSE
        OBVIOUS
      <4>1. ~ Present(c, D)
        BY DEF Added, Present
      <4>2. ~ Retyped(D, R, c.member)
        BY DEF Added
      <4> QED
        BY <4>1, <4>2 DEF Changed
    <3> QED
      BY <3>1, <3>2, <3>3, <3>5, <3>6 DEF NoFalseReport
  <2> QED
    BY <2>1, <2>2 DEF DiffInv
<1> QED
  BY <1>1, DiffInvariant, PTL

\* If nothing is reported, each signature of one JAR is one of the other.
LEMMA SilentMeansEqual ==
  ASSUME NEW D \in SUBSET Sig, NEW R \in SUBSET Sig,
         Added(D, R) = {}, Removed(D, R) = {}, Changed(D, R) = {}
  PROVE  D = R
<1>1. \A s \in R : /\ ~ Retyped(D, R, s.member)
                   /\ Present(s, D)
                   /\ Shapes(D, s.member, s.descriptor) = Shapes(R, s.member, s.descriptor)
  BY DEF Added, Changed
<1>2. \A s \in D : Present(s, R)
  <2> SUFFICES ASSUME NEW s \in D, ~ Present(s, R) PROVE FALSE
    OBVIOUS
  <2>1. Retyped(D, R, s.member)
    BY DEF Removed
  <2> QED
    BY <2>1, RetypedIsChanged
<1>3. \A s, t \in Sig : /\ s.member = t.member
                        /\ s.descriptor = t.descriptor
                        /\ s.shape = t.shape
                        => s = t
  BY DEF Sig
<1>4. R \subseteq D
  <2> SUFFICES ASSUME NEW s \in R PROVE s \in D
    OBVIOUS
  <2>1. s.shape \in Shapes(D, s.member, s.descriptor)
    BY <1>1 DEF Shapes
  <2>2. PICK t \in D : t.member = s.member /\ t.descriptor = s.descriptor
                       /\ t.shape = s.shape
    BY <2>1 DEF Shapes
  <2> QED
    BY <2>2, <1>3
<1>5. D \subseteq R
  <2> SUFFICES ASSUME NEW s \in D PROVE s \in R
    OBVIOUS
  <2>1. PICK t \in R : t.member = s.member /\ t.descriptor = s.descriptor
    BY <1>2 DEF Present, Descriptors
  <2>2. s.shape \in Shapes(R, s.member, s.descriptor)
    BY <1>1, <2>1 DEF Shapes
  <2>3. PICK u \in R : u.member = s.member /\ u.descriptor = s.descriptor
                       /\ u.shape = s.shape
    BY <2>2 DEF Shapes
  <2> QED
    BY <2>3, <1>3
<1> QED
  BY <1>4, <1>5

\* Equal surfaces give an empty difference.
LEMMA EqualIsSilent ==
  ASSUME NEW D \in SUBSET Sig
  PROVE  Added(D, D) = {} /\ Removed(D, D) = {} /\ Changed(D, D) = {}
<1>1. \A s \in D : Present(s, D)
  BY DEF Present, Descriptors
<1>2. \A m : ~ Retyped(D, D, m)
  BY DEF Retyped
<1> QED
  BY <1>1, <1>2 DEF Added, Removed, Changed

\* FR-273 and FR-274: the comparison is empty exactly for equal surfaces.
THEOREM DifferencesAreReported == DiffSpec => []NoSilentDifference
<1>1. DiffInv => NoSilentDifference
  <2> SUFFICES ASSUME DiffInv, done
               PROVE  result = NoDifference <=> declared = resolved
    BY DEF NoSilentDifference
  <2>1. ASSUME result = NoDifference PROVE declared = resolved
    <3>1. /\ Added(declared, resolved) = {}
          /\ Removed(declared, resolved) = {}
          /\ Changed(declared, resolved) = {}
      BY <2>1 DEF DiffInv, NoDifference
    <3> QED
      BY <3>1, SilentMeansEqual DEF DiffInv
  <2>2. ASSUME declared = resolved PROVE result = NoDifference
    BY <2>2, EqualIsSilent DEF DiffInv, NoDifference
  <2> QED
    BY <2>1, <2>2
<1> QED
  BY <1>1, DiffInvariant, PTL
=============================================================================
