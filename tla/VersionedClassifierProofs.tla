---------------------- MODULE VersionedClassifierProofs ----------------------
(***************************************************************************)
(* What VersionedClassifier promises for every set of coordinates and      *)
(* versions, every graph, every table of ranges and every cap.             *)
(***************************************************************************)
EXTENDS JavaReport, FiniteSetTheorems, WellFoundedInduction, TLAPS

\* The root edges that required node n and are propagated.
Tallied(n) == RequiredBy(n) \ rootsLeft

RootsInv == rootsLeft \subseteq {e \in edges : e.parent = Root}

\* A node has a status exactly when some root edge reached it, and the status
\* is at least as strong as what each of them passed on.
StatusInv ==
  \A n \in Node :
    /\ nodeStatus[n] = Unset <=> Tallied(n) = {}
    /\ \A e \in Tallied(n) : Rank[Effective(deps[e.child])] <= Rank[nodeStatus[n]]

Verdicts ==
  [n \in Node |-> IF nodeStatus[n] = Unset THEN Unset ELSE Safety(deps[n[1]], n)]

Earlier(n) == {m \in NodesOf(n[1]) : Before(m, n)}

Survivors ==
  {n \in UNION {NodesOf(c) : c \in Coord} : Cardinality(Earlier(n)) < Cap}

StatusesOf(c) == {verdict[n].status : n \in KeptOf(c)}

\* What is decided in each phase.
PhaseInv ==
  /\ pc = "edges" => verdict = [n \in Node |-> Unset]
  /\ pc # "edges" => rootsLeft = {} /\ verdict = Verdicts
  /\ pc \in {"rollup", "done"} => kept = Survivors
  /\ pc = "done" => \A c \in Coord : deps[c] # NoDep /\ KeptOf(c) # {} =>
                                       rollup[c] = Strongest(StatusesOf(c))

IInv == TypeOK /\ RootsInv /\ StatusInv /\ PhaseInv
-----------------------------------------------------------------------------
\* Rank orders the four statuses.
LEMMA Ranks ==
  /\ \A s \in Status : Rank[s] \in Nat /\ (Rank[s] = 0 <=> s = "SAFE")
  /\ \A s, t \in Status : Rank[s] <= Rank[t] \/ Rank[t] <= Rank[s]
BY DEF Rank, Status

\* Stronger keeps what it had and takes in what is new.
LEMMA StrongerIsStronger ==
  ASSUME NEW old \in Status \cup {Unset}, NEW new \in Status
  PROVE  /\ Stronger(old, new) \in Status
         /\ Rank[new] <= Rank[Stronger(old, new)]
         /\ old # Unset => Rank[old] <= Rank[Stronger(old, new)]
BY Ranks, MarksAssumption DEF Stronger

\* Only a SAFE dependency of a registered ecosystem passes on SAFE.
LEMMA EffectiveSafe ==
  ASSUME NEW d \in Direct
  PROVE  /\ Effective(d) \in Status
         /\ Effective(d) = "SAFE" <=> d.status = "SAFE" /\ d.registered
BY DEF Direct, Status, Effective

\* The pin rules yield a node, and never weaken its status.
LEMMA SafetyHolds ==
  ASSUME NEW n \in Node, NEW d \in Direct \cup {NoDep}, nodeStatus[n] \in Status
  PROVE  /\ Safety(d, n) \in [status: Status, removable: BOOLEAN]
         /\ Safety(d, n).status = "SAFE" => nodeStatus[n] = "SAFE"
         /\ Safety(d, n).removable =>
              /\ nodeStatus[n] = "SAFE"
              /\ ~ IsResolved(n)
              /\ d # NoDep => d.pin = "none"
         /\ d # NoDep /\ d.pin # "none" =>
              Safety(d, n).status = IF d.pin = "dynamic" THEN "UNCERTAIN" ELSE "IN_USE"
<1>1. CASE d = NoDep
  BY <1>1 DEF Safety, Held, Status
<1>2. CASE d # NoDep
  <2>1. d \in Direct
    BY <1>2
  <2>. QED BY <1>2, <2>1 DEF Safety, Held, Status, Direct
<1>. QED BY <1>1, <1>2

\* A set of statuses has a strongest one.
LEMMA StrongestExists ==
  ASSUME NEW S \in SUBSET Status, S # {}
  PROVE  Strongest(S) \in S /\ \A t \in S : Rank[t] <= Rank[Strongest(S)]
<1>1. \E s \in S : \A t \in S : Rank[t] <= Rank[s]
  <2>1. CASE "IN_USE" \in S
    BY <2>1 DEF Rank, Status
  <2>2. CASE "UNCERTAIN" \in S /\ "IN_USE" \notin S
    BY <2>2 DEF Rank, Status
  <2>3. CASE "UNDECLARED" \in S /\ "UNCERTAIN" \notin S /\ "IN_USE" \notin S
    BY <2>3 DEF Rank, Status
  <2>4. CASE "UNDECLARED" \notin S /\ "UNCERTAIN" \notin S /\ "IN_USE" \notin S
    BY <2>4 DEF Rank, Status
  <2>. QED BY <2>1, <2>2, <2>3, <2>4
<1>. QED BY <1>1 DEF Strongest

\* A set of numbers that is not empty has a least element.
LEMMA LeastNumber ==
  ASSUME NEW S \in SUBSET Nat, S # {}
  PROVE  \E m \in S : \A k \in S : m <= k
<1>. DEFINE R == {ss \in Nat \X Nat : ss[1] < ss[2]}
<1>1. IsWellFoundedOn(R, Nat)
  BY NatLessThanWellFounded DEF OpToRel
<1>2. \A k, m \in Nat : <<k, m>> \in R <=> k < m
  OBVIOUS
<1>. HIDE DEF R
<1>3. PICK m \in S : \A k \in S : ~ (<<k, m>> \in R)
  BY <1>1, WFMin
<1>4. ASSUME NEW k \in S PROVE m <= k
  <2>1. k \in Nat /\ m \in Nat
    OBVIOUS
  <2>2. ~ (k < m)
    BY <2>1, <1>2, <1>3
  <2>. QED BY <2>1, <2>2
<1>. QED BY <1>4
-----------------------------------------------------------------------------
\* The nodes of a coordinate are finitely many.
LEMMA NodesAreFinite ==
  ASSUME NEW c \in Coord
  PROVE  /\ NodesOf(c) \subseteq Node
         /\ IsFiniteSet(NodesOf(c))
<1>. DEFINE V == Version \cup {NoVersion}
<1>1. IsFiniteSet(V)
  BY VersionAssumption, FS_AddElement
<1>2. IsFiniteSet({c} \X V)
  BY <1>1, FS_Singleton, FS_Product
<1>3. NodesOf(c) \subseteq {c} \X V
  BY DEF NodesOf, Node
<1>. QED BY <1>2, <1>3, FS_Subset DEF NodesOf

\* Before is a total order on the nodes of a coordinate.
LEMMA BeforeIsTotal ==
  ASSUME NEW c \in Coord
  PROVE  /\ \A n \in NodesOf(c) : n[1] = c /\ n[2] \in Nat
         /\ \A n \in NodesOf(c) : ~ Before(n, n)
         /\ \A m, n \in NodesOf(c) : m # n => Before(m, n) \/ Before(n, m)
         /\ \A k, m, n \in NodesOf(c) : Before(k, m) /\ Before(m, n) => Before(k, n)
<1>1. ASSUME NEW n \in NodesOf(c) PROVE n = <<c, n[2]>> /\ n[1] = c /\ n[2] \in Nat
  <2>1. n \in Coord \X (Version \cup {NoVersion}) /\ n[1] = c
    BY DEF NodesOf, Node
  <2>2. n[2] \in Version \cup {NoVersion} /\ n = <<n[1], n[2]>>
    BY <2>1
  <2>3. n[2] \in Nat
    BY <2>2, VersionAssumption DEF NoVersion
  <2>. QED BY <2>1, <2>2, <2>3
<1>. QED BY <1>1 DEF Before

\* The nodes before an earlier node are fewer.
LEMMA EarlierHasFewer ==
  ASSUME NEW c \in Coord, NEW m \in NodesOf(c), NEW n \in NodesOf(c), Before(m, n)
  PROVE  /\ Cardinality(Earlier(m)) \in Nat
         /\ Cardinality(Earlier(n)) \in Nat
         /\ Cardinality(Earlier(m)) < Cardinality(Earlier(n))
<1>1. /\ Earlier(m) \subseteq Earlier(n)
      /\ m \in Earlier(n) /\ m \notin Earlier(m)
      /\ Earlier(n) \subseteq NodesOf(c)
  BY BeforeIsTotal DEF Earlier
<1>2. IsFiniteSet(Earlier(n)) /\ IsFiniteSet(Earlier(m))
  BY <1>1, NodesAreFinite, FS_Subset
<1>3. /\ Cardinality(Earlier(m)) <= Cardinality(Earlier(n))
      /\ Cardinality(Earlier(m)) # Cardinality(Earlier(n))
  BY <1>1, <1>2, FS_Subset
<1>. QED BY <1>2, <1>3, FS_CardinalityType

\* A node is earlier than no more nodes than its coordinate has others.
LEMMA EarlierIsFewerThanAll ==
  ASSUME NEW c \in Coord, NEW n \in NodesOf(c)
  PROVE  /\ Cardinality(Earlier(n)) \in Nat
         /\ Cardinality(NodesOf(c)) \in Nat
         /\ Cardinality(Earlier(n)) < Cardinality(NodesOf(c))
<1>1. Earlier(n) \subseteq NodesOf(c) /\ n \notin Earlier(n)
  BY BeforeIsTotal DEF Earlier
<1>2. IsFiniteSet(NodesOf(c)) /\ IsFiniteSet(Earlier(n))
  BY <1>1, NodesAreFinite, FS_Subset
<1>3. /\ Cardinality(Earlier(n)) <= Cardinality(NodesOf(c))
      /\ Cardinality(Earlier(n)) # Cardinality(NodesOf(c))
  BY <1>1, <1>2, FS_Subset
<1>. QED BY <1>2, <1>3, FS_CardinalityType

\* Of the nodes of a coordinate that have a property, one comes first, when
\* the property is to be resolved or not to be.
LEMMA FirstNode ==
  ASSUME NEW c \in Coord, NEW S \in SUBSET NodesOf(c), S # {},
         \A m, n \in S : IsResolved(m) <=> IsResolved(n)
  PROVE  \E n \in S : \A m \in S : ~ Before(m, n)
<1>. DEFINE T == {n[2] : n \in S}
<1>1. T \subseteq Nat /\ T # {}
  BY BeforeIsTotal
<1>2. PICK k \in T : \A j \in T : k <= j
  BY <1>1, LeastNumber
<1>3. PICK n \in S : n[2] = k
  BY <1>2
<1>4. ASSUME NEW m \in S PROVE ~ Before(m, n)
  <2>1. k <= m[2] /\ m[2] \in Nat /\ k \in Nat
    BY <1>1, <1>2
  <2>. QED BY <2>1, <1>3 DEF Before
<1>. QED BY <1>4

\* What the cap keeps of a coordinate, when the nodes kept are the survivors.
LEMMA KeptAre ==
  ASSUME NEW c \in Coord, kept = Survivors
  PROVE  KeptOf(c) = {n \in NodesOf(c) : Cardinality(Earlier(n)) < Cap}
BY DEF KeptOf, Survivors, NodesOf

\* At most Cap nodes of a coordinate are kept.
LEMMA CapBounds ==
  ASSUME NEW c \in Coord, kept = Survivors
  PROVE  Cardinality(KeptOf(c)) <= Cap
<1>. DEFINE f == [n \in KeptOf(c) |-> Cardinality(Earlier(n))]
<1>1. \A n \in KeptOf(c) : n \in NodesOf(c) /\ f[n] \in 0 .. Cap - 1
  BY KeptAre, EarlierIsFewerThanAll, CapAssumption
<1>2. ASSUME NEW m \in KeptOf(c), NEW n \in KeptOf(c), m # n PROVE f[m] # f[n]
  <2>1. m \in NodesOf(c) /\ n \in NodesOf(c)
    BY <1>1
  <2>2. CASE Before(m, n)
    BY <2>1, <2>2, EarlierHasFewer
  <2>3. CASE Before(n, m)
    BY <2>1, <2>3, EarlierHasFewer
  <2>. QED BY <2>1, <2>2, <2>3, <1>2, BeforeIsTotal
<1>3. f \in Injection(KeptOf(c), 0 .. Cap - 1)
  <2>1. f \in [KeptOf(c) -> 0 .. Cap - 1]
    BY <1>1
  <2>. QED BY <2>1, <1>2 DEF Injection, IsInjective
<1>4. IsFiniteSet(0 .. Cap - 1) /\ Cardinality(0 .. Cap - 1) = Cap
  BY CapAssumption, FS_Interval
<1>. QED BY <1>3, <1>4, FS_Injection

\* A coordinate within the cap keeps all its nodes.
LEMMA CapDropsNothingNeedlessly ==
  ASSUME NEW c \in Coord, kept = Survivors, Cardinality(NodesOf(c)) <= Cap
  PROVE  KeptOf(c) = NodesOf(c)
<1>1. \A n \in NodesOf(c) : Cardinality(Earlier(n)) < Cap
  BY EarlierIsFewerThanAll, CapAssumption
<1>. QED BY <1>1, KeptAre

\* A node that none comes before is kept.
LEMMA FirstIsKept ==
  ASSUME NEW c \in Coord, kept = Survivors, NEW n \in NodesOf(c),
         \A m \in NodesOf(c) : ~ Before(m, n)
  PROVE  n \in KeptOf(c)
<1>1. Earlier(n) = {}
  BY BeforeIsTotal DEF Earlier
<1>. QED BY <1>1, KeptAre, FS_EmptySet, CapAssumption

\* A resolved node survives if there is one, and some node survives always.
LEMMA CapKeepsOne ==
  ASSUME NEW c \in Coord, kept = Survivors, NodesOf(c) # {}
  PROVE  /\ KeptOf(c) # {}
         /\ (\E n \in NodesOf(c) : IsResolved(n)) => \E n \in KeptOf(c) : IsResolved(n)
<1>. DEFINE S == {n \in NodesOf(c) : IsResolved(n)}
<1>1. CASE S # {}
  <2>1. PICK n \in S : \A m \in S : ~ Before(m, n)
    <3>1. S \in SUBSET NodesOf(c) /\ \A m, n \in S : IsResolved(m) <=> IsResolved(n)
      OBVIOUS
    <3>. HIDE DEF S
    <3>. QED BY <1>1, <3>1, FirstNode
  <2>2. \A m \in NodesOf(c) : ~ Before(m, n)
    BY <2>1 DEF Before
  <2>. QED BY <2>1, <2>2, FirstIsKept
<1>2. CASE S = {}
  <2>1. \A m, n \in NodesOf(c) : IsResolved(m) <=> IsResolved(n)
    BY <1>2
  <2>2. PICK n \in NodesOf(c) : \A m \in NodesOf(c) : ~ Before(m, n)
    BY <2>1, FirstNode
  <2>. QED BY <1>2, <2>2, FirstIsKept
<1>. QED BY <1>1, <1>2
-----------------------------------------------------------------------------
\* What the graph says does not change while its inputs do not.
LEMMA SameGraph ==
  ASSUME UNCHANGED inputs
  PROVE  \A n \in Node : RequiredBy(n)' = RequiredBy(n) /\ (IsResolved(n)' <=> IsResolved(n))
BY DEF inputs, RequiredBy, WalkedNodes, Visited, Children, IsResolved

\* Steps after the propagation leave the nodes' statuses and order alone.
LEMMA SameNodes ==
  ASSUME UNCHANGED <<inputs, rootsLeft, nodeStatus>>
  PROVE  /\ \A n \in Node : Tallied(n)' = Tallied(n)
         /\ Verdicts' = Verdicts
         /\ Survivors' = Survivors
         /\ \A c \in Coord : NodesOf(c)' = NodesOf(c)
<1>1. Verdicts' = Verdicts
  BY DEF Verdicts, Safety, Held, IsResolved, inputs
<1>2. Survivors' = Survivors
  BY DEF Survivors, Earlier, NodesOf, Before, IsResolved, inputs
<1>3. \A c \in Coord : NodesOf(c)' = NodesOf(c)
  BY DEF NodesOf
<1>. QED BY <1>1, <1>2, <1>3, SameGraph DEF Tallied

\* A direct dependency is one of the records or missing.
LEMMA DirectOf ==
  ASSUME TypeOK, NEW e \in edges
  PROVE  deps[e.child] \in Direct \cup {NoDep}
BY DEF TypeOK, Edge

\* The verdicts are nodes, or missing where there is no status.
LEMMA VerdictTypes ==
  ASSUME TypeOK
  PROVE  Verdicts \in [Node -> [status: Status, removable: BOOLEAN] \cup {Unset}]
<1>1. ASSUME NEW n \in Node, nodeStatus[n] # Unset
      PROVE  Safety(deps[n[1]], n) \in [status: Status, removable: BOOLEAN]
  <2>1. nodeStatus[n] \in Status /\ deps[n[1]] \in Direct \cup {NoDep}
    BY <1>1 DEF TypeOK, Node
  <2>. QED BY <2>1, SafetyHolds
<1>. QED BY <1>1 DEF Verdicts

LEMMA Initially == Init => IInv
<1>. SUFFICES ASSUME Init PROVE IInv
  OBVIOUS
<1>1. PICK in \in Inputs : deps = in.deps /\ edges = in.edges /\ resolved = in.resolved
  BY DEF Init
<1>2. /\ deps \in [Coord -> Direct \cup {NoDep}]
      /\ edges \subseteq Edge
      /\ resolved \in [Coord -> Version \cup {NoVersion}]
  BY <1>1, InputsAssumption
<1>3. /\ rollup \in [Coord -> Status \cup {Unset}]
      /\ \A c \in Coord : rollup[c] = Unset <=> deps[c] = NoDep
  <2>1. \A d \in Direct : d.status \in Status
    BY DEF Direct
  <2>. QED BY <1>2, <2>1, MarksAssumption DEF Init
<1>4. TypeOK
  BY <1>2, <1>3 DEF Init, TypeOK
<1>5. RootsInv
  BY DEF Init, RootsInv
<1>6. StatusInv
  <2>1. \A n \in Node : Tallied(n) = {} /\ nodeStatus[n] = Unset
    BY DEF Init, Tallied, RequiredBy
  <2>. QED BY <2>1 DEF StatusInv
<1>7. PhaseInv
  BY DEF Init, PhaseInv
<1>. QED BY <1>4, <1>5, <1>6, <1>7 DEF IInv

\* Propagating one root edge.
LEMMA PropagateStep ==
  ASSUME IInv, NEW e \in edges, PropagateRoot(e)
  PROVE  IInv'
<1>. USE DEF IInv
<1>1. /\ pc = "edges" /\ e \in rootsLeft /\ e.parent = Root
      /\ rootsLeft' = rootsLeft \ {e}
      /\ UNCHANGED <<inputs, pc, verdict, kept, rollup>>
  BY DEF PropagateRoot, RootsInv
<1>2. CASE deps[e.child] = NoDep
  <2>1. nodeStatus' = nodeStatus
    BY <1>2 DEF PropagateRoot
  <2>2. \A n \in Node : Tallied(n)' = Tallied(n)
    BY <1>1, <1>2, SameGraph DEF Tallied, RequiredBy
  <2>3. TypeOK'
    BY <1>1, <2>1 DEF TypeOK, inputs
  <2>4. StatusInv'
    BY <1>1, <2>1, <2>2 DEF StatusInv, inputs
  <2>. QED BY <1>1, <2>3, <2>4 DEF RootsInv, PhaseInv, inputs
<1>3. CASE deps[e.child] # NoDep
  <2>. DEFINE eff == Effective(deps[e.child])
  <2>1. eff \in Status
    BY <1>3, DirectOf, EffectiveSafe
  <2>2. nodeStatus' = [n \in Node |-> IF n \in WalkedNodes(e) THEN Stronger(nodeStatus[n], eff)
                                      ELSE nodeStatus[n]]
    BY <1>3 DEF PropagateRoot
  <2>3. \A n \in Node : Tallied(n)' = IF n \in WalkedNodes(e) THEN Tallied(n) \cup {e}
                                      ELSE Tallied(n)
    BY <1>1, <1>3, SameGraph DEF Tallied, RequiredBy
  <2>. HIDE DEF eff
  <2>4. \A n \in Node : nodeStatus[n] \in Status \cup {Unset}
    BY DEF TypeOK
  <2>5. nodeStatus' \in [Node -> Status \cup {Unset}]
    BY <2>1, <2>2, <2>4, StrongerIsStronger
  <2>6. TypeOK'
    BY <1>1, <2>5 DEF TypeOK, inputs
  <2>7. ASSUME NEW n \in Node
        PROVE  /\ nodeStatus'[n] = Unset <=> Tallied(n)' = {}
               /\ \A x \in Tallied(n)' :
                    Rank[Effective(deps'[x.child])] <= Rank[nodeStatus'[n]]
    <3>1. CASE n \notin WalkedNodes(e)
      BY <1>1, <2>2, <2>3, <3>1 DEF StatusInv, inputs
    <3>2. CASE n \in WalkedNodes(e)
      <4>1. nodeStatus'[n] = Stronger(nodeStatus[n], eff) /\ Tallied(n)' = Tallied(n) \cup {e}
        BY <2>2, <2>3, <3>2
      <4>2. nodeStatus'[n] \in Status /\ Rank[eff] <= Rank[nodeStatus'[n]]
        BY <2>1, <2>4, <4>1, StrongerIsStronger
      <4>3. ASSUME NEW x \in Tallied(n)
            PROVE  Rank[Effective(deps[x.child])] <= Rank[nodeStatus'[n]]
        <5>1. /\ nodeStatus[n] # Unset
              /\ Rank[Effective(deps[x.child])] <= Rank[nodeStatus[n]]
          BY <4>3 DEF StatusInv
        <5>2. Effective(deps[x.child]) \in Status
          <6>1. x \in edges /\ deps[x.child] # NoDep
            BY DEF Tallied, RequiredBy
          <6>. QED BY <6>1, DirectOf, EffectiveSafe
        <5>3. Rank[nodeStatus[n]] <= Rank[nodeStatus'[n]]
          BY <2>1, <2>4, <4>1, <5>1, StrongerIsStronger
        <5>. QED BY <2>4, <4>2, <5>1, <5>2, <5>3, Ranks
      <4>4. deps' = deps
        BY <1>1 DEF inputs
      <4>. QED BY <4>1, <4>2, <4>3, <4>4, MarksAssumption DEF eff
    <3>. QED BY <3>1, <3>2
  <2>8. StatusInv'
    BY <2>7 DEF StatusInv
  <2>. QED BY <1>1, <2>6, <2>8 DEF RootsInv, PhaseInv, inputs
<1>. QED BY <1>2, <1>3

\* The later steps, each of which decides one thing.
LEMMA DecidingStep ==
  ASSUME IInv, BuildNodes \/ CapNodes \/ RollUp
  PROVE  IInv'
<1>. USE DEF IInv
<1>1. UNCHANGED <<inputs, rootsLeft, nodeStatus>>
  BY DEF BuildNodes, CapNodes, RollUp
<1>2. RootsInv' /\ StatusInv'
  BY <1>1, SameNodes DEF RootsInv, StatusInv, inputs
<1>3. CASE BuildNodes
  <2>1. verdict' = Verdicts /\ rootsLeft = {} /\ pc = "edges" /\ pc' = "cap"
        /\ UNCHANGED <<inputs, rootsLeft, nodeStatus, kept, rollup>>
    BY <1>3 DEF BuildNodes, Verdicts
  <2>2. TypeOK'
    BY <2>1, VerdictTypes DEF TypeOK, inputs
  <2>3. PhaseInv'
    BY <2>1, SameNodes DEF PhaseInv
  <2>. QED BY <1>2, <2>2, <2>3
<1>4. CASE CapNodes
  <2>1. kept' = Survivors /\ pc = "cap" /\ pc' = "rollup"
        /\ UNCHANGED <<inputs, rootsLeft, nodeStatus, verdict, rollup>>
    BY <1>4 DEF CapNodes, Survivors, Earlier
  <2>2. Survivors \subseteq Node
    BY DEF Survivors, NodesOf
  <2>3. TypeOK'
    BY <2>1, <2>2 DEF TypeOK, inputs
  <2>4. PhaseInv'
    BY <2>1, SameNodes DEF PhaseInv
  <2>. QED BY <1>2, <2>3, <2>4
<1>5. CASE RollUp
  <2>1. /\ rollup' = [c \in Coord |-> IF deps[c] = NoDep \/ KeptOf(c) = {} THEN rollup[c]
                                      ELSE Strongest(StatusesOf(c))]
        /\ pc = "rollup" /\ pc' = "done"
        /\ UNCHANGED <<inputs, rootsLeft, nodeStatus, verdict, kept>>
    BY <1>5 DEF RollUp, StatusesOf
  <2>2. \A c \in Coord : StatusesOf(c)' = StatusesOf(c) /\ KeptOf(c)' = KeptOf(c)
    BY <2>1 DEF StatusesOf, KeptOf
  <2>3. ASSUME NEW c \in Coord, KeptOf(c) # {}
        PROVE  Strongest(StatusesOf(c)) \in Status
    <3>1. \A n \in KeptOf(c) : n \in Node /\ nodeStatus[n] # Unset /\ verdict[n] = Verdicts[n]
      BY <2>1 DEF PhaseInv, KeptOf, Survivors, NodesOf
    <3>2. \A n \in KeptOf(c) : verdict[n].status \in Status
      <4>1. ASSUME NEW n \in KeptOf(c) PROVE verdict[n].status \in Status
        <5>1. nodeStatus[n] \in Status /\ deps[n[1]] \in Direct \cup {NoDep} /\ n \in Node
          BY <3>1 DEF TypeOK, Node
        <5>2. verdict[n] = Safety(deps[n[1]], n)
          BY <3>1 DEF Verdicts
        <5>. QED BY <5>1, <5>2, SafetyHolds
      <4>. QED BY <4>1
    <3>3. StatusesOf(c) \subseteq Status /\ StatusesOf(c) # {}
      BY <2>3, <3>2 DEF StatusesOf
    <3>. QED BY <3>3, StrongestExists
  <2>4. /\ rollup' \in [Coord -> Status \cup {Unset}]
        /\ \A c \in Coord : rollup'[c] = Unset <=> deps[c] = NoDep
    BY <2>1, <2>3, MarksAssumption DEF TypeOK
  <2>5. TypeOK'
    BY <2>1, <2>4 DEF TypeOK, inputs
  <2>6. PhaseInv'
    BY <2>1, <2>2, SameNodes DEF PhaseInv, inputs
  <2>. QED BY <1>2, <2>5, <2>6
<1>. QED BY <1>3, <1>4, <1>5

LEMMA Stuttering ==
  ASSUME IInv, UNCHANGED vars
  PROVE  IInv'
<1>1. UNCHANGED <<inputs, rootsLeft, nodeStatus>> /\ UNCHANGED <<pc, verdict, kept, rollup>>
  BY DEF vars, inputs
<1>2. TypeOK' /\ RootsInv'
  BY <1>1 DEF IInv, TypeOK, RootsInv, inputs
<1>3. StatusInv'
  BY <1>1, SameNodes DEF IInv, StatusInv, inputs
<1>4. \A c \in Coord : StatusesOf(c)' = StatusesOf(c) /\ KeptOf(c)' = KeptOf(c)
  BY <1>1 DEF StatusesOf, KeptOf
<1>5. PhaseInv'
  BY <1>1, <1>4, SameNodes DEF IInv, PhaseInv, inputs
<1>. QED BY <1>2, <1>3, <1>5 DEF IInv

\* The classification keeps its inductive invariant, and with it its types.
THEOREM ClassifierInvariant == Spec => []IInv
<1>1. IInv /\ [Next]_vars => IInv'
  <2>. SUFFICES ASSUME IInv, [Next]_vars PROVE IInv'
    OBVIOUS
  <2>1. CASE Step
    BY <2>1, PropagateStep, DecidingStep DEF Step
  <2>2. CASE Returned \/ UNCHANGED vars
    BY <2>2, Stuttering DEF Returned
  <2>. QED BY <2>1, <2>2 DEF Next
<1>. QED BY Initially, <1>1, PTL DEF Spec
-----------------------------------------------------------------------------
\* The verdict of a node, once there are verdicts.
LEMMA VerdictIs ==
  ASSUME IInv, NEW n \in Node, verdict[n] # Unset
  PROVE  /\ nodeStatus[n] \in Status
         /\ deps[n[1]] \in Direct \cup {NoDep}
         /\ verdict[n] = Safety(deps[n[1]], n)
         /\ rootsLeft = {}
<1>1. pc # "edges"
  BY DEF IInv, PhaseInv
<1>2. rootsLeft = {} /\ verdict = Verdicts
  BY <1>1 DEF IInv, PhaseInv
<1>3. nodeStatus[n] # Unset /\ verdict[n] = Safety(deps[n[1]], n)
  BY <1>2 DEF Verdicts
<1>. QED BY <1>2, <1>3 DEF IInv, TypeOK, Node

\* A version that is advised away is one nobody who is used requires, that is
\* not the resolved one, and that no pin holds (classifier.py, the walk below
\* the root edges and apply_pin_override_safety).
THEOREM RemovableMeansUnused == Spec => []RemovableOnlyIfUnused
<1>1. IInv => RemovableOnlyIfUnused
  <2>. SUFFICES ASSUME IInv, NEW n \in Node, verdict[n] # Unset, verdict[n].removable
                PROVE  /\ RequiredBy(n) # {}
                       /\ \A e \in RequiredBy(n) : /\ deps[e.child].status = "SAFE"
                                                   /\ deps[e.child].registered
                       /\ ~ IsResolved(n)
                       /\ deps[n[1]] # NoDep => deps[n[1]].pin = "none"
    BY DEF RemovableOnlyIfUnused
  <2>1. /\ nodeStatus[n] = "SAFE"
        /\ ~ IsResolved(n)
        /\ deps[n[1]] # NoDep => deps[n[1]].pin = "none"
    BY VerdictIs, SafetyHolds
  <2>2. Tallied(n) = RequiredBy(n)
    BY VerdictIs DEF Tallied
  <2>3. RequiredBy(n) # {}
    BY <2>1, <2>2, VerdictIs, MarksAssumption DEF IInv, StatusInv
  <2>4. ASSUME NEW e \in RequiredBy(n)
        PROVE  deps[e.child].status = "SAFE" /\ deps[e.child].registered
    <3>1. deps[e.child] \in Direct
      BY DirectOf DEF RequiredBy, IInv
    <3>2. Rank[Effective(deps[e.child])] <= Rank["SAFE"]
      BY <2>1, <2>2 DEF IInv, StatusInv
    <3>3. Effective(deps[e.child]) \in Status /\ "SAFE" \in Status
      BY <3>1, EffectiveSafe DEF Status
    <3>4. Effective(deps[e.child]) = "SAFE"
      BY <3>2, <3>3, Ranks
    <3>. QED BY <3>1, <3>4, EffectiveSafe
  <2>. QED BY <2>1, <2>3, <2>4
<1>. QED BY <1>1, ClassifierInvariant, PTL

\* The cap of SEC-NEW-39 bounds, drops nothing needlessly, and keeps a
\* resolved node (classifier.py, the sort before the slice).
THEOREM TheCapKeepsTheResolved == Spec => []CapKeepsResolved
<1>1. IInv => CapKeepsResolved
  <2>. SUFFICES ASSUME IInv, pc \in {"rollup", "done"}, NEW c \in Coord
                PROVE  /\ Cardinality(KeptOf(c)) <= Cap
                       /\ Cardinality(NodesOf(c)) <= Cap => KeptOf(c) = NodesOf(c)
                       /\ (\E n \in NodesOf(c) : IsResolved(n)) =>
                            \E n \in KeptOf(c) : IsResolved(n)
    BY DEF CapKeepsResolved
  <2>1. kept = Survivors
    BY DEF IInv, PhaseInv
  <2>. QED BY <2>1, CapBounds, CapDropsNothingNeedlessly, CapKeepsOne
<1>. QED BY <1>1, ClassifierInvariant, PTL

\* What is rolled up when the classification is done.
LEMMA RolledUp ==
  ASSUME IInv, pc = "done", NEW c \in Coord, deps[c] # NoDep, NodesOf(c) # {}
  PROVE  /\ deps[c] \in Direct
         /\ kept = Survivors
         /\ KeptOf(c) # {} /\ KeptOf(c) \subseteq NodesOf(c)
         /\ \A n \in KeptOf(c) : /\ n \in Node
                                 /\ nodeStatus[n] \in Status
                                 /\ verdict[n] = Safety(deps[c], n)
         /\ rollup[c] \in StatusesOf(c)
         /\ \A s \in StatusesOf(c) : Rank[s] <= Rank[rollup[c]]
<1>1. kept = Survivors /\ verdict = Verdicts
  BY DEF IInv, PhaseInv
<1>2. KeptOf(c) # {} /\ KeptOf(c) \subseteq NodesOf(c)
  BY <1>1, CapKeepsOne, KeptAre
<1>3. deps[c] \in Direct
  BY DEF IInv, TypeOK
<1>4. \A n \in KeptOf(c) : /\ n \in Node
                           /\ nodeStatus[n] \in Status
                           /\ verdict[n] = Safety(deps[c], n)
  BY <1>1, <1>2 DEF NodesOf, Verdicts, IInv, TypeOK
<1>5. StatusesOf(c) \subseteq Status /\ StatusesOf(c) # {}
  BY <1>2, <1>3, <1>4, SafetyHolds DEF StatusesOf
<1>6. rollup[c] = Strongest(StatusesOf(c))
  BY <1>2 DEF IInv, PhaseInv
<1>. QED BY <1>1, <1>2, <1>3, <1>4, <1>5, <1>6, StrongestExists

\* A pinned dependency that some edge declares never comes back SAFE (SUC-42).
THEOREM PinsAreKept == Spec => []PinnedNeverSafe
<1>1. IInv => PinnedNeverSafe
  <2>. SUFFICES ASSUME IInv, pc = "done", NEW c \in Coord,
                       deps[c] # NoDep, deps[c].pin # "none", NodesOf(c) # {}
                PROVE  rollup[c] = IF deps[c].pin = "dynamic" THEN "UNCERTAIN" ELSE "IN_USE"
    BY DEF PinnedNeverSafe
  <2>1. \A n \in KeptOf(c) :
          verdict[n].status = IF deps[c].pin = "dynamic" THEN "UNCERTAIN" ELSE "IN_USE"
    BY RolledUp, SafetyHolds
  <2>. QED BY <2>1, RolledUp DEF StatusesOf
<1>. QED BY <1>1, ClassifierInvariant, PTL

\* Within the cap, an ecosystem without a pin detector fails closed (ADR-012).
THEOREM UnregisteredFailsClosed == Spec => []FailsClosed
<1>1. IInv => FailsClosed
  <2>. SUFFICES ASSUME IInv, pc = "done", NEW e \in edges, e.parent = Root,
                       deps[e.child] # NoDep, ~ deps[e.child].registered,
                       Cardinality(NodesOf(e.child)) <= Cap
                PROVE  rollup[e.child] # "SAFE"
    BY DEF FailsClosed
  <2>. DEFINE c == e.child
              n == <<e.child, e.version>>
  <2>1. c \in Coord /\ n \in Node /\ n[1] = c /\ deps[c] \in Direct
    BY DirectOf DEF IInv, TypeOK, Edge, Node
  <2>2. e \in Tallied(n)
    BY <2>1 DEF IInv, PhaseInv, Tallied, RequiredBy, WalkedNodes
  <2>3. nodeStatus[n] # Unset /\ Rank[Effective(deps[c])] <= Rank[nodeStatus[n]]
    BY <2>1, <2>2 DEF IInv, StatusInv
  <2>4. n \in NodesOf(c)
    BY <2>1, <2>3 DEF NodesOf
  <2>. HIDE DEF c, n
  <2>5. nodeStatus[n] \in Status
    BY <2>1, <2>3 DEF IInv, TypeOK
  <2>6. Effective(deps[c]) \in Status /\ Effective(deps[c]) # "SAFE"
    BY <2>1, EffectiveSafe DEF c
  <2>7. nodeStatus[n] # "SAFE"
    BY <2>3, <2>5, <2>6, Ranks
  <2>8. n \in KeptOf(c)
    BY <2>1, <2>4, RolledUp, CapDropsNothingNeedlessly DEF c
  <2>9. verdict[n].status \in StatusesOf(c) /\ verdict[n].status # "SAFE"
        /\ verdict[n].status \in Status
    BY <2>1, <2>4, <2>5, <2>7, <2>8, RolledUp, SafetyHolds DEF c, StatusesOf
  <2>10. rollup[c] # "SAFE"
    <3>1. Rank[verdict[n].status] <= Rank[rollup[c]] /\ rollup[c] \in Status \cup {Unset}
      BY <2>1, <2>4, <2>9, RolledUp DEF c, IInv, TypeOK
    <3>2. "SAFE" \in Status
      BY DEF Status
    <3>3. Rank["SAFE"] = 0 /\ Rank[verdict[n].status] \in Nat \ {0}
      BY <2>9, <3>2, Ranks
    <3>. QED BY <3>1, <3>3
  <2>. QED BY <2>10 DEF c
<1>. QED BY <1>1, ClassifierInvariant, PTL
-----------------------------------------------------------------------------
\* Before the report there is none, afterwards it is what cli.py makes of the
\* statuses that the source analyser left.
ReportOf ==
  [c \in Coord |->
     CASE deps[c] = NoDep -> Unset
       [] deps[c] # NoDep /\ deps[c].status = "SAFE" /\ LiftedFrom(c) # {} -> "IN_USE"
       [] OTHER -> deps[c].status]

ReportInv ==
  report = [c \in Coord |-> Unset] \/ (pc = "done" /\ report = ReportOf)

LEMMA SameReport ==
  ASSUME UNCHANGED inputs
  PROVE  ReportOf' = ReportOf
BY DEF inputs, ReportOf, LiftedFrom, Visited, Children

LEMMA ReportStep == IInv /\ ReportInv /\ [JNext]_jvars => (IInv /\ ReportInv)'
<1>. SUFFICES ASSUME IInv, ReportInv, [JNext]_jvars PROVE IInv' /\ ReportInv'
  OBVIOUS
<1>1. CASE Classify
  <2>1. pc # "done"
    BY <1>1 DEF Classify, Step, PropagateRoot, BuildNodes, CapNodes, RollUp
  <2>2. ReportInv'
    BY <1>1, <2>1 DEF Classify, ReportInv
  <2>. QED BY <1>1, <2>2, PropagateStep, DecidingStep DEF Classify, Step
<1>2. CASE Assemble
  <2>1. UNCHANGED vars /\ report' = ReportOf /\ pc = "done"
    BY <1>2 DEF Assemble, ReportOf
  <2>2. UNCHANGED inputs /\ pc' = "done"
    BY <2>1 DEF vars, inputs
  <2>. QED BY <2>1, <2>2, Stuttering, SameReport DEF ReportInv
<1>3. CASE UNCHANGED jvars
  <2>1. UNCHANGED vars /\ report' = report
    BY <1>3 DEF jvars
  <2>2. UNCHANGED inputs /\ pc' = pc
    BY <2>1 DEF vars, inputs
  <2>. QED BY <2>1, <2>2, Stuttering, SameReport DEF ReportInv
<1>. QED BY <1>1, <1>2, <1>3 DEF JNext

\* What a walk from c visits is closed under the children, and is Coord's.
LEMMA VisitedIsClosed ==
  ASSUME NEW c \in Coord, NEW n \in Visited(c), NEW m \in Children(n), edges \subseteq Edge
  PROVE  m \in Visited(c)
BY DEF Visited, Children, Edge

\* A name that a walk visits after its start is the child of one it visits.
LEMMA VisitedByAnEdge ==
  ASSUME NEW c \in Coord, NEW n \in Visited(c), n # c, edges \subseteq Edge
  PROVE  \E e \in edges : e.child = n /\ e.parent \in Visited(c)
<1>. DEFINE S == {m \in Visited(c) : m = c \/ \E e \in edges : e.child = m /\ e.parent \in Visited(c)}
<1>1. c \in Visited(c)
  BY DEF Visited
<1>2. S \in SUBSET Coord /\ c \in S
  BY <1>1 DEF Visited
<1>3. \A m \in S : Children(m) \subseteq S
  BY VisitedIsClosed DEF Children
<1>. HIDE DEF S
<1>4. n \in S
  BY <1>2, <1>3 DEF Visited
<1>. QED BY <1>4 DEF S

\* A dependency that the sweep over names lifts, because a directly required
\* IN_USE one reaches it, keeps a version that is not marked removable
\* (core/classifier.py and the sweep of cli.py agree), for every graph.
THEOREM LiftAndClassifierAgree == JSpec => []LiftedKeepsAVersion
<1>1. JInit => IInv /\ ReportInv
  BY Initially DEF JInit, ReportInv
<1>2. IInv /\ ReportInv => LiftedKeepsAVersion
  <2>. SUFFICES ASSUME IInv, ReportInv, Reported, NEW c \in Coord,
                       report[c] = "IN_USE", deps[c].status = "SAFE",
                       NEW d \in LiftedFrom(c), NEW r \in edges, r.parent = Root, r.child = d,
                       Cardinality(NodesOf(c)) <= Cap
                PROVE  \E n \in KeptOf(c) : ~ verdict[n].removable
    BY DEF LiftedKeepsAVersion
  <2>1. pc = "done" /\ report = ReportOf
    BY DEF ReportInv, Reported
  <2>2. deps[c] # NoDep
    BY <2>1, MarksAssumption DEF ReportOf, Status
  <2>3. d \in Coord /\ deps[d] # NoDep /\ deps[d].status = "IN_USE" /\ c \in Visited(d)
    BY DEF LiftedFrom
  <2>4. edges \subseteq Edge /\ d # c
    BY <2>3 DEF IInv, TypeOK
  <2>5. PICK x \in edges : x.child = c /\ x.parent \in Visited(d)
    BY <2>3, <2>4, VisitedByAnEdge
  <2>. DEFINE n == <<c, x.version>>
  <2>6. n \in Node /\ n[1] = c
    BY <2>4 DEF Edge, Node
  <2>7. n \in WalkedNodes(r)
    BY <2>5 DEF WalkedNodes
  <2>8. r \in Tallied(n)
    BY <2>1, <2>3, <2>7 DEF IInv, PhaseInv, Tallied, RequiredBy
  <2>. HIDE DEF n
  <2>9. nodeStatus[n] # Unset /\ Rank[Effective(deps[d])] <= Rank[nodeStatus[n]]
    BY <2>6, <2>8 DEF IInv, StatusInv
  <2>10. n \in NodesOf(c)
    BY <2>6, <2>9 DEF NodesOf
  <2>11. n \in KeptOf(c) /\ verdict[n] = Safety(deps[c], n)
    <3>1. kept = Survivors /\ verdict = Verdicts
      BY <2>1 DEF IInv, PhaseInv
    <3>. QED BY <2>6, <2>9, <2>10, <3>1, CapDropsNothingNeedlessly DEF Verdicts
  <2>12. nodeStatus[n] \in Status /\ nodeStatus[n] # "SAFE"
    <3>1. nodeStatus[n] \in Status
      BY <2>6, <2>9 DEF IInv, TypeOK
    <3>2. Effective(deps[d]) = "IN_USE"
      BY <2>3 DEF Effective
    <3>3. Rank["IN_USE"] = 3 /\ Rank["SAFE"] = 0
      BY DEF Rank, Status
    <3>. QED BY <2>9, <3>1, <3>2, <3>3
  <2>13. ~ verdict[n].removable
    <3>1. deps[c] \in Direct \cup {NoDep}
      BY DEF IInv, TypeOK
    <3>. QED BY <2>6, <2>11, <2>12, <3>1, SafetyHolds
  <2>. QED BY <2>11, <2>13
<1>. QED BY <1>1, <1>2, ReportStep, PTL DEF JSpec
=============================================================================
