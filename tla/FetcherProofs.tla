---------------------------- MODULE FetcherProofs ----------------------------
(***************************************************************************)
(* The fetcher of Fetcher, proved for any number of threads, indexes,      *)
(* artefacts and calls: who is asked, what is counted against the cap,     *)
(* what may be stored, and that no fetch goes round in a loop.             *)
(***************************************************************************)
EXTENDS Fetcher, FiniteSetTheorems, SequenceTheorems, TLAPS

Sent(i, ans) == [index |-> i, answer |-> ans]

\* What StoredIsUncontradicted says, of a dialog d and a body b, when ck tells
\* whether the cross-check is on.
HeardIn(d, i) == {d[j].answer : j \in {k \in 1..Len(d) : d[k].index = i}}

Uncontradicted(ck, d, b) ==
  ck => /\ d[Len(d)].answer \notin Bytes \ {b}
        /\ HeardIn(d, 1) \cap Bytes # {} => b \in HeardIn(d, 1)
        /\ \A x \in HeardIn(d, 2) \cap (Bytes \ {b}) : b \in HeardIn(d, 2)

\* What NoProbeAfterVerdict says, of a dialog d with n indexes.
InOrder(n, ck, d) ==
  \A i \in 1..Len(d) :
    /\ d[i].index <= n
    /\ \A k \in 1..d[i].index - 1 :
         \E j \in 1..i - 1 :
           /\ d[j].index = k
           /\ d[j].answer = FallThrough \/ (ck /\ k = 1 /\ d[j].answer \in Bytes)

\* The stage l of a fetch fixes what it has asked and heard so far (d and g)
\* and whether it has a body b to store.
Shape(n, ck, l, d, g, b) ==
  /\ Len(d) <= MaxIndexes + 1 /\ Len(g) <= Len(Algos)
  /\ InOrder(n, ck, d)
  /\ l \in {"lookup", "disclose", "cap", "budget", "primary"} => d = <<>>
  /\ l \in {"primary", "secondary", "retry"} => ck
  /\ l = "ask" => /\ Len(d) < IF ck THEN 2 ELSE n
                  /\ \A j \in 1..Len(d) : d[j] = Sent(j, FallThrough)
  /\ l \in {"secondary", "retry", "checksum", "store", "evict"} => b \in Bytes
  /\ l = "secondary" => Len(d) = 1 /\ d[1] = Sent(1, b)
  /\ l = "retry" => Len(d) = 2 /\ d[1] = Sent(1, b) /\ d[2].index = 2
  /\ l \in {"checksum", "store", "evict"} => Uncontradicted(ck, d, b)
  /\ l \notin {"idle", "checksum", "store", "evict"} => g = <<>>
  /\ l = "checksum" => Len(g) < Len(Algos)

ShapeInv ==
  \A w \in Worker : Shape(indexes, Checked, pc[w], dialog[w], digests[w], body[w])

\* Whoever precedes index i has been asked in the dialog d, and i may be next.
Answered(ck, d, i) ==
  \A k \in 1..i - 1 : \E j \in 1..Len(d) :
    /\ d[j].index = k
    /\ d[j].answer = FallThrough \/ (ck /\ k = 1 /\ d[j].answer \in Bytes)

\* A step of thread w that leaves it in such a state.
Becomes(w, l, d, g, b) ==
  /\ UNCHANGED config
  /\ pc' = [pc EXCEPT ![w] = l] /\ dialog' = [dialog EXCEPT ![w] = d]
  /\ digests' = [digests EXCEPT ![w] = g] /\ body' = [body EXCEPT ![w] = b]

\* The requests that a fetch may still make are fewer than one stage counts.
RequestsBounded ==
  \A w \in Worker : /\ RequestsLeft(w) \in Nat
                    /\ RequestsLeft(w) < MaxIndexes + 1 + Len(Algos) + 1

\* A thread that was let through and has not looked at the clock yet is
\* counted but not online.
AtBudget == {w \in Worker : pc[w] = "budget"}
CapInv == online + Cardinality(AtBudget) <= consumed /\ consumed <= MaxFetches

\* A thread is past the disclosure only when the flag is set.
DisclosedInv ==
  /\ disclosed => disclosures > 0
  /\ \A w \in Worker :
       pc[w] \notin {"idle", "lookup", "disclose"} \/ dialog[w] # <<>> => disclosed
----------------------------------------------------------------------------
\* Every action of the fetcher keeps the types of its variables.
LEMMA TypesStep == ASSUME TypeOK, [Next]_vars PROVE TypeOK'
<1>. USE DEF TypeOK
<1>0. ASSUME UNCHANGED files PROVE FileTypes'
  BY <1>0 DEF FileTypes, files
<1>a. ASSUME UNCHANGED disclosure, UNCHANGED counters PROVE CounterTypes'
  BY <1>a DEF CounterTypes, disclosure, counters
<1>b. ASSUME UNCHANGED pc, UNCHANGED local PROVE ThreadTypes'
  BY <1>b DEF ThreadTypes, local
<1>c. ASSUME UNCHANGED config PROVE (indexes \in 1..MaxIndexes /\ crossCheck \in BOOLEAN)'
  BY <1>c DEF config
<1>d. ASSUME NEW w \in Worker, NEW l \in PCs, GoTo(w, l), UNCHANGED local PROVE ThreadTypes'
  BY <1>d DEF ThreadTypes, local, GoTo
<1>e. ASSUME NEW w \in Worker, NEW l \in PCs, NEW i \in Nat, NEW ans \in Answer,
             GoTo(w, l), Hear(w, i, ans), UNCHANGED <<art, calls, digests>>,
             UNCHANGED body \/ (ans \in Bytes /\ Keep(w, ans))
      PROVE ThreadTypes'
  <2>1. dialog' \in [Worker -> Seq(Requests)]
    <3>. DEFINE r == [index |-> i, answer |-> ans]
    <3>1. dialog \in [Worker -> Seq(Requests)] /\ r \in Requests
      BY DEF ThreadTypes, Requests
    <3>2. dialog' = [dialog EXCEPT ![w] = Append(dialog[w], r)]
      BY <1>e DEF Hear
    <3>. QED BY <3>1, <3>2
  <2>2. body' \in [Worker -> Bytes \cup {Absent}]
    BY <1>e DEF ThreadTypes, Keep
  <2>. QED BY <2>1, <2>2, <1>e DEF ThreadTypes, GoTo
<1>1. ASSUME NEW w \in Worker, NEW a \in Art, Call(w, a) PROVE TypeOK'
  <2>1. ThreadTypes'
    <3>1. /\ calls[w] + 1 \in 0..Calls
          /\ calls' = [calls EXCEPT ![w] = calls[w] + 1]
      BY <1>1, NumbersAssumption DEF Call, ThreadTypes
    <3>2. calls' \in [Worker -> 0..Calls]
      BY <3>1 DEF ThreadTypes
    <3>3. /\ dialog' \in [Worker -> Seq(Requests)]
          /\ digests' \in [Worker -> Seq(Digests)]
      BY <1>1 DEF Call, ThreadTypes
    <3>4. /\ pc' \in [Worker -> PCs] /\ art' \in [Worker -> Art]
          /\ body' \in [Worker -> Bytes \cup {Absent}]
      BY <1>1 DEF Call, ThreadTypes, GoTo, Keep, PCs
    <3>. QED BY <3>2, <3>3, <3>4 DEF ThreadTypes
  <2>. QED BY <1>1, <2>1, <1>0, <1>a, <1>c DEF Call
<1>2. ASSUME NEW w \in Worker, Hit(w) \/ Miss(w) PROVE TypeOK'
  <2>1. \E l \in PCs : GoTo(w, l)
    BY <1>2 DEF Hit, Miss, Return, PCs
  <2>. QED BY <1>2, <2>1, <1>0, <1>a, <1>c, <1>d DEF Hit, Miss
<1>4. ASSUME NEW w \in Worker, Disclose(w) PROVE TypeOK'
  <2>1. CounterTypes'
    BY <1>4 DEF Disclose, CounterTypes, counters
  <2>2. GoTo(w, "cap") /\ "cap" \in PCs
    BY <1>4 DEF Disclose, PCs
  <2>. QED BY <1>4, <2>1, <2>2, <1>0, <1>c, <1>d DEF Disclose
<1>5. ASSUME NEW w \in Worker, TryConsumeCap(w) \/ TimeBudget(w) PROVE TypeOK'
  <2>1. CounterTypes'
    BY <1>5 DEF TryConsumeCap, TimeBudget, CounterTypes, disclosure
  <2>2. \E l \in PCs : GoTo(w, l)
    BY <1>5 DEF TryConsumeCap, TimeBudget, Return, PCs
  <2>. QED BY <1>5, <2>1, <2>2, <1>0, <1>c, <1>d DEF TryConsumeCap, TimeBudget
<1>7. ASSUME NEW w \in Worker, NEW ans \in Answer, TryEndpoint(w, ans) \/ AskPrimary(w, ans)
      PROVE TypeOK'
  <2>0. NextIndex(w) \in Nat
    BY DEF NextIndex, ThreadTypes
  <2>1. PICK l \in PCs : GoTo(w, l)
    BY <1>7 DEF TryEndpoint, AskPrimary, Return, PCs
  <2>2. PICK i \in Nat : Hear(w, i, ans)
    BY <1>7, <2>0 DEF TryEndpoint, AskPrimary
  <2>3. UNCHANGED body \/ (ans \in Bytes /\ Keep(w, ans))
    BY <1>7 DEF TryEndpoint, AskPrimary
  <2>. QED BY <1>7, <2>1, <2>2, <2>3, <1>0, <1>a, <1>c, <1>e DEF TryEndpoint, AskPrimary
<1>9. ASSUME NEW w \in Worker, NEW ans \in Answer, AskSecondary(w, ans) \/ RetrySecondary(w, ans)
      PROVE TypeOK'
  <2>1. PICK l \in PCs : GoTo(w, l)
    BY <1>9 DEF AskSecondary, RetrySecondary, Return, PCs
  <2>. QED BY <1>9, <2>1, <1>0, <1>a, <1>c, <1>e DEF AskSecondary, RetrySecondary
<1>11. ASSUME NEW w \in Worker, NEW d \in Digests, VerifyChecksum(w, d)
       PROVE TypeOK'
  <2>1. digests' \in [Worker -> Seq(Digests)]
    BY <1>11 DEF VerifyChecksum, ThreadTypes
  <2>2. pc' \in [Worker -> PCs]
    <3>1. PICK l \in PCs : GoTo(w, l)
      BY <1>11 DEF VerifyChecksum, Return, PCs
    <3>. QED BY <3>1 DEF GoTo, ThreadTypes
  <2>3. ThreadTypes'
    BY <1>11, <2>1, <2>2 DEF VerifyChecksum, ThreadTypes
  <2>. QED BY <1>11, <2>3, <1>0, <1>a, <1>c DEF VerifyChecksum
<1>12. ASSUME NEW w \in Worker, Store(w) PROVE TypeOK'
  <2>1. FileTypes'
    BY <1>12 DEF Store, FileTypes, ThreadTypes
  <2>2. GoTo(w, "evict") /\ "evict" \in PCs
    BY <1>12 DEF Store, PCs
  <2>. QED BY <1>12, <2>1, <2>2, <1>a, <1>c, <1>d DEF Store
<1>13. ASSUME NEW w \in Worker, StoreFails(w) PROVE TypeOK'
  <2>1. GoTo(w, "idle") /\ "idle" \in PCs
    BY <1>13 DEF StoreFails, Return, PCs
  <2>. QED BY <1>13, <2>1, <1>0, <1>a, <1>c, <1>d DEF StoreFails
<1>14. ASSUME NEW w \in Worker, NEW left \in SUBSET Art, EnforceCacheCap(w, left) PROVE TypeOK'
  <2>1. FileTypes'
    BY <1>14 DEF EnforceCacheCap, FileTypes
  <2>2. GoTo(w, "idle") /\ "idle" \in PCs
    BY <1>14 DEF EnforceCacheCap, Return, PCs
  <2>. QED BY <1>14, <2>1, <2>2, <1>a, <1>c, <1>d DEF EnforceCacheCap, local
<1>15. ASSUME TimeRunsOut PROVE TypeOK'
  <2>1. CounterTypes'
    BY <1>15 DEF TimeRunsOut, CounterTypes, disclosure
  <2>. QED BY <1>15, <2>1, <1>0, <1>b, <1>c DEF TimeRunsOut
<1>16. ASSUME UNCHANGED vars PROVE TypeOK'
  BY <1>16, <1>0, <1>a, <1>b, <1>c DEF vars
<1>. QED BY <1>1, <1>2, <1>4, <1>5, <1>7, <1>9, <1>11, <1>12, <1>13, <1>14, <1>15, <1>16
     DEF Next, WorkerStep, Finished

\* The variables of the fetcher keep their types in every behaviour
\* (fetcher.py:243, the fields of RemoteArtifactFetcher).
THEOREM TypeCorrect == Spec => []TypeOK
<1>1. Init => TypeOK
  <2>. SUFFICES ASSUME Init PROVE TypeOK
    OBVIOUS
  <2>1. FileTypes
    BY DEF Init, FileTypes
  <2>2. CounterTypes
    BY DEF Init, CounterTypes
  <2>3. calls \in [Worker -> 0..Calls]
    BY NumbersAssumption DEF Init
  <2>4. /\ dialog \in [Worker -> Seq(Requests)]
        /\ digests \in [Worker -> Seq(Digests)]
    BY DEF Init
  <2>. QED BY <2>1, <2>2, <2>3, <2>4 DEF Init, TypeOK, ThreadTypes, PCs
<1>2. TypeOK /\ [Next]_vars => TypeOK'
  BY TypesStep
<1>. QED BY <1>1, <1>2, PTL DEF Spec
----------------------------------------------------------------------------
\* A step from and to other stages leaves alone who is about to look at the
\* clock.
LEMMA SameBudget ==
  ASSUME TypeOK, NEW w \in Worker, NEW l \in PCs \ {"budget"}, pc[w] # "budget", GoTo(w, l)
  PROVE  AtBudget' = AtBudget
BY DEF TypeOK, ThreadTypes, AtBudget, GoTo

\* Every action keeps what is counted against the cap above what is online.
LEMMA CapStep == ASSUME TypeOK, CapInv, [Next]_vars PROVE CapInv'
<1>. USE DEF CapInv
<1>0. /\ consumed \in Nat /\ online \in Nat /\ IsFiniteSet(AtBudget)
      /\ Cardinality(AtBudget) \in Nat
  BY WorkerAssumption, FS_Subset, FS_CardinalityType DEF TypeOK, CounterTypes, AtBudget
<1>1. ASSUME AtBudget' = AtBudget, UNCHANGED <<consumed, online>> PROVE CapInv'
  BY <1>1
<1>2. ASSUME NEW w \in Worker, NEW a \in Art, Call(w, a) PROVE CapInv'
  BY <1>1, <1>2, SameBudget DEF Call, counters, PCs
<1>3. ASSUME NEW w \in Worker, TryConsumeCap(w) PROVE CapInv'
  <2>1. CASE consumed < MaxFetches
    <3>1. w \notin AtBudget /\ AtBudget' = AtBudget \cup {w}
      BY <1>3, <2>1 DEF TryConsumeCap, AtBudget, GoTo, TypeOK, ThreadTypes
    <3>2. Cardinality(AtBudget') = Cardinality(AtBudget) + 1
      BY <1>0, <3>1, FS_AddElement
    <3>. QED BY <1>0, <1>3, <2>1, <3>2, NumbersAssumption DEF TryConsumeCap
  <2>2. CASE ~ (consumed < MaxFetches)
    BY <1>1, <1>3, <2>2, SameBudget DEF TryConsumeCap, Return, PCs
  <2>. QED BY <2>1, <2>2
<1>4. ASSUME NEW w \in Worker, TimeBudget(w) PROVE CapInv'
  <2>1. w \in AtBudget /\ AtBudget' = AtBudget \ {w}
    BY <1>4 DEF TimeBudget, AtBudget, GoTo, Return, TypeOK, ThreadTypes
  <2>2. Cardinality(AtBudget') = Cardinality(AtBudget) - 1
    BY <1>0, <2>1, FS_RemoveElement
  <2>3. consumed' = consumed /\ (online' = online \/ online' = online + 1)
    BY <1>4 DEF TimeBudget
  <2>. QED BY <1>0, <2>2, <2>3
<1>5. ASSUME NEW w \in Worker, Hit(w) \/ Miss(w) \/ Disclose(w) \/ Store(w) \/ StoreFails(w)
      PROVE CapInv'
  BY <1>1, <1>5, SameBudget
     DEF Hit, Miss, Disclose, Store, StoreFails, Return, counters, PCs
<1>6. ASSUME NEW w \in Worker, NEW ans \in Answer,
             \/ TryEndpoint(w, ans) \/ AskPrimary(w, ans)
             \/ AskSecondary(w, ans) \/ RetrySecondary(w, ans)
      PROVE CapInv'
  BY <1>1, <1>6, SameBudget
     DEF TryEndpoint, AskPrimary, AskSecondary, RetrySecondary, Return, counters, PCs
<1>7. ASSUME NEW w \in Worker, NEW d \in Digests, VerifyChecksum(w, d) PROVE CapInv'
  BY <1>1, <1>7, SameBudget DEF VerifyChecksum, Return, counters, PCs
<1>8. ASSUME NEW w \in Worker, NEW left \in SUBSET Art, EnforceCacheCap(w, left) PROVE CapInv'
  BY <1>1, <1>8, SameBudget DEF EnforceCacheCap, Return, counters, PCs
<1>9. ASSUME TimeRunsOut \/ UNCHANGED vars PROVE CapInv'
  BY <1>1, <1>9 DEF TimeRunsOut, vars, counters, AtBudget
<1>. QED BY <1>2, <1>3, <1>4, <1>5, <1>6, <1>7, <1>8, <1>9 DEF Next, WorkerStep, Finished

\* SEC-NEW-69 for any number of threads: no more fetches reach the network
\* than the cap allows, since _try_consume_cap tests and counts in one step
\* under the lock.
THEOREM NetworkCapHolds == Spec => []CapHolds
<1>1. Init => CapInv
  <2>. SUFFICES ASSUME Init PROVE CapInv
    OBVIOUS
  <2>1. AtBudget = {}
    BY DEF Init, AtBudget
  <2>. QED BY <2>1, FS_EmptySet, NumbersAssumption DEF Init, CapInv
<1>2. TypeOK /\ CapInv /\ [Next]_vars => CapInv'
  BY CapStep
<1>3. TypeOK /\ CapInv => CapHolds
  <2>. SUFFICES ASSUME TypeOK, CapInv PROVE CapHolds
    OBVIOUS
  <2>1. IsFiniteSet(AtBudget) /\ Cardinality(AtBudget) \in Nat
    BY WorkerAssumption, FS_Subset, FS_CardinalityType DEF AtBudget
  <2>. QED BY <2>1 DEF CapInv, CapHolds, TypeOK, CounterTypes
<1>. QED BY <1>1, <1>2, <1>3, TypeCorrect, PTL DEF Spec

\* Every action keeps the stages past the disclosure disclosed.
LEMMA DisclosedStep == ASSUME TypeOK, DisclosedInv, [Next]_vars PROVE DisclosedInv'
<1>. USE DEF DisclosedInv, TypeOK, CounterTypes, ThreadTypes
<1>1. ASSUME NEW w \in Worker, NEW a \in Art, Call(w, a) PROVE DisclosedInv'
  BY <1>1 DEF Call, GoTo, Keep, disclosure
<1>2. ASSUME NEW w \in Worker, Hit(w) PROVE DisclosedInv'
  BY <1>2 DEF Hit, Return, GoTo, disclosure, local
<1>3. ASSUME NEW w \in Worker, Miss(w) PROVE DisclosedInv'
  BY <1>3 DEF Miss, GoTo, disclosure, local
<1>4. ASSUME NEW w \in Worker, Disclose(w) PROVE DisclosedInv'
  BY <1>4 DEF Disclose, GoTo
\* A step of a thread that is past the disclosure already.
<1>5. ASSUME NEW w \in Worker, pc[w] \notin {"idle", "lookup", "disclose"},
             UNCHANGED disclosure
      PROVE DisclosedInv'
  BY <1>5 DEF disclosure
<1>6. ASSUME NEW w \in Worker, TryConsumeCap(w) \/ TimeBudget(w) \/ Store(w) \/ StoreFails(w)
      PROVE DisclosedInv'
  BY <1>5, <1>6 DEF TryConsumeCap, TimeBudget, Store, StoreFails
<1>7. ASSUME NEW w \in Worker, NEW ans \in Answer,
             \/ TryEndpoint(w, ans) \/ AskPrimary(w, ans)
             \/ AskSecondary(w, ans) \/ RetrySecondary(w, ans)
      PROVE DisclosedInv'
  BY <1>5, <1>7 DEF TryEndpoint, AskPrimary, AskSecondary, RetrySecondary
<1>8. ASSUME NEW w \in Worker, NEW d \in Digests, VerifyChecksum(w, d) PROVE DisclosedInv'
  BY <1>5, <1>8 DEF VerifyChecksum
<1>9. ASSUME NEW w \in Worker, NEW left \in SUBSET Art, EnforceCacheCap(w, left) PROVE DisclosedInv'
  BY <1>5, <1>9 DEF EnforceCacheCap
<1>10. ASSUME TimeRunsOut \/ UNCHANGED vars PROVE DisclosedInv'
  BY <1>10 DEF TimeRunsOut, vars, disclosure, local
<1>. QED BY <1>1, <1>2, <1>3, <1>4, <1>6, <1>7, <1>8, <1>9, <1>10 DEF Next, WorkerStep, Finished

\* FR-263: no index is asked before the disclosure was written, although two
\* threads may race to write it.
THEOREM DisclosureComesFirst == Spec => []DisclosedBeforeContact
<1>1. Init => DisclosedInv
  BY DEF Init, DisclosedInv
<1>2. TypeOK /\ DisclosedInv /\ [Next]_vars => DisclosedInv'
  BY DisclosedStep
<1>3. DisclosedInv => DisclosedBeforeContact
  BY DEF DisclosedInv, DisclosedBeforeContact
<1>. QED BY <1>1, <1>2, <1>3, TypeCorrect, PTL DEF Spec
----------------------------------------------------------------------------
\* A step of one thread keeps the shape of all of them when its own new state
\* has one.
LEMMA OneThread ==
  ASSUME TypeOK, ShapeInv, NEW w \in Worker, NEW l, NEW d, NEW g, NEW b,
         Becomes(w, l, d, g, b), Shape(indexes, Checked, l, d, g, b)
  PROVE  ShapeInv'
<1>1. indexes' = indexes /\ crossCheck' = crossCheck
  BY DEF config, Becomes
<1>. SUFFICES ASSUME NEW v \in Worker
              PROVE  Shape(indexes, Checked, pc[v], dialog[v], digests[v], body[v])'
  BY DEF ShapeInv
<1>2. CASE v = w
  <2>1. pc'[v] = l /\ dialog'[v] = d /\ digests'[v] = g /\ body'[v] = b
    BY <1>2 DEF TypeOK, ThreadTypes, Becomes
  <2>. QED BY <1>1, <2>1 DEF Checked
<1>3. CASE v # w
  <2>1. /\ pc'[v] = pc[v] /\ dialog'[v] = dialog[v]
        /\ digests'[v] = digests[v] /\ body'[v] = body[v]
    BY <1>3 DEF TypeOK, ThreadTypes, Becomes
  <2>2. Shape(indexes, Checked, pc[v], dialog[v], digests[v], body[v])
    BY DEF ShapeInv
  <2>. QED BY <1>1, <2>1, <2>2 DEF Checked
<1>. QED BY <1>2, <1>3

\* A step that changes the stage only, or the stage and the dialog.
LEMMA SameDialog ==
  ASSUME TypeOK, UNCHANGED config, NEW w \in Worker, NEW l, GoTo(w, l),
         UNCHANGED <<dialog, digests, body>>
  PROVE  Becomes(w, l, dialog[w], digests[w], body[w])
BY DEF TypeOK, ThreadTypes, Becomes, GoTo

\* What a step does that asks an index.
LEMMA SameDigests ==
  ASSUME TypeOK, UNCHANGED config, NEW w \in Worker, NEW l, NEW i \in Nat, NEW ans, GoTo(w, l),
         Hear(w, i, ans), UNCHANGED digests
  PROVE  LET e == Append(dialog[w], Sent(i, ans)) IN
         /\ UNCHANGED body => Becomes(w, l, e, digests[w], body[w])
         /\ Keep(w, ans) => Becomes(w, l, e, digests[w], ans)
<1>. DEFINE e == Append(dialog[w], Sent(i, ans))
<1>1. dialog' = [dialog EXCEPT ![w] = e] /\ digests' = [digests EXCEPT ![w] = digests[w]]
  BY DEF Hear, Sent, TypeOK, ThreadTypes
<1>. HIDE DEF e
<1>2. ASSUME UNCHANGED body PROVE body' = [body EXCEPT ![w] = body[w]]
  BY <1>2 DEF TypeOK, ThreadTypes
<1>3. (UNCHANGED body => Becomes(w, l, e, digests[w], body[w])) /\ (Keep(w, ans) => Becomes(w, l, e, digests[w], ans))
  BY <1>1, <1>2 DEF Becomes, GoTo, Keep
<1>. QED BY <1>3 DEF e

\* A dialog in order stays in order when an index is asked whose turn it is.
LEMMA OneMoreRequest ==
  ASSUME NEW n \in Nat, NEW ck \in BOOLEAN, NEW d \in Seq(Requests), InOrder(n, ck, d),
         NEW i \in Nat, NEW ans \in Answer, i <= n, Answered(ck, d, i)
  PROVE  LET e == Append(d, Sent(i, ans)) IN
         /\ e \in Seq(Requests) /\ Len(e) = Len(d) + 1
         /\ e[Len(d) + 1] = Sent(i, ans)
         /\ \A j \in 1..Len(d) : e[j] = d[j]
         /\ InOrder(n, ck, e)
<1>. DEFINE r == Sent(i, ans)
            e == Append(d, r)
<1>1. r \in Requests /\ r.index = i
  BY DEF Sent, Requests
<1>. HIDE DEF r
<1>2. /\ e \in Seq(Requests) /\ Len(e) = Len(d) + 1 /\ Len(d) \in Nat
      /\ e[Len(d) + 1] = r /\ \A j \in 1..Len(d) : e[j] = d[j]
  BY <1>1
<1>. HIDE DEF e
<1>3. InOrder(n, ck, e)
  <2>. DEFINE AnsweredBy(f, m, k) ==
                \E j \in 1..m : /\ f[j].index = k
                                /\ f[j].answer = FallThrough \/ (ck /\ k = 1 /\ f[j].answer \in Bytes)
  <2>. SUFFICES ASSUME NEW m \in 1..Len(e)
                PROVE  e[m].index <= n /\ \A k \in 1..e[m].index - 1 : AnsweredBy(e, m - 1, k)
    BY DEF InOrder
  <2>1. CASE m = Len(d) + 1
    <3>1. e[m].index = i /\ \A k \in 1..i - 1 : AnsweredBy(d, Len(d), k)
      BY <1>1, <1>2, <2>1 DEF Answered
    <3>2. ASSUME NEW k, AnsweredBy(d, Len(d), k) PROVE AnsweredBy(e, m - 1, k)
      BY <1>2, <2>1, <3>2
    <3>. QED BY <3>1, <3>2
  <2>2. CASE m \in 1..Len(d)
    <3>1. e[m] = d[m] /\ \A j \in 1..m - 1 : e[j] = d[j]
      BY <1>2, <2>2
    <3>2. d[m].index <= n /\ \A k \in 1..d[m].index - 1 : AnsweredBy(d, m - 1, k)
      BY <2>2 DEF InOrder
    <3>3. ASSUME NEW k, AnsweredBy(d, m - 1, k) PROVE AnsweredBy(e, m - 1, k)
      BY <3>1, <3>3
    <3>. QED BY <3>1, <3>2, <3>3
  <2>. QED BY <1>2, <2>1, <2>2
<1>. QED BY <1>2, <1>3 DEF e, r

\* Whatever a fetch has asked, it may return.
LEMMA Returning ==
  ASSUME NEW n, NEW ck, NEW l, NEW d, NEW g, NEW b, Shape(n, ck, l, d, g, b)
  PROVE  Shape(n, ck, "idle", d, g, b)
BY DEF Shape

\* The shapes that a request of the priority loop may lead to.
LEMMA AfterTryEndpoint ==
  ASSUME NEW n \in 1..MaxIndexes, NEW ck \in BOOLEAN, ck => n >= 2,
         NEW d \in Seq(Requests), NEW g, NEW b, NEW ans \in Answer,
         Shape(n, ck, "ask", d, g, b)
  PROVE  LET e == Append(d, Sent(Len(d) + 1, ans)) IN
         /\ Shape(n, ck, "idle", e, g, b)
         /\ ans = FallThrough /\ Len(d) + 1 < (IF ck THEN 2 ELSE n) => Shape(n, ck, "ask", e, g, b)
         /\ ans \in Bytes => Shape(n, ck, "checksum", e, g, ans)
<1>. DEFINE e == Append(d, Sent(Len(d) + 1, ans))
<1>0. n \in Nat /\ MaxIndexes \in Nat /\ n <= MaxIndexes
  BY NumbersAssumption
<1>1. /\ Len(d) < (IF ck THEN 2 ELSE n) /\ InOrder(n, ck, d) /\ g = <<>> /\ Len(d) \in Nat
      /\ \A j \in 1..Len(d) : d[j] = Sent(j, FallThrough)
  BY DEF Shape
<1>2. /\ Len(d) + 1 <= n /\ Len(d) + 1 \in Nat
      /\ \A j \in 1..Len(d) : d[j].index = j /\ d[j].answer = FallThrough
  <2>1. Len(d) < n
    BY <1>0, <1>1
  <2>2. ASSUME NEW j \in 1..Len(d) PROVE d[j].index = j /\ d[j].answer = FallThrough
    <3>1. d[j] = Sent(j, FallThrough)
      BY <1>1
    <3>. QED BY <3>1 DEF Sent
  <2>. QED BY <1>0, <1>1, <2>1, <2>2
<1>3. /\ e \in Seq(Requests) /\ Len(e) = Len(d) + 1
      /\ e[Len(d) + 1] = Sent(Len(d) + 1, ans)
      /\ \A j \in 1..Len(d) : e[j] = d[j]
      /\ InOrder(n, ck, e)
  <2>1. Answered(ck, d, Len(d) + 1)
    BY <1>1, <1>2 DEF Answered
  <2>. QED BY <1>0, <1>1, <1>2, <2>1, OneMoreRequest
<1>. HIDE DEF e
<1>4. Shape(n, ck, "idle", e, g, b)
  BY <1>0, <1>1, <1>2, <1>3 DEF Shape, Algos
<1>5. ASSUME ans = FallThrough, Len(d) + 1 < (IF ck THEN 2 ELSE n) PROVE Shape(n, ck, "ask", e, g, b)
  <2>1. Len(e) < (IF ck THEN 2 ELSE n) /\ \A j \in 1..Len(e) : e[j] = Sent(j, FallThrough)
    BY <1>1, <1>3, <1>5
  <2>. QED BY <1>0, <1>1, <1>2, <1>3, <2>1 DEF Shape, Algos
<1>6. ASSUME ans \in Bytes PROVE Shape(n, ck, "checksum", e, g, ans)
  <2>1. e[Len(e)].answer = ans /\ e[Len(e)].index = Len(e)
    BY <1>1, <1>3 DEF Sent
  <2>2. \A j \in 1..Len(d) : e[j].answer \notin Bytes
    BY <1>2, <1>3, MarksAssumption
  <2>3. \A j \in 1..Len(e) : e[j].answer \in Bytes => e[j].answer = ans
    BY <1>1, <1>3, <2>1, <2>2
  <2>4. Uncontradicted(ck, e, ans)
    BY <2>1, <2>3 DEF Uncontradicted, HeardIn
  <2>. QED BY <1>0, <1>1, <1>2, <1>3, <1>6, <2>4 DEF Shape, Algos
<1>. QED BY <1>4, <1>5, <1>6 DEF e

\* The shapes that the first request of the cross-check may lead to.
LEMMA AfterPrimary ==
  ASSUME NEW n \in 1..MaxIndexes, NEW ck \in BOOLEAN, ck => n >= 2,
         NEW d \in Seq(Requests), NEW g, NEW b, NEW ans \in Answer,
         Shape(n, ck, "primary", d, g, b)
  PROVE  LET e == Append(d, Sent(1, ans)) IN
         /\ Shape(n, ck, "idle", e, g, b)
         /\ ans = FallThrough => Shape(n, ck, "ask", e, g, b)
         /\ ans \in Bytes => Shape(n, ck, "secondary", e, g, ans)
<1>. DEFINE e == Append(d, Sent(1, ans))
<1>0. n \in Nat /\ MaxIndexes \in Nat /\ n <= MaxIndexes /\ 1 <= n
  BY NumbersAssumption
<1>1. d = <<>> /\ Len(d) = 0 /\ g = <<>>
  BY DEF Shape
<1>o. InOrder(n, ck, d)
  BY DEF Shape
<1>c. ck
  BY DEF Shape
<1>2. Len(e) = 1 /\ e[1] = Sent(1, ans) /\ InOrder(n, ck, e)
  <2>1. Answered(ck, d, 1)
    BY DEF Answered
  <2>2. /\ Len(e) = Len(d) + 1
        /\ e[Len(d) + 1] = Sent(1, ans)
        /\ \A j \in 1..Len(d) : e[j] = d[j]
        /\ InOrder(n, ck, e)
    BY <1>0, <1>o, <2>1, OneMoreRequest
  <2>. QED BY <1>1, <2>2
<1>. HIDE DEF e
<1>3. Len(e) <= MaxIndexes + 1 /\ Len(g) <= Len(Algos)
  BY <1>0, <1>1, <1>2 DEF Algos
<1>4. Shape(n, ck, "idle", e, g, b)
  BY <1>1, <1>c, <1>2, <1>3 DEF Shape
<1>5. ASSUME ans = FallThrough PROVE Shape(n, ck, "ask", e, g, b)
  <2>1. Len(e) < IF ck THEN 2 ELSE n
    BY <1>1, <1>c, <1>2
  <2>2. \A j \in 1..Len(e) : e[j] = Sent(j, FallThrough)
    BY <1>2, <1>5
  <2>. QED BY <1>1, <1>c, <1>2, <1>3, <2>1, <2>2 DEF Shape
<1>6. ASSUME ans \in Bytes PROVE Shape(n, ck, "secondary", e, g, ans)
  BY <1>1, <1>c, <1>2, <1>3, <1>6 DEF Shape
<1>. QED BY <1>4, <1>5, <1>6 DEF e

\* The shapes that the second request of the cross-check may lead to.
LEMMA AfterSecondary ==
  ASSUME NEW n \in 1..MaxIndexes, NEW ck \in BOOLEAN, ck => n >= 2,
         NEW d \in Seq(Requests), NEW g, NEW b, NEW ans \in Answer,
         Shape(n, ck, "secondary", d, g, b)
  PROVE  LET e == Append(d, Sent(2, ans)) IN
         /\ ans \in Bytes \ {b} => Shape(n, ck, "retry", e, g, b)
         /\ ans \notin Bytes \ {b} => Shape(n, ck, "store", e, g, b)
<1>. DEFINE e == Append(d, Sent(2, ans))
<1>1. Len(d) = 1 /\ d[1] = Sent(1, b) /\ b \in Bytes /\ g = <<>>
  BY DEF Shape
<1>o. InOrder(n, ck, d)
  BY DEF Shape
<1>c. ck
  BY DEF Shape
<1>0. n \in Nat /\ MaxIndexes \in Nat /\ n <= MaxIndexes /\ 2 <= n
  BY <1>c, NumbersAssumption
<1>2. Len(e) = 2 /\ e[1] = Sent(1, b) /\ e[2] = Sent(2, ans) /\ InOrder(n, ck, e)
  <2>1. Answered(ck, d, 2)
    BY <1>1, <1>c DEF Answered, Sent
  <2>2. /\ Len(e) = Len(d) + 1
        /\ e[Len(d) + 1] = Sent(2, ans)
        /\ \A j \in 1..Len(d) : e[j] = d[j]
        /\ InOrder(n, ck, e)
    BY <1>0, <1>o, <2>1, OneMoreRequest
  <2>. QED BY <1>1, <2>2
<1>. HIDE DEF e
<1>3. Len(e) <= MaxIndexes + 1 /\ Len(g) <= Len(Algos)
  BY <1>0, <1>1, <1>2 DEF Algos
<1>4. Shape(n, ck, "retry", e, g, b)
  <2>1. e[2].index = 2
    BY <1>2 DEF Sent
  <2>. QED BY <1>1, <1>c, <1>2, <1>3, <2>1 DEF Shape
<1>5. ASSUME ans \notin Bytes \ {b} PROVE Shape(n, ck, "store", e, g, b)
  <2>1. HeardIn(e, 1) = {b} /\ HeardIn(e, 2) = {ans}
    BY <1>2 DEF HeardIn, Sent
  <2>2. Uncontradicted(ck, e, b)
    BY <1>2, <1>5, <2>1 DEF Uncontradicted, Sent
  <2>. QED BY <1>1, <1>c, <1>2, <1>3, <2>2 DEF Shape
<1>. QED BY <1>4, <1>5 DEF e

\* The shapes that the retry of the cross-check may lead to.
LEMMA AfterRetry ==
  ASSUME NEW n \in 1..MaxIndexes, NEW ck \in BOOLEAN, ck => n >= 2,
         NEW d \in Seq(Requests), NEW g, NEW b, NEW ans \in Answer,
         Shape(n, ck, "retry", d, g, b)
  PROVE  LET e == Append(d, Sent(2, ans)) IN
         /\ Shape(n, ck, "idle", e, g, b)
         /\ ans = b => Shape(n, ck, "store", e, g, b)
<1>. DEFINE e == Append(d, Sent(2, ans))
<1>1. /\ Len(d) = 2 /\ d[1] = Sent(1, b) /\ d[2].index = 2
      /\ b \in Bytes /\ g = <<>>
  BY DEF Shape
<1>o. InOrder(n, ck, d)
  BY DEF Shape
<1>c. ck
  BY DEF Shape
<1>0. n \in Nat /\ MaxIndexes \in Nat /\ n <= MaxIndexes /\ 2 <= n
  BY <1>c, NumbersAssumption
<1>2. /\ Len(e) = 3 /\ e[1] = Sent(1, b) /\ e[2].index = 2 /\ e[3] = Sent(2, ans)
      /\ InOrder(n, ck, e)
  <2>1. Answered(ck, d, 2)
    BY <1>1, <1>c DEF Answered, Sent
  <2>2. /\ Len(e) = Len(d) + 1
        /\ e[Len(d) + 1] = Sent(2, ans)
        /\ \A j \in 1..Len(d) : e[j] = d[j]
        /\ InOrder(n, ck, e)
    BY <1>0, <1>o, <2>1, OneMoreRequest
  <2>. QED BY <1>1, <2>2
<1>. HIDE DEF e
<1>3. Len(e) <= MaxIndexes + 1 /\ Len(g) <= Len(Algos)
  BY <1>0, <1>1, <1>2 DEF Algos
<1>4. Shape(n, ck, "idle", e, g, b)
  BY <1>1, <1>c, <1>2, <1>3 DEF Shape
<1>5. ASSUME ans = b PROVE Shape(n, ck, "store", e, g, b)
  <2>1. HeardIn(e, 1) = {b} /\ b \in HeardIn(e, 2)
    <3>1. \A j \in 1..Len(e) : (e[j].index = 1 <=> j = 1) /\ (e[j].index = 2 <=> j # 1)
      BY <1>2 DEF Sent
    <3>2. e[1].answer = b /\ e[3].answer = b
      BY <1>2, <1>5 DEF Sent
    <3>. QED BY <1>2, <3>1, <3>2 DEF HeardIn
  <2>2. Uncontradicted(ck, e, b)
    BY <1>2, <1>5, <2>1 DEF Uncontradicted, Sent
  <2>. QED BY <1>1, <1>c, <1>2, <1>3, <2>2 DEF Shape
<1>. QED BY <1>4, <1>5 DEF e

\* The shapes that a request for a digest may lead to.
LEMMA AfterDigest ==
  ASSUME NEW n, NEW ck, NEW d, NEW g \in Seq(Digests), NEW b, NEW x \in Digests,
         Shape(n, ck, "checksum", d, g, b)
  PROVE  /\ Shape(n, ck, "idle", d, Append(g, x), b)
         /\ Shape(n, ck, "store", d, Append(g, x), b)
         /\ Len(g) + 1 < Len(Algos) => Shape(n, ck, "checksum", d, Append(g, x), b)
<1>1. Len(Append(g, x)) = Len(g) + 1 /\ Len(g) \in Nat /\ Len(Algos) = 3
  BY DEF Algos
<1>. QED BY <1>1 DEF Shape

\* Every action keeps the shape of every fetch.
LEMMA ShapeStep == ASSUME TypeOK, ShapeInv, [Next]_vars PROVE ShapeInv'
<1>0. /\ indexes \in 1..MaxIndexes /\ indexes \in Nat /\ Checked \in BOOLEAN
      /\ Checked => indexes >= 2
      /\ LastIndex = IF Checked THEN 2 ELSE indexes
  BY NumbersAssumption DEF TypeOK, Checked, LastIndex
<1>1. ASSUME NEW w \in Worker
      PROVE /\ Shape(indexes, Checked, pc[w], dialog[w], digests[w], body[w])
            /\ dialog[w] \in Seq(Requests) /\ digests[w] \in Seq(Digests)
            /\ Len(dialog[w]) \in Nat
  BY DEF ShapeInv, TypeOK, ThreadTypes
<1>2. ASSUME NEW w \in Worker, NEW a \in Art, Call(w, a) PROVE ShapeInv'
  <2>1. Shape(indexes, Checked, "lookup", <<>>, <<>>, Absent)
    BY NumbersAssumption DEF Shape, InOrder, Algos
  <2>2. Becomes(w, "lookup", <<>>, <<>>, Absent)
    BY <1>2 DEF Call, GoTo, Keep, Becomes
  <2>. QED BY <2>1, <2>2, OneThread
\* A step of a thread that asks nobody.
<1>3. ASSUME NEW w \in Worker, NEW l, GoTo(w, l), UNCHANGED <<config, dialog, digests, body>>,
             Shape(indexes, Checked, l, dialog[w], digests[w], body[w])
      PROVE ShapeInv'
  BY <1>3, SameDialog, OneThread
<1>4. ASSUME NEW w \in Worker, Return(w), UNCHANGED <<config, dialog, digests, body>>
      PROVE ShapeInv'
  BY <1>1, <1>3, <1>4, Returning DEF Return
<1>5. ASSUME NEW w \in Worker, Hit(w) \/ StoreFails(w) PROVE ShapeInv'
  BY <1>4, <1>5 DEF Hit, StoreFails, local
<1>6. ASSUME NEW w \in Worker, Miss(w) \/ Disclose(w) PROVE ShapeInv'
  <2>1. PICK l \in {"cap", "disclose"} : GoTo(w, l)
    BY <1>6 DEF Miss, Disclose
  <2>2. Shape(indexes, Checked, l, dialog[w], digests[w], body[w])
    BY <1>1, <1>6, <2>1 DEF Shape, Miss, Disclose
  <2>. QED BY <1>3, <1>6, <2>1, <2>2 DEF Miss, Disclose, local
<1>7. ASSUME NEW w \in Worker, TryConsumeCap(w) PROVE ShapeInv'
  <2>1. CASE Return(w)
    BY <1>4, <1>7, <2>1 DEF TryConsumeCap, local
  <2>2. CASE GoTo(w, "budget")
    <3>1. Shape(indexes, Checked, "budget", dialog[w], digests[w], body[w])
      BY <1>1, <1>7 DEF Shape, TryConsumeCap
    <3>. QED BY <1>3, <1>7, <2>2, <3>1 DEF TryConsumeCap, local
  <2>. QED BY <1>7, <2>1, <2>2 DEF TryConsumeCap
<1>8. ASSUME NEW w \in Worker, TimeBudget(w) PROVE ShapeInv'
  <2>1. CASE Return(w)
    BY <1>4, <1>8, <2>1 DEF TimeBudget, local
  <2>2. CASE Checked /\ GoTo(w, "primary")
    <3>1. Shape(indexes, Checked, "primary", dialog[w], digests[w], body[w])
      BY <1>1, <1>8, <2>2 DEF Shape, TimeBudget
    <3>. QED BY <1>3, <1>8, <2>2, <3>1 DEF TimeBudget, local
  <2>3. CASE ~ Checked /\ GoTo(w, "ask")
    <3>1. dialog[w] = <<>> /\ digests[w] = <<>> /\ InOrder(indexes, Checked, dialog[w])
      BY <1>1, <1>8 DEF Shape, TimeBudget
    <3>2. Shape(indexes, Checked, "ask", dialog[w], digests[w], body[w])
      BY <1>0, <2>3, <3>1, NumbersAssumption DEF Shape, Algos
    <3>. QED BY <1>3, <1>8, <2>3, <3>2 DEF TimeBudget, local
  <2>. QED BY <1>8, <2>1, <2>2, <2>3 DEF TimeBudget
<1>9. ASSUME NEW w \in Worker, NEW ans \in Answer, TryEndpoint(w, ans) PROVE ShapeInv'
  <2>. DEFINE e == Append(dialog[w], Sent(Len(dialog[w]) + 1, ans))
  <2>1. /\ Shape(indexes, Checked, "idle", e, digests[w], body[w])
        /\ ans = FallThrough /\ NextIndex(w) < LastIndex => Shape(indexes, Checked, "ask", e, digests[w], body[w])
        /\ ans \in Bytes => Shape(indexes, Checked, "checksum", e, digests[w], ans)
    <3>1. Shape(indexes, Checked, "ask", dialog[w], digests[w], body[w])
      BY <1>1, <1>9 DEF TryEndpoint
    <3>2. LET f == Append(dialog[w], Sent(Len(dialog[w]) + 1, ans)) IN
         /\ Shape(indexes, Checked, "idle", f, digests[w], body[w])
         /\ ans = FallThrough /\ Len(dialog[w]) + 1 < (IF Checked THEN 2 ELSE indexes)
              => Shape(indexes, Checked, "ask", f, digests[w], body[w])
         /\ ans \in Bytes => Shape(indexes, Checked, "checksum", f, digests[w], ans)
      BY <1>0, <1>1, <3>1, AfterTryEndpoint
    <3>. QED BY <1>0, <3>2 DEF NextIndex
  <2>2. ASSUME NEW l, GoTo(w, l)
        PROVE  /\ UNCHANGED body => Becomes(w, l, e, digests[w], body[w])
               /\ Keep(w, ans) => Becomes(w, l, e, digests[w], ans)
    <3>1. Hear(w, Len(dialog[w]) + 1, ans) /\ UNCHANGED config /\ UNCHANGED digests
      BY <1>9 DEF TryEndpoint, NextIndex
    <3>. QED BY <1>1, <2>2, <3>1, SameDigests
  <2>. HIDE DEF e
  <2>3. CASE ans = FallThrough /\ NextIndex(w) < LastIndex /\ GoTo(w, "ask") /\ UNCHANGED body
    BY <2>1, <2>2, <2>3, OneThread
  <2>4. CASE Return(w) /\ UNCHANGED body
    BY <2>1, <2>2, <2>4, OneThread DEF Return
  <2>5. CASE ans \in Bytes /\ GoTo(w, "checksum") /\ Keep(w, ans)
    BY <2>1, <2>2, <2>5, OneThread
  <2>. QED BY <1>9, <2>3, <2>4, <2>5 DEF TryEndpoint
<1>10. ASSUME NEW w \in Worker, NEW ans \in Answer, AskPrimary(w, ans) PROVE ShapeInv'
  <2>. DEFINE e == Append(dialog[w], Sent(1, ans))
  <2>1. /\ Shape(indexes, Checked, "idle", e, digests[w], body[w])
        /\ ans = FallThrough => Shape(indexes, Checked, "ask", e, digests[w], body[w])
        /\ ans \in Bytes => Shape(indexes, Checked, "secondary", e, digests[w], ans)
    <3>1. Shape(indexes, Checked, "primary", dialog[w], digests[w], body[w])
      BY <1>1, <1>10 DEF AskPrimary
    <3>. QED BY <1>0, <1>1, <3>1, AfterPrimary
  <2>2. ASSUME NEW l, GoTo(w, l)
        PROVE  /\ UNCHANGED body => Becomes(w, l, e, digests[w], body[w])
               /\ Keep(w, ans) => Becomes(w, l, e, digests[w], ans)
    BY <1>10, <2>2, SameDigests DEF AskPrimary
  <2>. HIDE DEF e
  <2>3. CASE Return(w) /\ UNCHANGED body
    BY <2>1, <2>2, <2>3, OneThread DEF Return
  <2>4. CASE ans = FallThrough /\ GoTo(w, "ask") /\ UNCHANGED body
    BY <2>1, <2>2, <2>4, OneThread
  <2>5. CASE ans \in Bytes /\ GoTo(w, "secondary") /\ Keep(w, ans)
    BY <2>1, <2>2, <2>5, OneThread
  <2>. QED BY <1>10, <2>3, <2>4, <2>5 DEF AskPrimary
<1>11. ASSUME NEW w \in Worker, NEW ans \in Answer, AskSecondary(w, ans) PROVE ShapeInv'
  <2>. DEFINE e == Append(dialog[w], Sent(2, ans))
  <2>1. /\ ans \in Bytes \ {body[w]} => Shape(indexes, Checked, "retry", e, digests[w], body[w])
        /\ ans \notin Bytes \ {body[w]} => Shape(indexes, Checked, "store", e, digests[w], body[w])
    <3>1. Shape(indexes, Checked, "secondary", dialog[w], digests[w], body[w])
      BY <1>1, <1>11 DEF AskSecondary
    <3>. QED BY <1>0, <1>1, <3>1, AfterSecondary
  <2>2. ASSUME NEW l, GoTo(w, l) PROVE Becomes(w, l, e, digests[w], body[w])
    BY <1>11, <2>2, SameDigests DEF AskSecondary
  <2>. HIDE DEF e
  <2>3. CASE ans \in Bytes \ {body[w]}
    BY <1>11, <2>1, <2>2, <2>3, OneThread DEF AskSecondary
  <2>4. CASE ans \notin Bytes \ {body[w]}
    BY <1>11, <2>1, <2>2, <2>4, OneThread DEF AskSecondary
  <2>. QED BY <2>3, <2>4
<1>12. ASSUME NEW w \in Worker, NEW ans \in Answer, RetrySecondary(w, ans) PROVE ShapeInv'
  <2>. DEFINE e == Append(dialog[w], Sent(2, ans))
  <2>1. /\ Shape(indexes, Checked, "idle", e, digests[w], body[w])
        /\ ans = body[w] => Shape(indexes, Checked, "store", e, digests[w], body[w])
    <3>1. Shape(indexes, Checked, "retry", dialog[w], digests[w], body[w])
      BY <1>1, <1>12 DEF RetrySecondary
    <3>. QED BY <1>0, <1>1, <3>1, AfterRetry
  <2>2. ASSUME NEW l, GoTo(w, l) PROVE Becomes(w, l, e, digests[w], body[w])
    BY <1>12, <2>2, SameDigests DEF RetrySecondary
  <2>. HIDE DEF e
  <2>3. CASE ans = body[w]
    BY <1>12, <2>1, <2>2, <2>3, OneThread DEF RetrySecondary
  <2>4. CASE ans # body[w]
    BY <1>12, <2>1, <2>2, <2>4, OneThread DEF RetrySecondary, Return
  <2>. QED BY <2>3, <2>4
<1>13. ASSUME NEW w \in Worker, NEW x \in Digests, VerifyChecksum(w, x) PROVE ShapeInv'
  <2>. DEFINE g == Append(digests[w], x)
  <2>1. /\ Shape(indexes, Checked, "idle", dialog[w], g, body[w])
        /\ Shape(indexes, Checked, "store", dialog[w], g, body[w])
        /\ Len(digests[w]) + 1 < Len(Algos)
             => Shape(indexes, Checked, "checksum", dialog[w], g, body[w])
    <3>1. Shape(indexes, Checked, "checksum", dialog[w], digests[w], body[w])
      BY <1>1, <1>13 DEF VerifyChecksum
    <3>. QED BY <1>1, <3>1, AfterDigest
  <2>2. digests' = [digests EXCEPT ![w] = g]
    BY <1>13 DEF VerifyChecksum
  <2>. HIDE DEF g
  <2>3. ASSUME NEW l, GoTo(w, l) PROVE Becomes(w, l, dialog[w], g, body[w])
    BY <1>13, <2>2, <2>3 DEF VerifyChecksum, Becomes, GoTo, TypeOK, ThreadTypes
  <2>4. PICK l \in {"idle", "store", "checksum"} :
          /\ GoTo(w, l)
          /\ l = "checksum" => Len(digests[w]) + 1 < Len(Algos)
    BY <1>13 DEF VerifyChecksum, Return
  <2>5. Shape(indexes, Checked, l, dialog[w], g, body[w])
    BY <2>1, <2>4
  <2>. QED BY <2>3, <2>4, <2>5, OneThread
<1>14. ASSUME NEW w \in Worker, Store(w) PROVE ShapeInv'
  <2>1. Shape(indexes, Checked, "evict", dialog[w], digests[w], body[w])
    BY <1>1, <1>14 DEF Shape, Store
  <2>. QED BY <1>3, <1>14, <2>1 DEF Store, local
<1>15. ASSUME NEW w \in Worker, NEW left \in SUBSET Art, EnforceCacheCap(w, left) PROVE ShapeInv'
  BY <1>4, <1>15 DEF EnforceCacheCap
<1>16. ASSUME TimeRunsOut \/ UNCHANGED vars PROVE ShapeInv'
  <2>1. UNCHANGED <<indexes, crossCheck, pc, dialog, digests, body>>
    BY <1>16 DEF TimeRunsOut, vars, config, local
  <2>. QED BY <2>1 DEF ShapeInv, Checked
<1>. QED BY <1>2, <1>5, <1>6, <1>7, <1>8, <1>9, <1>10, <1>11, <1>12, <1>13, <1>14, <1>15, <1>16
     DEF Next, WorkerStep, Finished

\* At the start no thread has asked anything.
LEMMA ShapeInitially == ASSUME Init PROVE ShapeInv
<1>1. ASSUME NEW w \in Worker PROVE Shape(indexes, Checked, "idle", <<>>, <<>>, Absent)
  BY NumbersAssumption DEF Shape, InOrder, Algos
<1>. QED BY <1>1 DEF Init, ShapeInv

\* SEC-NEW-61 for any number of indexes and threads: fetch and
\* _fetch_with_cross_check show a coordinate to an index only when each index
\* of higher priority fell through, which an index also does whose answer the
\* client discards; but for the second opinion of the cross-check.
THEOREM NobodyIsProbedAfterAVerdict == Spec => []NoProbeAfterVerdict
<1>1. Init => ShapeInv
  BY ShapeInitially
<1>2. TypeOK /\ ShapeInv /\ [Next]_vars => ShapeInv'
  BY ShapeStep
<1>3. ShapeInv => NoProbeAfterVerdict
  BY DEF ShapeInv, Shape, InOrder, NoProbeAfterVerdict
<1>. QED BY <1>1, <1>2, <1>3, TypeCorrect, PTL DEF Spec

\* What _write_cache is given with the cross-check on was not contradicted by
\* the other index.
THEOREM NothingContradictedIsStored == Spec => []StoredIsUncontradicted
<1>1. Init => ShapeInv
  BY ShapeInitially
<1>2. TypeOK /\ ShapeInv /\ [Next]_vars => ShapeInv'
  BY ShapeStep
<1>3. ShapeInv => StoredIsUncontradicted
  BY DEF ShapeInv, Shape, Uncontradicted, HeardIn, StoredIsUncontradicted, Heard, Last
<1>. QED BY <1>1, <1>2, <1>3, TypeCorrect, PTL DEF Spec
----------------------------------------------------------------------------
\* A count in a base K is decided by its leading digit.
LEMMA LessWins ==
  ASSUME NEW s \in Nat, NEW t \in Nat, s < t, NEW K \in Nat, NEW p \in Nat, NEW q \in Nat, p < K
  PROVE  s * K + p < t * K + q
<1>1. PICK u \in Nat : t = s + 1 + u
  <2>1. t - s - 1 \in Nat /\ t = s + 1 + (t - s - 1)
    OBVIOUS
  <2>. QED BY <2>1
<1>2. t * K = s * K + K + u * K
  BY <1>1
<1>3. u * K \in Nat /\ s * K \in Nat
  OBVIOUS
<1>. QED BY <1>2, <1>3

\* The stages by name.
LEMMA StageNumbers ==
  /\ StagesAfter["idle"] = 0 /\ StagesAfter["evict"] = 1 /\ StagesAfter["store"] = 2
  /\ StagesAfter["checksum"] = 3 /\ StagesAfter["retry"] = 3 /\ StagesAfter["ask"] = 4
  /\ StagesAfter["secondary"] = 4 /\ StagesAfter["primary"] = 5 /\ StagesAfter["budget"] = 6
  /\ StagesAfter["cap"] = 7 /\ StagesAfter["disclose"] = 8 /\ StagesAfter["lookup"] = 9
BY DEF StagesAfter, PCs

\* A step of a worker takes it to a later stage, or round a loop with one
\* request less to make.
LEMMA StageStep ==
  ASSUME TypeOK, NEW w \in Worker, WorkerStep(w)
  PROVE  \/ StagesAfter[pc'[w]] < StagesAfter[pc[w]]
         \/ /\ pc'[w] = pc[w]
            /\ \/ Len(dialog'[w]) = Len(dialog[w]) + 1 /\ digests' = digests
               \/ Len(digests'[w]) = Len(digests[w]) + 1 /\ dialog' = dialog
<1>. USE StageNumbers
<1>0. ASSUME NEW l, GoTo(w, l) PROVE pc'[w] = l
  BY <1>0 DEF TypeOK, ThreadTypes, GoTo
<1>1. CASE Hit(w) \/ Miss(w) \/ Disclose(w) \/ TryConsumeCap(w)
  BY <1>0, <1>1 DEF Hit, Miss, Disclose, TryConsumeCap, Return
<1>2. CASE TimeBudget(w)
  BY <1>0, <1>2 DEF TimeBudget, Return
<1>3. ASSUME NEW ans \in Answer, TryEndpoint(w, ans), GoTo(w, "ask")
      PROVE  Len(dialog'[w]) = Len(dialog[w]) + 1 /\ digests' = digests /\ pc'[w] = pc[w]
  BY <1>0, <1>3 DEF TryEndpoint, Hear, TypeOK, ThreadTypes
<1>4. ASSUME NEW ans \in Answer, TryEndpoint(w, ans), ~ GoTo(w, "ask")
      PROVE  StagesAfter[pc'[w]] < StagesAfter[pc[w]]
  BY <1>0, <1>4 DEF TryEndpoint, Return
<1>5. ASSUME NEW ans \in Answer, AskPrimary(w, ans)
      PROVE  StagesAfter[pc'[w]] < StagesAfter[pc[w]]
  BY <1>0, <1>5 DEF AskPrimary, Return
<1>6. ASSUME NEW ans \in Answer, AskSecondary(w, ans) \/ RetrySecondary(w, ans)
      PROVE  StagesAfter[pc'[w]] < StagesAfter[pc[w]]
  BY <1>0, <1>6 DEF AskSecondary, RetrySecondary, Return
<1>7. ASSUME NEW d \in Digests, VerifyChecksum(w, d), GoTo(w, "checksum")
      PROVE  Len(digests'[w]) = Len(digests[w]) + 1 /\ dialog' = dialog /\ pc'[w] = pc[w]
  BY <1>0, <1>7 DEF VerifyChecksum, TypeOK, ThreadTypes
<1>8. ASSUME NEW d \in Digests, VerifyChecksum(w, d), ~ GoTo(w, "checksum")
      PROVE  StagesAfter[pc'[w]] < StagesAfter[pc[w]]
  BY <1>0, <1>8 DEF VerifyChecksum, Return
<1>9. ASSUME Store(w) \/ StoreFails(w) PROVE StagesAfter[pc'[w]] < StagesAfter[pc[w]]
  BY <1>0, <1>9 DEF Store, StoreFails, Return
<1>10. ASSUME NEW left \in SUBSET Art, EnforceCacheCap(w, left)
       PROVE  StagesAfter[pc'[w]] < StagesAfter[pc[w]]
  BY <1>0, <1>10 DEF EnforceCacheCap, Return
<1>. QED BY <1>1, <1>2, <1>3, <1>4, <1>5, <1>6, <1>7, <1>8, <1>9, <1>10 DEF WorkerStep

\* What is left of two budgets that are not overdrawn.
LEMMA Room ==
  ASSUME NEW m \in Nat, NEW a \in Nat, NEW b \in Nat, NEW c \in Nat, a <= m + 1, b <= c
  PROVE  /\ (m + 1 - a) + (c - b) \in Nat
         /\ (m + 1 - a) + (c - b) < m + 1 + c + 1
OBVIOUS

\* No fetch has asked more than its loops allow.
LEMMA RequestsAreBounded == TypeOK /\ ShapeInv => RequestsBounded
<1>. SUFFICES ASSUME TypeOK, ShapeInv, NEW w \in Worker
              PROVE  /\ RequestsLeft(w) \in Nat
                     /\ RequestsLeft(w) < MaxIndexes + 1 + Len(Algos) + 1
  BY DEF RequestsBounded
<1>1. Len(dialog[w]) \in Nat /\ Len(digests[w]) \in Nat
  BY DEF TypeOK, ThreadTypes
<1>2. MaxIndexes \in Nat /\ Len(Algos) \in Nat
  BY NumbersAssumption DEF Algos
<1>3. Len(dialog[w]) <= MaxIndexes + 1 /\ Len(digests[w]) <= Len(Algos)
  BY DEF ShapeInv, Shape
<1>. QED BY <1>1, <1>2, <1>3, Room DEF RequestsLeft

\* Every step of a worker leaves less to do, for any number of indexes: no
\* fetch goes round in a loop for ever.
THEOREM EveryFetchAdvances == Spec => FetchAdvances
<1>1. TypeOK /\ ShapeInv /\ [Next]_vars =>
        [Advances]_vars
  <2>. SUFFICES ASSUME TypeOK, ShapeInv, [Next]_vars, NEW w \in Worker, WorkerStep(w)
                PROVE  Left(w)' < Left(w) /\ RequestsLeft(w)' >= 0
    BY DEF Advances
  <2>. DEFINE K == MaxIndexes + 1 + Len(Algos) + 1
  <2>1. TypeOK' /\ ShapeInv'
    BY TypesStep, ShapeStep
  <2>2. RequestsLeft(w) \in Nat /\ RequestsLeft(w) < K
    BY RequestsAreBounded DEF RequestsBounded
  <2>3. (RequestsLeft(w) \in Nat /\ RequestsLeft(w) < K)'
    <3>1. (TypeOK /\ ShapeInv => RequestsBounded)'
      BY RequestsAreBounded, PTL
    <3>. QED BY <2>1, <3>1 DEF RequestsBounded
  <2>4. K \in Nat
    BY NumbersAssumption DEF Algos
  <2>5. StagesAfter[pc[w]] \in Nat /\ StagesAfter[pc'[w]] \in Nat
    <3>1. pc[w] \in PCs /\ pc'[w] \in PCs
      BY <2>1 DEF TypeOK, ThreadTypes
    <3>. QED BY <3>1, StageNumbers DEF PCs
  <2>6. CASE StagesAfter[pc'[w]] < StagesAfter[pc[w]]
    <3>. DEFINE s == StagesAfter[pc'[w]]
                t == StagesAfter[pc[w]]
                p == RequestsLeft(w)'
                q == RequestsLeft(w)
    <3>1. /\ s \in Nat /\ t \in Nat /\ s < t /\ K \in Nat
          /\ p \in Nat /\ q \in Nat /\ p < K
      BY <2>2, <2>3, <2>4, <2>5, <2>6
    <3>2. Left(w)' = s * K + p /\ Left(w) = t * K + q
      BY DEF Left
    <3>. HIDE DEF s, t, p, q, K
    <3>3. s * K + p < t * K + q
      BY <3>1, LessWins
    <3>4. p >= 0
      BY <3>1
    <3>. QED BY <3>2, <3>3, <3>4 DEF p
  <2>7. CASE /\ pc'[w] = pc[w]
             /\ \/ Len(dialog'[w]) = Len(dialog[w]) + 1 /\ digests' = digests
                \/ Len(digests'[w]) = Len(digests[w]) + 1 /\ dialog' = dialog
    <3>1. /\ Len(dialog[w]) \in Nat /\ Len(digests[w]) \in Nat /\ MaxIndexes \in Nat
          /\ Len(Algos) = 3
      BY NumbersAssumption DEF TypeOK, ThreadTypes, Algos
    <3>2. RequestsLeft(w)' = RequestsLeft(w) - 1
      <4>1. CASE Len(dialog'[w]) = Len(dialog[w]) + 1 /\ digests' = digests
        BY <3>1, <4>1 DEF RequestsLeft
      <4>2. CASE Len(digests'[w]) = Len(digests[w]) + 1 /\ dialog' = dialog
        BY <3>1, <4>2 DEF RequestsLeft
      <4>. QED BY <2>7, <4>1, <4>2
    <3>3. StagesAfter[pc[w]] * K \in Nat
      BY <2>4, <2>5
    <3>. QED BY <2>2, <2>3, <2>7, <3>2, <3>3 DEF Left
  <2>. QED BY <2>6, <2>7, StageStep
<1>2. Init => ShapeInv
  BY ShapeInitially
<1>3. TypeOK /\ ShapeInv /\ [Next]_vars => ShapeInv'
  BY ShapeStep
<1>. QED BY <1>1, <1>2, <1>3, TypeCorrect, PTL DEF Spec, FetchAdvances
=============================================================================
