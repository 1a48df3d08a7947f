------------------------------ MODULE Fetcher ------------------------------
(***************************************************************************)
(* indexing/fetcher.py, RemoteArtifactFetcher (REQ-24): the worker threads *)
(* of the ABI differ share one fetcher, and ask it for artefacts that the  *)
(* local repository lacks.  A fetch looks in the quarantined cache, then   *)
(* asks the configured indexes, best priority first.                       *)
(*                                                                         *)
(* The indexes are the environment.  A request ends with FallThrough,      *)
(* Refused (4xx, an unexpected status) or bytes.  FallThrough is 502 to    *)
(* 504 and every SafeHttpsError of http_client, of which the fetcher does  *)
(* not ask the reason: no connection, but also an index that did answer    *)
(* and whose answer the client discards, for a body over its cap, too many *)
(* redirects, or a redirect target that it rejects.  (The fetcher's        *)
(* own size cap is the client's, 64 MiB, and never decides.)  Storing into *)
(* the cache is one step here; module CacheStore has the file operations   *)
(* it is made of.  The audit lines and the integrity finding are left out. *)
(***************************************************************************)
EXTENDS Naturals, Sequences, FiniteSets

CONSTANTS
  Worker,      \* threads that share the fetcher
  Art,         \* coordinate@version.extension
  Bytes,       \* what the body of an artefact may be
  MaxIndexes,  \* most indexes configured; index 1 has the best priority
  MaxFetches,  \* max_fetches_per_run
  CacheSize,   \* total_size_bytes, in artefacts
  Calls,       \* bound on the calls each worker makes
  Absent       \* no such file in the cache

FallThrough == "fall through"
Refused == "refused"
Answer == {FallThrough, Refused} \cup Bytes
Requests == [index: Nat, answer: Answer]
Digests == {"absent", "match", "mismatch"}
Algos == <<"sha512", "sha256", "sha1">>

ASSUME NumbersAssumption ==
  /\ MaxIndexes \in Nat \ {0} /\ MaxFetches \in Nat
  /\ CacheSize \in Nat \ {0} /\ Calls \in Nat
ASSUME WorkerAssumption == IsFiniteSet(Worker)
ASSUME MarksAssumption ==
  Bytes \cap {Absent, FallThrough, Refused} = {}

VARIABLES
  indexes,      \* how many indexes are eligible
  crossCheck,   \* --integrity-cross-check
  pc, art, calls,
  dialog,       \* per worker: the artefact requests of its fetch, in order
  digests,      \* per worker: the answers to its checksum requests
  body,         \* per worker: the bytes it may store
  cache, stale, \* file contents per artefact; which of them are past the TTL
  disclosed,    \* _disclosure_emitted
  disclosures,  \* how often the disclosure line was written
  consumed,     \* _fetches_consumed
  timeUp,       \* the total time budget is exhausted
  online        \* how many fetches went to the network

config == <<indexes, crossCheck>>
local == <<art, calls, dialog, digests, body>>
files == <<cache, stale>>
disclosure == <<disclosed, disclosures>>
counters == <<consumed, timeUp, online>>
vars == <<config, pc, local, files, disclosure, counters>>

Checked == crossCheck /\ indexes >= 2

GoTo(w, l) == pc' = [pc EXCEPT ![w] = l]

Return(w) == GoTo(w, "idle")

Hear(w, i, ans) == dialog' = [dialog EXCEPT ![w] = Append(@, [index |-> i, answer |-> ans])]

Keep(w, b) == body' = [body EXCEPT ![w] = b]
----------------------------------------------------------------------------
Init ==
  /\ indexes \in 1..MaxIndexes
  /\ crossCheck \in BOOLEAN
  /\ pc = [w \in Worker |-> "idle"]
  /\ art \in [Worker -> Art]
  /\ calls = [w \in Worker |-> 0]
  /\ dialog = [w \in Worker |-> <<>>]
  /\ digests = [w \in Worker |-> <<>>]
  /\ body = [w \in Worker |-> Absent]
  /\ cache \in [Art -> Bytes \cup {Absent}]   \* what earlier runs left
  /\ stale \in SUBSET {a \in Art : cache[a] # Absent}
  /\ disclosed = FALSE /\ disclosures = 0
  /\ consumed = 0 /\ timeUp = FALSE /\ online = 0

Call(w, a) ==
  /\ pc[w] = "idle"
  /\ calls[w] < Calls
  /\ art' = [art EXCEPT ![w] = a]
  /\ calls' = [calls EXCEPT ![w] = @ + 1]
  /\ dialog' = [dialog EXCEPT ![w] = <<>>]
  /\ digests' = [digests EXCEPT ![w] = <<>>]
  /\ Keep(w, Absent)
  /\ GoTo(w, "lookup")
  /\ UNCHANGED <<config, files, disclosure, counters>>

Hit(w) ==
  /\ pc[w] = "lookup"
  /\ cache[art[w]] # Absent
  /\ art[w] \notin stale
  /\ Return(w)
  /\ UNCHANGED <<config, local, files, disclosure, counters>>

\* Mutant of Miss: the disclosure is left out.
MissUndisclosed(w) ==
  /\ pc[w] = "lookup"
  /\ cache[art[w]] = Absent \/ art[w] \in stale
  /\ GoTo(w, "cap")
  /\ UNCHANGED <<config, local, files, disclosure, counters>>

Miss(w) ==
  /\ pc[w] = "lookup"
  /\ cache[art[w]] = Absent \/ art[w] \in stale
  /\ GoTo(w, IF disclosed THEN "cap" ELSE "disclose")
  /\ UNCHANGED <<config, local, files, disclosure, counters>>

\* The test above and this assignment are not under a lock.
Disclose(w) ==
  /\ pc[w] = "disclose"
  /\ disclosed' = TRUE
  /\ disclosures' = disclosures + 1
  /\ GoTo(w, "cap")
  /\ UNCHANGED <<config, local, files, counters>>

\* Mutant of TryConsumeCap: off by one.
TryConsumeCapLate(w) ==
  /\ pc[w] = "cap"
  /\ IF consumed <= MaxFetches
     THEN consumed' = consumed + 1 /\ GoTo(w, "budget")
     ELSE Return(w) /\ UNCHANGED consumed
  /\ UNCHANGED <<config, local, files, disclosure, timeUp, online>>

\* _try_consume_cap tests and counts under the lock.
TryConsumeCap(w) ==
  /\ pc[w] = "cap"
  /\ IF consumed < MaxFetches
     THEN consumed' = consumed + 1 /\ GoTo(w, "budget")
     ELSE Return(w) /\ UNCHANGED consumed
  /\ UNCHANGED <<config, local, files, disclosure, timeUp, online>>

TimeBudget(w) ==
  /\ pc[w] = "budget"
  /\ IF timeUp
     THEN Return(w) /\ UNCHANGED online
     ELSE /\ GoTo(w, IF Checked THEN "primary" ELSE "ask")
          /\ online' = online + 1
  /\ UNCHANGED <<config, local, files, disclosure, consumed, timeUp>>

TimeRunsOut ==
  /\ ~ timeUp
  /\ timeUp' = TRUE
  /\ UNCHANGED <<config, pc, local, files, disclosure, consumed, online>>

\* The index that the priority loop asks next.  On the cross-check path only
\* the secondary is tried once the primary fell through.
NextIndex(w) == Len(dialog[w]) + 1
LastIndex == IF Checked THEN 2 ELSE indexes

\* Mutants of TryEndpoint: a refusal is followed by the next index; the loop
\* has no last index.
TryEndpointOnRefusal(w, ans) ==
  /\ pc[w] = "ask"
  /\ Hear(w, NextIndex(w), ans)
  /\ \/ /\ ans \notin Bytes /\ NextIndex(w) < LastIndex
        /\ GoTo(w, "ask") /\ UNCHANGED body
     \/ /\ ans \notin Bytes /\ NextIndex(w) >= LastIndex
        /\ Return(w) /\ UNCHANGED body
     \/ ans \in Bytes /\ GoTo(w, "checksum") /\ Keep(w, ans)
  /\ UNCHANGED <<config, art, calls, digests, files, disclosure, counters>>

TryEndpointAgain(w, ans) ==
  /\ pc[w] = "ask"
  /\ Hear(w, NextIndex(w), ans)
  /\ \/ ans = FallThrough /\ GoTo(w, "ask") /\ UNCHANGED body
     \/ ans = Refused /\ Return(w) /\ UNCHANGED body
     \/ ans \in Bytes /\ GoTo(w, "checksum") /\ Keep(w, ans)
  /\ UNCHANGED <<config, art, calls, digests, files, disclosure, counters>>

\* _try_endpoint, up to the checksum.
TryEndpoint(w, ans) ==
  /\ pc[w] = "ask"
  /\ Hear(w, NextIndex(w), ans)
  /\ \/ /\ ans = FallThrough /\ NextIndex(w) < LastIndex
        /\ GoTo(w, "ask") /\ UNCHANGED body
     \/ /\ ans = Refused \/ (ans = FallThrough /\ NextIndex(w) >= LastIndex)
        /\ Return(w) /\ UNCHANGED body
     \/ ans \in Bytes /\ GoTo(w, "checksum") /\ Keep(w, ans)
  /\ UNCHANGED <<config, art, calls, digests, files, disclosure, counters>>

\* One turn of the loop of _verify_checksum: the first digest that can be
\* retrieved decides; with none at all the body is accepted.
VerifyChecksum(w, d) ==
  /\ pc[w] = "checksum"
  /\ digests' = [digests EXCEPT ![w] = Append(@, d)]
  /\ \/ d = "absent" /\ Len(digests[w]) + 1 < Len(Algos) /\ GoTo(w, "checksum")
     \/ d = "absent" /\ Len(digests[w]) + 1 >= Len(Algos) /\ GoTo(w, "store")
     \/ d = "match" /\ GoTo(w, "store")
     \/ d = "mismatch" /\ Return(w)
  /\ UNCHANGED <<config, art, calls, dialog, body, files, disclosure, counters>>

\* _fetch_with_cross_check, first request.
AskPrimary(w, ans) ==
  /\ pc[w] = "primary"
  /\ Hear(w, 1, ans)
  /\ \/ ans = Refused /\ Return(w) /\ UNCHANGED body
     \/ ans = FallThrough /\ GoTo(w, "ask") /\ UNCHANGED body
     \/ ans \in Bytes /\ GoTo(w, "secondary") /\ Keep(w, ans)
  /\ UNCHANGED <<config, art, calls, digests, files, disclosure, counters>>

\* Mutant of AskSecondary: the bodies are not compared.
AskSecondaryTrusting(w, ans) ==
  /\ pc[w] = "secondary"
  /\ Hear(w, 2, ans)
  /\ GoTo(w, "store")
  /\ UNCHANGED <<config, art, calls, digests, body, files, disclosure, counters>>

\* Without a second body the primary's is stored; so it is when both agree.
AskSecondary(w, ans) ==
  /\ pc[w] = "secondary"
  /\ Hear(w, 2, ans)
  /\ GoTo(w, IF ans \in Bytes \ {body[w]} THEN "retry" ELSE "store")
  /\ UNCHANGED <<config, art, calls, digests, body, files, disclosure, counters>>

\* A secondary that still differs, or fails now, is an integrity mismatch: it is
\* reported (TS-INTEGRITY-MISMATCH) and nothing is stored.
RetrySecondary(w, ans) ==
  /\ pc[w] = "retry"
  /\ Hear(w, 2, ans)
  /\ IF ans = body[w] THEN GoTo(w, "store") ELSE Return(w)
  /\ UNCHANGED <<config, art, calls, digests, body, files, disclosure, counters>>

\* _write_cache raised no OSError.
Store(w) ==
  /\ pc[w] = "store"
  /\ cache' = [cache EXCEPT ![art[w]] = body[w]]
  /\ stale' = stale \ {art[w]}
  /\ GoTo(w, "evict")
  /\ UNCHANGED <<config, local, disclosure, counters>>

StoreFails(w) ==
  /\ pc[w] = "store"
  /\ Return(w)
  /\ UNCHANGED <<config, local, files, disclosure, counters>>

\* _enforce_cache_cap: everything past the TTL goes, then as many of the
\* others, in some order of last access, as exceed the cap.
Cached == {a \in Art : cache[a] # Absent}

EnforceCacheCap(w, left) ==
  /\ pc[w] = "evict"
  /\ left \subseteq Cached \ stale
  /\ IF Cardinality(Cached \ stale) <= CacheSize
     THEN left = Cached \ stale
     ELSE Cardinality(left) = CacheSize
  /\ cache' = [a \in Art |-> IF a \in left THEN cache[a] ELSE Absent]
  /\ stale' = {}
  /\ Return(w)
  /\ UNCHANGED <<config, art, calls, dialog, digests, body, disclosure, counters>>

\* Every worker has returned from its last call.
Finished == (\A w \in Worker : pc[w] = "idle" /\ calls[w] = Calls) /\ UNCHANGED vars

WorkerStep(w) ==
  \/ Hit(w) \/ Miss(w) \/ Disclose(w) \/ TryConsumeCap(w) \/ TimeBudget(w)
  \/ \E ans \in Answer :
       \/ TryEndpoint(w, ans) \/ AskPrimary(w, ans)
       \/ AskSecondary(w, ans) \/ RetrySecondary(w, ans)
  \/ \E d \in Digests : VerifyChecksum(w, d)
  \/ Store(w) \/ StoreFails(w)
  \/ \E left \in SUBSET Art : EnforceCacheCap(w, left)

Next ==
  \/ \E w \in Worker, a \in Art : Call(w, a)
  \/ \E w \in Worker : WorkerStep(w)
  \/ TimeRunsOut
  \/ Finished

Spec == Init /\ [][Next]_vars
----------------------------------------------------------------------------
PCs == {"idle", "lookup", "disclose", "cap", "budget", "ask", "checksum",
        "primary", "secondary", "retry", "store", "evict"}

ThreadTypes ==
  /\ pc \in [Worker -> PCs]
  /\ art \in [Worker -> Art]
  /\ calls \in [Worker -> 0..Calls]
  /\ dialog \in [Worker -> Seq(Requests)]
  /\ digests \in [Worker -> Seq(Digests)]
  /\ body \in [Worker -> Bytes \cup {Absent}]

FileTypes ==
  /\ cache \in [Art -> Bytes \cup {Absent}]
  /\ stale \in SUBSET Art

CounterTypes ==
  /\ disclosed \in BOOLEAN /\ disclosures \in Nat
  /\ consumed \in Nat /\ timeUp \in BOOLEAN /\ online \in Nat

TypeOK ==
  /\ indexes \in 1..MaxIndexes /\ crossCheck \in BOOLEAN
  /\ ThreadTypes /\ FileTypes /\ CounterTypes

\* SEC-NEW-61: an index is only asked when every index before it fell through
\* in the same fetch, so that a coordinate is not shown to an index of lower
\* priority than one that gave a status or a body.  The exception is the
\* cross-check, which asks the secondary about bytes the primary gave.  This is
\* weaker than the comment at fetcher.py:657, where no index is asked after one
\* that answered, over-cap bodies included: an answer that the client discards
\* falls through as a lost connection does (fetcher.py:796 and 874).
NoProbeAfterVerdict ==
  \A w \in Worker : \A i \in 1..Len(dialog[w]) :
    LET asked == dialog[w][i].index IN
    /\ asked <= indexes
    /\ \A k \in 1..asked - 1 :
         \E j \in 1..i - 1 :
           /\ dialog[w][j].index = k
           /\ \/ dialog[w][j].answer = FallThrough
              \/ Checked /\ k = 1 /\ dialog[w][j].answer \in Bytes

\* SEC-NEW-69 under concurrent workers: the cap bounds the fetches that reach
\* the network, whichever threads they come from.
CapHolds == online <= consumed /\ consumed <= MaxFetches

\* FR-263: no index learns of this machine before the disclosure is written.
DisclosedBeforeContact ==
  (\E w \in Worker : dialog[w] # <<>>) => disclosures > 0

\* With two indexes to compare, what a fetch stores is never a body that the
\* other index, asked last, contradicted; a fetch that reported an integrity
\* mismatch stores nothing.
Heard(w, i) == {dialog[w][j].answer : j \in {k \in 1..Len(dialog[w]) : dialog[w][k].index = i}}
Last(w) == dialog[w][Len(dialog[w])]

StoredIsUncontradicted ==
  \A w \in Worker :
    Checked /\ pc[w] \in {"store", "evict"} =>
      /\ Last(w).answer \notin Bytes \ {body[w]}
      /\ Heard(w, 1) \cap Bytes # {} => body[w] \in Heard(w, 1)
      /\ \A b \in Heard(w, 2) \cap (Bytes \ {body[w]}) : body[w] \in Heard(w, 2)

\* What is left of a fetch: the stages that come after its own and, within the
\* loops over indexes and digests, the requests that it may still make.
StagesAfter ==
  [l \in PCs |-> CASE l = "idle" -> 0 [] l = "evict" -> 1 [] l = "store" -> 2
                   [] l = "checksum" -> 3 [] l = "retry" -> 3 [] l = "ask" -> 4
                   [] l = "secondary" -> 4 [] l = "primary" -> 5 [] l = "budget" -> 6
                   [] l = "cap" -> 7 [] l = "disclose" -> 8 [] l = "lookup" -> 9]
RequestsLeft(w) == (MaxIndexes + 1 - Len(dialog[w])) + (Len(Algos) - Len(digests[w]))
Left(w) == StagesAfter[pc[w]] * (MaxIndexes + 1 + Len(Algos) + 1) + RequestsLeft(w)

Advances ==
  \A w \in Worker :
    WorkerStep(w) => Left(w)' < Left(w) /\ RequestsLeft(w)' >= 0

\* Every fetch returns, whatever the indexes answer: each step of a worker
\* leaves less to do, and less than a bound that the configuration fixes, so
\* that neither loop can turn for ever.
FetchAdvances == [][Advances]_vars
=============================================================================
