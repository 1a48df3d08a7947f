---------------------------- MODULE AtomicCache ----------------------------
(***************************************************************************)
(* What the quarantined cache of indexing/fetcher.py promises its readers: *)
(* under the name of an artefact there is either nothing or the whole body *)
(* of some fetch of it, and it changes from one to the other in one step.  *)
(***************************************************************************)
CONSTANTS Art, Bytes, Absent

VARIABLE cache   \* what a reader finds under each artefact's name

Init == cache \in [Art -> Bytes \cup {Absent}]

Put(a, b) == cache' = [cache EXCEPT ![a] = b]

Evict(S) == cache' = [a \in Art |-> IF a \in S THEN Absent ELSE cache[a]]

Next == \/ \E a \in Art, b \in Bytes : Put(a, b)
        \/ \E S \in SUBSET Art : Evict(S)

Spec == Init /\ [][Next]_cache
=============================================================================
