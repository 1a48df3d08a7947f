----------------------------- MODULE MCFetcher -----------------------------
(***************************************************************************)
(* Two worker threads, two calls each, two fetches allowed, two artefacts  *)
(* of which the cache may hold one; one to three indexes; with and without *)
(* the cross-check.  All the properties treat the workers, the artefacts   *)
(* and the bodies alike.                                                   *)
(***************************************************************************)
EXTENDS Fetcher, TLC

CONSTANTS w1, w2, a1, a2, b1, b2

MCWorker == {w1, w2}
MCArt == {a1, a2}
MCBytes == {b1, b2}
MCSymmetry == Permutations(MCWorker) \cup Permutations(MCArt) \cup Permutations(MCBytes)
=============================================================================
