---------------------------- MODULE MCCacheStore ----------------------------
(***************************************************************************)
(* Two workers, two calls each, that may fetch the same two artefacts; the *)
(* cache holds one file.  One body is enough: whole or not is all that the *)
(* properties see of it.  Nothing tells the workers apart.                 *)
(***************************************************************************)
EXTENDS CacheStore, TLC

CONSTANTS w1, w2, a1, a2, b1

MCWorker == {w1, w2}
MCArt == {a1, a2}
MCBytes == {b1}
Workers == Permutations(MCWorker)
=============================================================================
