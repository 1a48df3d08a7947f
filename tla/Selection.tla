------------------------------ MODULE Selection ------------------------------
(***************************************************************************)
(* Filters of a sequence by position and by test.  Where is SelectSeq, in  *)
(* a form that says which element stands at which place.                   *)
(***************************************************************************)
EXTENDS Naturals, Sequences, FiniteSets

\* How many of the positions I come up to i.
Rank(I, i) == Cardinality({j \in I : j <= i})

\* The elements of s at the positions I, in their order.
At(s, I) == [n \in 1..Cardinality(I) |-> s[CHOOSE i \in I : Rank(I, i) = n]]

Where(s, Test(_)) == At(s, {i \in DOMAIN s : Test(s[i])})
=============================================================================
