---------------------------- MODULE MCAbiDiffer ----------------------------
(***************************************************************************)
(* The pool: two threads and three items; c1 is declared in versions 1 and *)
(* 2 and c2 in version 1, both resolved to 3.  Two classes, of which one   *)
(* is past the cut of a JAR that has both; a JAR of version 3 of either    *)
(* coordinate may hold what c1 lost.                                       *)
(*                                                                         *)
(* signature_diff, which Compare calls once per item: every pair of        *)
(* surfaces over two members, two descriptors and two shapes.  It is a     *)
(* function of the two surfaces, so it is checked on its own, while the    *)
(* pool waits with empty JARs, and not in every state of the pool.         *)
(***************************************************************************)
EXTENDS AbiDiffer, SignatureDiff

CONSTANTS c1, c2, w1, w2, m1, m2, d1, d2, s1, s2

Entry(c, v) == [coord |-> c, version |-> v, resolved |-> v = 3]

MCWorker == {w1, w2}
MCCoord == {c1, c2}
MCVersion == 1..3
MCNodes == <<Entry(c1, 1), Entry(c2, 3), Entry(c1, 3), Entry(c2, 1), Entry(c1, 2)>>
MCMulti == {c1, c2}
MCMember == {m1, m2}
MCDescriptor == {d1, d2}
MCShape == {s1, s2}

Jars(others, declaredOf1, resolvedOf1, resolvedOf2) ==
  [j \in MCCoord \X MCVersion |->
     CASE j = <<c1, 3>> -> resolvedOf1
       [] j = <<c2, 3>> -> resolvedOf2
       [] j[1] = c1 -> declaredOf1
       [] OTHER -> others]

Places(declaredOf1, resolvedJars) ==
  [j \in MCCoord \X MCVersion |->
     IF j[2] = 3 THEN resolvedJars[j[1]] ELSE IF j = <<c1, 1>> THEN declaredOf1 ELSE "m2"]

AllLocal == [j \in MCCoord \X MCVersion |-> "m2"]

\* Every content of the JARs of c1 and of the resolved JAR of c2.
MCInputs ==
  {[classes |-> Jars({1}, inD, in1, in2), place |-> Places(p, q)] :
     inD \in SUBSET {1, 2}, in1 \in SUBSET {1, 2}, in2 \in SUBSET {1, 2},
     p \in {"m2", "index"}, q \in [MCCoord -> {"m2", "index", "nowhere"}]}

IndexFaults == {"index"}
----------------------------------------------------------------------------
PoolRests == classes = Jars({1}, {}, {}, {}) /\ place = AllLocal /\ phase = "index"
DiffRests == declared = {} /\ resolved = {} /\ done = FALSE /\ result = NoDifference

MCInit ==
  \/ Init /\ DiffRests
  \/ Init /\ PoolRests /\ DiffInit

MCNext ==
  \/ DiffRests /\ Next /\ UNCHANGED diffVars
  \/ PoolRests /\ DiffNext /\ UNCHANGED vars

MCSpec == MCInit /\ [][MCNext]_<<vars, diffVars>>
=============================================================================
