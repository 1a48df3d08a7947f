---------------------------- MODULE MCMavenWalk ----------------------------
(***************************************************************************)
(* Four coordinates.  a is declared directly, x perhaps; the POMs of a and *)
(* b have up to two dependencies with a version, without one or with a     *)
(* broken one, cycles included; x has two versions, and a POM for each; y  *)
(* is at the end.  Text 3 is sanitised to 2, and names another POM; text 4 *)
(* is sanitised to nothing.  The node cap of three bites when all four are *)
(* visited.                                                                *)
(***************************************************************************)
EXTENDS MavenWalk

CONSTANTS a, b, x, y

MCCoord == {a, b, x, y}
MCVersion == 1..4
MCSanitised == [v \in MCVersion |-> CASE v = 3 -> 2 [] v = 4 -> NoVersion [] OTHER -> v]

Dep(c, v) == [coord |-> c, version |-> v]

PomsOfA == {{Dep(b, 1), Dep(x, v)} : v \in {1, 3, 4, NoVersion, Broken}} \cup {NoPom, {}}
PomsOfB == {{Dep(x, v), Dep(a, 1)} : v \in {1, 2, NoVersion, Broken}} \cup {NoPom}
PomsOfX == {NoPom, {Dep(b, 1), Dep(y, 1)}, {Dep(a, NoVersion)}}

MCPoms ==
  {[j \in MCCoord \X MCVersion |->
      CASE j[1] = a -> pa [] j[1] = b -> pb
        [] j = <<x, 1>> -> px [] j = <<x, 3>> -> {Dep(b, 2)}
        [] j = <<y, 1>> -> {Dep(b, 1)} [] OTHER -> {Dep(a, 2)}] :
     pa \in PomsOfA, pb \in PomsOfB, px \in PomsOfX}

MCDirect == {[c \in MCCoord |-> CASE c = a -> 1 [] c = x -> v [] OTHER -> None] :
               v \in {2, NoVersion, None}}

MCInputs ==
  {[direct |-> d, poms |-> p, exclusions |-> e, managed |-> m] :
     d \in MCDirect, p \in MCPoms, e \in {{}, {<<x, a>>}},
     m \in {{}, {a, x}}}
=============================================================================
