---------------------------- MODULE MCJavaReport ----------------------------
(***************************************************************************)
(* Two coordinates, two versions beside None, at most three edges: enough  *)
(* for three versions of one coordinate, so that a cap of two drops one;   *)
(* for a root with a chain of two below it; and for a cycle between the    *)
(* two.  Version 2 stands for a range that accepts 1 as well.              *)
(***************************************************************************)
EXTENDS JavaReport

CONSTANTS a, b

MCCoord == {a, b}
MCVersion == {1, 2}
MCCovers == {<<2, 1>>}

EdgeSets ==
  LET All == [parent: MCCoord \cup {Root}, child: MCCoord, version: MCVersion \cup {NoVersion}]
  IN {{x, y, z} : x \in All, y \in All, z \in All}

Dir(s, r, p, m) == [status |-> s, registered |-> r, pin |-> p, redundant |-> m]

Directs ==
  {NoDep, Dir("SAFE", TRUE, "none", FALSE), Dir("SAFE", FALSE, "none", FALSE),
   Dir("SAFE", TRUE, "static", FALSE), Dir("SAFE", TRUE, "dynamic", FALSE),
   Dir("SAFE", TRUE, "none", TRUE), Dir("IN_USE", TRUE, "none", FALSE),
   Dir("UNCERTAIN", TRUE, "none", FALSE)}

MCInputs ==
  [deps: [MCCoord -> Directs], edges: EdgeSets,
   resolved: {[c \in MCCoord |-> IF c = a THEN v ELSE NoVersion] :
                v \in MCVersion \cup {NoVersion}}]
=============================================================================
