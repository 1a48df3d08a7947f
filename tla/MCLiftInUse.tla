---------------------------- MODULE MCLiftInUse ----------------------------
(***************************************************************************)
(* Two ecosystems merged into one run.  d1 is a PyPI dependency named a;   *)
(* d2 is an npm dependency named b; d3 is an npm dependency named c, or a  *)
(* as well.  The PyPI graph is empty or has the one edge a -> b.  The npm  *)
(* graph is any over the three names, cycles and self-loops included, but  *)
(* for the self-loop of c.  With d3 named c and an empty PyPI graph this   *)
(* is a single ecosystem with distinct names.                              *)
(***************************************************************************)
EXTENDS LiftInUse

CONSTANTS a, b, c, d1, d2, d3, npm, pypi

MCNames == {a, b, c}
MCDeps == {d1, d2, d3}
MCEcos == {npm, pypi}

\* <<status, isTransitive, pinOverride>>.  d2 takes each verdict that the sweep
\* may change with each flag, and one that it must leave alone.
VerdictsOf(d) ==
  CASE d = d1 -> {<<"SAFE", FALSE, FALSE>>, <<"IN_USE", FALSE, FALSE>>}
    [] d = d2 -> {<<"SAFE", FALSE, FALSE>>, <<"SAFE", TRUE, FALSE>>, <<"SAFE", FALSE, TRUE>>,
                  <<"IN_USE", FALSE, FALSE>>, <<"UNCERTAIN", FALSE, FALSE>>}
    [] d = d3 -> {<<"SAFE", FALSE, FALSE>>, <<"IN_USE", FALSE, FALSE>>,
                  <<"UNDECLARED", FALSE, FALSE>>}

Verdicts == {v \in [MCDeps -> UNION {VerdictsOf(d) : d \in MCDeps}] :
               \A d \in MCDeps : v[d] \in VerdictsOf(d)}

Decl(name3, v) ==
  [d \in MCDeps |->
     [name |-> CASE d = d1 -> a [] d = d2 -> b [] d = d3 -> name3,
      eco |-> IF d = d1 THEN pypi ELSE npm,
      status |-> v[d][1], isTransitive |-> v[d][2], pinOverride |-> v[d][3]]]

MCInputs ==
  {[decl |-> Decl(name3, v),
    subgraphs |-> [e \in MCEcos |->
      IF e = npm THEN g
      ELSE [n \in MCNames |-> IF n = a THEN children ELSE {}]]] :
     name3 \in {a, c}, v \in Verdicts, children \in {{}, {b}},
     g \in {h \in [MCNames -> SUBSET MCNames] : c \notin h[c]}}
=============================================================================
