--------------------------- MODULE ScarnoRunProofs ---------------------------
(***************************************************************************)
(* What a run says is what was found, whatever the analysers return, the   *)
(* templates load and the operator asks: nothing is lost on the way to the *)
(* report, nothing in it is SAFE that something IN_USE requires, and the   *)
(* exit code fits it.  The indexes of an ecosystem are those of one        *)
(* source.  And every connection a run makes was vetted at its own hop,    *)
(* for all settings, indexes, name services and servers, and any number of *)
(* redirects.                                                              *)
(*                                                                         *)
(* The invariants are RunTypes (what is there when), SweptInv (the sweep   *)
(* has been made once there is a report), AccountInv (what is merged and   *)
(* what is to come make the whole), ExitInv, OwnerInv (what each source    *)
(* has said by now) and VettedInv.                                         *)
(***************************************************************************)
EXTENDS ScarnoRun, FiniteSetTheorems, SequenceTheorems, WellFoundedInduction, TLAPS

(* Sequences and graphs. *)

\* A set of numbers that is not empty has a least element.
LEMMA LeastNumber ==
  ASSUME NEW S \in SUBSET Nat, S # {}
  PROVE  \E m \in S : \A n \in S : m <= n
<1>. DEFINE R == {ss \in Nat \X Nat : ss[1] < ss[2]}
<1>1. IsWellFoundedOn(R, Nat)
  BY NatLessThanWellFounded DEF OpToRel
<1>2. \A n, m \in Nat : <<n, m>> \in R <=> n < m
  OBVIOUS
<1>. HIDE DEF R
<1>3. PICK m \in S : \A n \in S : ~ (<<n, m>> \in R)
  BY <1>1, WFMin
<1>4. ASSUME NEW n \in S PROVE m <= n
  <2>1. n \in Nat /\ m \in Nat
    OBVIOUS
  <2>2. ~ (n < m)
    BY <2>1, <1>2, <1>3
  <2>. QED BY <2>1, <2>2
<1>. QED BY <1>4

\* The ranks of a finite set of positions are 1, 2, ..., in their order, and
\* At puts the element at a position where its rank says.
LEMMA RankOrder ==
  ASSUME NEW I \in SUBSET Nat, IsFiniteSet(I)
  PROVE  /\ Cardinality(I) \in Nat
         /\ \A i \in I : Rank(I, i) \in 1..Cardinality(I)
         /\ \A i, j \in I : i < j => Rank(I, i) < Rank(I, j)
         /\ \A n \in 1..Cardinality(I) : \E i \in I : Rank(I, i) = n
<1> DEFINE Upto(i) == {j \in I : j <= i}
<1>1. Cardinality(I) \in Nat
  BY FS_CardinalityType
<1>2. \A i : IsFiniteSet(Upto(i)) /\ Cardinality(Upto(i)) \in Nat /\ Cardinality(Upto(i)) <= Cardinality(I)
  BY FS_Subset, FS_CardinalityType
<1>3. \A i \in I : Upto(i) # {}
  OBVIOUS
<1>4. \A i \in I : Cardinality(Upto(i)) # 0
  BY <1>2, <1>3, FS_EmptySet
<1>5. \A i : Rank(I, i) = Cardinality(Upto(i))
  BY DEF Rank
<1>6. \A i \in I : Rank(I, i) \in 1..Cardinality(I)
  <2> HIDE DEF Upto
  <2> QED
    BY <1>1, <1>2, <1>4, <1>5
<1>7. ASSUME NEW i \in I, NEW j \in I, i < j PROVE Rank(I, i) < Rank(I, j)
  <2>1. /\ i \in Nat /\ j \in Nat /\ ~ j <= i
        /\ \A m \in Nat : m <= i => m <= j
    BY <1>7
  <2>2. Upto(i) \subseteq Upto(j)
    <3>1. ASSUME NEW m \in Upto(i) PROVE m \in Upto(j)
      <4>1. m \in I /\ m \in Nat /\ m <= i
        OBVIOUS
      <4>2. m <= j
        BY <2>1, <4>1
      <4> QED
        BY <4>1, <4>2
    <3> QED
      BY <3>1
  <2>3. j <= j
    BY <2>1
  <2>4. j \in Upto(j) /\ j \notin Upto(i)
    BY <2>1, <2>3
  <2>5. Upto(i) # Upto(j)
    BY <2>4
  <2> HIDE DEF Upto
  <2>6. Cardinality(Upto(i)) <= Cardinality(Upto(j)) /\ Cardinality(Upto(i)) # Cardinality(Upto(j))
    BY <1>2, <2>2, <2>5, FS_Subset
  <2> QED
    BY <1>2, <1>5, <2>6
<1>8. ASSUME NEW n \in 1..Cardinality(I) PROVE \E i \in I : Rank(I, i) = n
  <2> DEFINE f == [i \in I |-> Rank(I, i)]
             N == 1..Cardinality(I)
  <2>1. f \in [I -> N]
    BY <1>6
  <2>2. \A i, j \in I : i # j => f[i] # f[j]
    <3>1. \A i \in I : Rank(I, i) \in Nat
      BY <1>1, <1>6
    <3> QED
      BY <1>7, <3>1
  <2>3. f \in Injection(I, N)
    BY <2>1, <2>2 DEF Injection, IsInjective
  <2>4. IsFiniteSet(N) /\ Cardinality(N) = Cardinality(I)
    BY <1>1, FS_Interval
  <2> HIDE DEF N
  <2>5. f \in Surjection(I, N)
    BY <2>3, <2>4, FS_Injection
  <2> QED
    BY <2>5 DEF Surjection, N
<1> QED
  BY <1>1, <1>6, <1>7, <1>8

\* What stands in a filtered sequence, and where.
LEMMA AtPositions ==
  ASSUME NEW s, NEW I \in SUBSET Nat, IsFiniteSet(I)
  PROVE  /\ Len(At(s, I)) = Cardinality(I) /\ DOMAIN At(s, I) = 1..Cardinality(I)
         /\ \A i \in I : At(s, I)[Rank(I, i)] = s[i]
         /\ Range(At(s, I)) = {s[i] : i \in I}
<1>1. /\ Cardinality(I) \in Nat
      /\ \A i \in I : Rank(I, i) \in 1..Cardinality(I)
      /\ \A i, j \in I : i < j => Rank(I, i) < Rank(I, j)
      /\ \A n \in 1..Cardinality(I) : \E i \in I : Rank(I, i) = n
  BY RankOrder
<1>2. \A i, j \in I : Rank(I, i) = Rank(I, j) => i = j
  <2> SUFFICES ASSUME NEW i \in I, NEW j \in I, Rank(I, i) = Rank(I, j), i # j PROVE FALSE
    OBVIOUS
  <2>1. i < j \/ j < i
    OBVIOUS
  <2>2. Rank(I, i) \in Nat /\ Rank(I, j) \in Nat
    BY <1>1
  <2> QED
    BY <1>1, <2>1, <2>2
<1>3. DOMAIN At(s, I) = 1..Cardinality(I) /\ Len(At(s, I)) = Cardinality(I)
  BY <1>1 DEF At
<1>4. \A n \in 1..Cardinality(I) : At(s, I)[n] = s[CHOOSE i \in I : Rank(I, i) = n]
  BY DEF At
<1>5. ASSUME NEW i \in I PROVE At(s, I)[Rank(I, i)] = s[i]
  <2>1. (CHOOSE j \in I : Rank(I, j) = Rank(I, i)) = i
    BY <1>2
  <2> QED
    BY <1>1, <1>4, <2>1
<1>6. Range(At(s, I)) = {s[i] : i \in I}
  BY <1>1, <1>3, <1>5 DEF Range
<1> QED
  BY <1>3, <1>5, <1>6

\* A filtered sequence has the elements that pass the test.
LEMMA AtIsSeq ==
  ASSUME NEW X, NEW s \in Seq(X), NEW I \in SUBSET DOMAIN s
  PROVE  /\ At(s, I) \in Seq(X)
         /\ Range(At(s, I)) = {s[i] : i \in I}
<1>1. I \in SUBSET Nat /\ IsFiniteSet(I)
  <2>1. DOMAIN s = 1..Len(s) /\ Len(s) \in Nat
    OBVIOUS
  <2>2. IsFiniteSet(DOMAIN s)
    BY <2>1, FS_Interval
  <2> QED
    BY <2>1, <2>2, FS_Subset
<1>2. /\ DOMAIN At(s, I) = 1..Cardinality(I) /\ Range(At(s, I)) = {s[i] : i \in I}
  BY <1>1, AtPositions
<1>3. \A n \in 1..Cardinality(I) : At(s, I)[n] \in X
  BY <1>2 DEF Range
<1>4. Cardinality(I) \in Nat
  BY <1>1, FS_CardinalityType
<1>5. At(s, I) = [n \in 1..Cardinality(I) |-> At(s, I)[n]]
  BY DEF At
<1> QED
  BY <1>2, <1>3, <1>4, <1>5

\* A concatenation of sequences is made from the left, one after the other.
LEMMA FlattenUnfolds ==
  ASSUME NEW X, NEW seqs \in Seq(Seq(X)), seqs # <<>>
  PROVE  \E flat :
           /\ flat[1] = seqs[1]
           /\ \A i \in 2..Len(seqs) : flat[i] = flat[i - 1] \o seqs[i]
           /\ \A i \in 1..Len(seqs) : flat[i] \in Seq(X)
           /\ FlattenSeq(seqs) = flat[Len(seqs)]
<1> DEFINE L == Len(seqs)
           Rec(f, i) == IF i = 1 THEN seqs[i] ELSE f[i - 1] \o seqs[i]
           Good(n, f) == f = [i \in 1..n |-> Rec(f, i)]
           flat == CHOOSE f : Good(L, f)
           Bad == {n \in Nat : n > 0 /\ ~ \E f : Good(n, f)}
<1>1. Bad = {}
  <2> SUFFICES ASSUME Bad # {} PROVE FALSE
    OBVIOUS
  <2>1. PICK n \in Bad : \A m \in Bad : n <= m
    BY LeastNumber
  <2>2. n # 1
    <3>1. [i \in 1..1 |-> seqs[1]] = [i \in 1..1 |-> Rec([j \in 1..1 |-> seqs[1]], i)]
      OBVIOUS
    <3> QED
      BY <3>1
  <2>3. n \in Nat /\ n > 0 /\ n - 1 \in Nat /\ n - 1 > 0 /\ ~ n <= n - 1
    <3>1. n \in Nat /\ n > 0
      OBVIOUS
    <3> QED
      BY <2>2, <3>1
  <2>4. n - 1 \notin Bad
    BY <2>1, <2>3
  <2>5. PICK f : Good(n - 1, f)
    <3> HIDE DEF Good
    <3> QED
      BY <2>3, <2>4
  <2> DEFINE g == [i \in 1..n |-> IF i = n THEN f[n - 1] \o seqs[n] ELSE f[i]]
  <2>6. \A i \in 1..(n - 1) : f[i] = Rec(f, i)
    BY <2>5
  <2>7. \A i \in 1..n : g[i] = Rec(g, i)
    BY <2>1, <2>2, <2>3, <2>6
  <2>8. Good(n, g)
    <3> HIDE DEF Rec
    <3> QED
      BY <2>7
  <2> QED
    BY <2>1, <2>8
<1>2. L \in Nat /\ L > 0
  OBVIOUS
<1>3. Good(L, flat)
  BY <1>1, <1>2
<1>4. FlattenSeq(seqs) = flat[L]
  BY <1>2 DEF FlattenSeq
<1> HIDE DEF flat
<1>5. \A i \in 1..L : flat[i] = Rec(flat, i)
  BY <1>3
<1> DEFINE Off == {i \in 1..L : flat[i] \notin Seq(X)}
<1>6. Off = {}
  <2> SUFFICES ASSUME Off # {} PROVE FALSE
    OBVIOUS
  <2>1. Off \in SUBSET Nat
    BY <1>2
  <2> HIDE DEF Off
  <2>2. PICK i \in Off : \A m \in Off : i <= m
    BY <2>1, LeastNumber
  <2>3. i \in 1..L /\ seqs[i] \in Seq(X) /\ flat[i] \notin Seq(X)
    BY <2>2 DEF Off
  <2>4. i # 1
    BY <1>5, <2>3
  <2>5. i - 1 \in 1..L /\ ~ i <= i - 1
    BY <1>2, <2>3, <2>4
  <2>6. i - 1 \notin Off
    BY <2>2, <2>5
  <2>7. flat[i - 1] \in Seq(X)
    BY <2>5, <2>6 DEF Off
  <2>8. flat[i] = flat[i - 1] \o seqs[i]
    BY <1>5, <2>3, <2>4
  <2>9. flat[i - 1] \o seqs[i] \in Seq(X)
    BY <2>3, <2>7
  <2> QED
    BY <2>3, <2>8, <2>9
<1>7. 1 \in 1..L /\ \A i \in 2..L : i \in 1..L /\ i # 1
  BY <1>2
<1>8. flat[1] = seqs[1] /\ \A i \in 2..L : flat[i] = flat[i - 1] \o seqs[i]
  BY <1>5, <1>7
<1> QED
  BY <1>4, <1>6, <1>8

\* The concatenation of sequences of X is one.
LEMMA FlattenIsSeq ==
  ASSUME NEW X, NEW seqs \in Seq(Seq(X))
  PROVE  FlattenSeq(seqs) \in Seq(X)
<1>1. CASE seqs = <<>>
  BY <1>1 DEF FlattenSeq
<1>2. CASE seqs # <<>>
  <2>1. Len(seqs) \in 1..Len(seqs)
    BY <1>2
  <2> QED
    BY <1>2, <2>1, FlattenUnfolds
<1> QED
  BY <1>1, <1>2

\* What a concatenation holds.
LEMMA RangeOfConcat ==
  ASSUME NEW X, NEW s \in Seq(X), NEW t \in Seq(X)
  PROVE  s \o t \in Seq(X) /\ Range(s \o t) = Range(s) \cup Range(t)
<1>1. s \o t \in Seq(X)
  OBVIOUS
<1>2. /\ DOMAIN s = 1..Len(s) /\ DOMAIN t = 1..Len(t) /\ DOMAIN (s \o t) = 1..(Len(s) + Len(t))
      /\ Len(s) \in Nat /\ Len(t) \in Nat
  OBVIOUS
<1>3. /\ \A i \in 1..Len(s) : (s \o t)[i] = s[i] /\ i \in 1..(Len(s) + Len(t))
      /\ \A i \in 1..Len(t) : (s \o t)[Len(s) + i] = t[i] /\ Len(s) + i \in 1..(Len(s) + Len(t))
  BY <1>2
<1>4. \A i \in 1..(Len(s) + Len(t)) : (s \o t)[i] \in Range(s) \cup Range(t)
  <2>1. \A i \in 1..(Len(s) + Len(t)) :
           IF i <= Len(s) THEN i \in 1..Len(s) ELSE i - Len(s) \in 1..Len(t) /\ Len(s) + (i - Len(s)) = i
    BY <1>2
  <2> QED
    BY <1>2, <1>3, <2>1 DEF Range
<1>5. Range(s) \cup Range(t) \subseteq Range(s \o t)
  BY <1>2, <1>3 DEF Range
<1>6. Range(s \o t) \subseteq Range(s) \cup Range(t)
  BY <1>2, <1>4 DEF Range
<1> QED
  BY <1>1, <1>5, <1>6

\* What is taken off a sequence is the rest of it.
LEMMA RangeOfHeadTail ==
  ASSUME NEW X, NEW s \in Seq(X), s # <<>>
  PROVE  Head(s) \in X /\ Tail(s) \in Seq(X) /\ Range(s) = {Head(s)} \cup Range(Tail(s))
<1>1. /\ DOMAIN s = 1..Len(s) /\ Len(s) \in Nat /\ Len(s) > 0 /\ Head(s) = s[1]
      /\ Tail(s) \in Seq(X) /\ Len(Tail(s)) = Len(s) - 1 /\ DOMAIN Tail(s) = 1..(Len(s) - 1)
      /\ \A i \in 1..(Len(s) - 1) : Tail(s)[i] = s[i + 1]
  OBVIOUS
<1>2. \A i \in 1..Len(s) : i = 1 \/ (i - 1 \in 1..(Len(s) - 1) /\ (i - 1) + 1 = i)
  BY <1>1
<1>3. 1 \in 1..Len(s) /\ \A i \in 1..(Len(s) - 1) : i + 1 \in 1..Len(s)
  BY <1>1
<1>4. Range(s) \subseteq {Head(s)} \cup Range(Tail(s))
  <2>1. \A i \in 1..Len(s) : i # 1 => i - 1 \in DOMAIN Tail(s) /\ Tail(s)[i - 1] = s[(i - 1) + 1] /\ (i - 1) + 1 = i
    BY <1>1, <1>2
  <2>2. \A i \in 1..Len(s) : i # 1 => i - 1 \in DOMAIN Tail(s) /\ Tail(s)[i - 1] = s[i]
    BY <2>1
  <2>3. \A i \in 1..Len(s) : s[i] = Head(s) \/ s[i] \in Range(Tail(s))
    <3>1. \A i \in DOMAIN Tail(s) : Tail(s)[i] \in Range(Tail(s))
      BY DEF Range
    <3> QED
      BY <1>1, <2>2, <3>1
  <2> QED
    BY <1>1, <2>3 DEF Range
<1>5. {Head(s)} \cup Range(Tail(s)) \subseteq Range(s)
  BY <1>1, <1>3 DEF Range
<1> QED
  BY <1>1, <1>3, <1>4, <1>5

\* What lies below a set of names is closed under the edges of the graph: the
\* search for it grows a finite set until it does not grow any more.
LEMMA BelowIsClosed ==
  ASSUME NEW g, IsFiniteSet(NamesOf(g)), NEW S \in SUBSET NamesOf(g)
  PROVE  /\ Below(g, S) \subseteq NamesOf(g)
         /\ S \subseteq Below(g, S)
         /\ \A e \in g : e[1] \in Below(g, S) => e[2] \in Below(g, S)
<1> DEFINE V == NamesOf(g)
           Grow(X) == X \cup Children(g, X)
           Closed(X) == Children(g, X) \subseteq X
           Rec(f, X) == IF Grow(X) = X THEN X ELSE f[Grow(X)]
           least == [X \in SUBSET V |-> {v \in V : \A Z \in SUBSET V : X \subseteq Z /\ Closed(Z) => v \in Z}]
           reach == CHOOSE f : f = [X \in SUBSET V |-> Rec(f, X)]
<1>0. /\ \A X : Children(g, X) \subseteq V
      /\ \A X, Z : X \subseteq Z => Children(g, X) \subseteq Children(g, Z)
  BY DEF NamesOf, Children
<1>1. \A X \in SUBSET V : Grow(X) \in SUBSET V
  BY <1>0
<1>2. \A X \in SUBSET V : Grow(X) = X => least[X] = X
  OBVIOUS
<1>3. \A X \in SUBSET V : \A Z : X \subseteq Z /\ Closed(Z) <=> Grow(X) \subseteq Z /\ Closed(Z)
  BY <1>0
<1>4. \A X \in SUBSET V : least[X] = least[Grow(X)]
  <2> DEFINE Above(X) == {Z \in SUBSET V : X \subseteq Z /\ Closed(Z)}
             Meet(W) == {v \in V : \A Z \in W : v \in Z}
  <2>1. \A X \in SUBSET V : least[X] = Meet(Above(X))
    OBVIOUS
  <2>2. \A X \in SUBSET V : Above(X) = Above(Grow(X))
    BY <1>3
  <2> HIDE DEF least, Above, Meet
  <2> QED
    BY <1>1, <2>1, <2>2
<1>5. least = [X \in SUBSET V |-> Rec(least, X)]
  <2>1. \A X \in SUBSET V : least[X] = Rec(least, X)
    BY <1>2, <1>4
  <2> QED
    BY <2>1
<1>6. reach = [X \in SUBSET V |-> Rec(reach, X)]
  <2> HIDE DEF Rec, least
  <2> QED
    BY <1>5
<1>7. Below(g, S) = reach[S]
  BY DEF Below
<1> HIDE DEF reach
<1> DEFINE Good(X) == X \subseteq reach[X] /\ reach[X] \subseteq V /\ Closed(reach[X])
           Bad == {X \in SUBSET V : ~ Good(X)}
           Sizes == {Cardinality(V \ X) : X \in Bad}
<1>8. Bad = {}
  <2> SUFFICES ASSUME Bad # {} PROVE FALSE
    OBVIOUS
  <2>1. \A X \in SUBSET V : IsFiniteSet(V \ X) /\ Cardinality(V \ X) \in Nat
    BY FS_Subset, FS_CardinalityType
  <2>2. Sizes \in SUBSET Nat /\ Sizes # {}
    BY <2>1
  <2>3. PICK n \in Sizes : \A m \in Sizes : n <= m
    BY <2>2, LeastNumber
  <2>4. PICK X \in Bad : Cardinality(V \ X) = n
    BY <2>3
  <2>5. reach[X] = IF Grow(X) = X THEN X ELSE reach[Grow(X)]
    BY <1>6
  <2>6. CASE Grow(X) = X
    BY <2>5, <2>6
  <2>7. CASE Grow(X) # X
    <3>1. PICK v \in Grow(X) : v \notin X
      BY <2>7
    <3>2. Grow(X) \in SUBSET V /\ v \in V
      BY <1>1, <3>1
    <3>3. V \ Grow(X) \subseteq V \ X /\ V \ Grow(X) # V \ X
      BY <3>1, <3>2
    <3>4. Cardinality(V \ Grow(X)) < Cardinality(V \ X)
      <4>1. \A A, B : IsFiniteSet(A) /\ B \subseteq A /\ B # A
                      /\ Cardinality(A) \in Nat /\ Cardinality(B) \in Nat
                      => Cardinality(B) < Cardinality(A)
        BY FS_Subset
      <4> QED
        BY <2>1, <3>2, <3>3, <4>1
    <3>5. Grow(X) \notin Bad
      <4>1. \A Y \in Bad : Cardinality(V \ Y) \in Sizes /\ n <= Cardinality(V \ Y)
        BY <2>3
      <4>2. n \in Nat /\ Cardinality(V \ Grow(X)) \in Nat
        BY <2>1, <2>2, <3>2
      <4> HIDE DEF Bad, Grow, Sizes
      <4> QED
        BY <2>4, <3>4, <4>1, <4>2
    <3>6. reach[X] = reach[Grow(X)]
      BY <2>5, <2>7
    <3> QED
      BY <3>2, <3>5, <3>6
  <2> QED
    BY <2>6, <2>7
<1>9. S \subseteq reach[S] /\ reach[S] \subseteq V /\ Closed(reach[S])
  BY <1>8
<1> QED
  BY <1>7, <1>9 DEF Children

-----------------------------------------------------------------------------
(* The run as a whole. *)

\* A step of the process is a step of the pipeline, the end of the run in the
\* fetcher, or leaves the pipeline alone.
LEMMA StepOfTheRun ==
  ASSUME [SNext]_svars
  PROVE  Step \/ FetchRaises \/ UNCHANGED vars
BY DEF SNext, RemoteStep, PipelineStep, Returned, svars

\* What the variables hold, and what is not there yet.
RunTypes ==
  /\ in \in Runs
  /\ pc \in {"args", "path", "detect", "analyse", "html", "audit", "filter", "lift",
             "render", "write", "exit", "done"}
  /\ types \in Seq(Range(LanguageOrder))
  /\ left \in Seq(Registered)
  /\ deps \in Seq(Dependency)
  /\ findings \in Seq(Finding)
  /\ IsFiniteSet(NamesOf(graph))
  /\ pc \in {"args", "path", "detect"} => deps = <<>> /\ findings = <<>> /\ types = <<>>
  /\ pc = "done" \/ exit = 9
  /\ pc \in {"exit", "done"} \/ written = <<"nowhere">>
  /\ IF report = <<>> THEN pc \notin {"write", "exit"}
     ELSE pc \in {"write", "exit", "done"} /\ Len(report) = 1 /\ report[1].deps = deps

\* The languages of a run come from the fixed list of detectors, and those that
\* run are the registered ones among the detected.
LEMMA LanguageTypes ==
  ASSUME RunTypes
  PROVE  /\ DetectedTypes \in Seq(Range(LanguageOrder))
         /\ \A ts \in Seq(Range(LanguageOrder)) :
              /\ Filtered(ts) \in Seq(Range(LanguageOrder))
              /\ Runnable(ts) \in Seq(Registered)
              /\ Range(Runnable(ts)) = {ts[i] : i \in DOMAIN ts} \cap Registered
<1>1. LanguageOrder \in Seq(Range(LanguageOrder))
  <2>1. LanguageOrder = [i \in 1..6 |-> LanguageOrder[i]]
    BY DEF LanguageOrder
  <2>2. DOMAIN LanguageOrder = 1..6 /\ \A i \in 1..6 : LanguageOrder[i] \in Range(LanguageOrder)
    BY DEF LanguageOrder, Range
  <2> HIDE DEF LanguageOrder
  <2> QED
    BY <2>1, <2>2
<1>2. DetectedTypes \in Seq(Range(LanguageOrder))
  <2>1. \A I \in SUBSET DOMAIN LanguageOrder : At(LanguageOrder, I) \in Seq(Range(LanguageOrder))
    BY <1>1, AtIsSeq
  <2>2. Where(LanguageOrder, Detected) \in Seq(Range(LanguageOrder))
    BY <2>1 DEF Where
  <2>3. <<>> \in Seq(Range(LanguageOrder))
    OBVIOUS
  <2> QED
    BY <2>2, <2>3 DEF DetectedTypes
<1>3. ASSUME NEW ts \in Seq(Range(LanguageOrder))
      PROVE  /\ Filtered(ts) \in Seq(Range(LanguageOrder))
             /\ Runnable(ts) \in Seq(Registered)
             /\ Range(Runnable(ts)) = {ts[i] : i \in DOMAIN ts} \cap Registered
  <2>1. Filtered(ts) \in Seq(Range(LanguageOrder))
    BY AtIsSeq DEF Filtered, Where
  <2> DEFINE I == {i \in DOMAIN ts : ts[i] \in Registered}
  <2>2. Runnable(ts) = At(ts, I)
    BY DEF Runnable, Where
  <2>3. At(ts, I) \in Seq(Range(LanguageOrder)) /\ Range(At(ts, I)) = {ts[i] : i \in I}
    BY AtIsSeq
  <2>4. Range(Runnable(ts)) = {ts[i] : i \in DOMAIN ts} \cap Registered
    BY <2>2, <2>3
  <2>5. \A i \in DOMAIN Runnable(ts) : Runnable(ts)[i] \in Registered
    BY <2>4 DEF Range
  <2> QED
    BY <2>1, <2>2, <2>3, <2>4, <2>5
<1> QED
  BY <1>2, <1>3

\* The names that templates load, and what is said of them.
LEMMA TemplateTypes ==
  ASSUME RunTypes
  PROVE  /\ LoadedByTemplates \in Seq(STRING)
         /\ LoadedByIgnored \in Seq(STRING)
         /\ FindingsOf(in.templates) \in Seq(Finding)
<1> DEFINE T == Range(in.templates)
<1>1. /\ in.templates \in Seq(T)
      /\ \A t \in T : t.tags \in Seq(Range(t.tags)) /\ \A g \in Range(t.tags) : g.pkg \in STRING
  BY RunAssumption DEF IsRun, RunTypes
<1>2. ASSUME NEW t \in T
      PROVE  Packages(t) \in Seq(STRING) /\ RemoteFindings(t) \in Seq(Finding)
  <2> DEFINE I == {i \in DOMAIN t.tags : Loads(t.tags[i])}
             J == {i \in DOMAIN t.tags : t.tags[i].target \in {"cdn", "remote"} /\ t.tags[i].form # "importmap"}
             loads == At(t.tags, I)
             urls == At(t.tags, J)
  <2>1. /\ t.tags \in Seq(Range(t.tags)) /\ \A g \in Range(t.tags) : g.pkg \in STRING
    BY <1>1
  <2>2. loads \in Seq(Range(t.tags)) /\ urls \in Seq(Range(t.tags))
    BY <2>1, AtIsSeq
  <2> HIDE DEF loads, urls
  <2>3. Packages(t) = [i \in DOMAIN loads |-> loads[i].pkg]
    BY DEF Packages, Where, loads
  <2>4. RemoteFindings(t) = [i \in DOMAIN urls |-> Remote]
    BY DEF RemoteFindings, Where, urls
  <2>5. Remote \in Finding
    BY DEF Remote, Finding
  <2>6. Packages(t) \in Seq(STRING)
    BY <2>1, <2>2, <2>3
  <2>7. RemoteFindings(t) \in Seq(Finding)
    BY <2>2, <2>4, <2>5
  <2> QED
    BY <2>6, <2>7
<1>3. ASSUME NEW ts \in Seq(T) PROVE PackagesOf(ts) \in Seq(STRING)
  <2>0. DOMAIN ts = 1..Len(ts) /\ Len(ts) \in Nat /\ \A i \in DOMAIN ts : Packages(ts[i]) \in Seq(STRING)
    BY <1>2
  <2>1. [i \in DOMAIN ts |-> Packages(ts[i])] \in Seq(Seq(STRING))
    BY <2>0
  <2> QED
    BY <2>1, FlattenIsSeq DEF PackagesOf
<1>4. FindingsOf(in.templates) \in Seq(Finding)
  <2> DEFINE ts == in.templates
  <2>0. DOMAIN ts = 1..Len(ts) /\ Len(ts) \in Nat /\ \A i \in DOMAIN ts : RemoteFindings(ts[i]) \in Seq(Finding)
    BY <1>1, <1>2
  <2>1. [i \in DOMAIN ts |-> RemoteFindings(ts[i])] \in Seq(Seq(Finding))
    BY <2>0
  <2> QED
    BY <2>1, FlattenIsSeq DEF FindingsOf
<1>5. \A I \in SUBSET DOMAIN in.templates : At(in.templates, I) \in Seq(T)
  BY <1>1, AtIsSeq
<1>6. LoadedByTemplates \in Seq(STRING)
  BY <1>3, <1>5 DEF LoadedByTemplates, Where
<1>7. LoadedByIgnored \in Seq(STRING)
  <2>1. PackagesOf(Templates("ignored")) \in Seq(STRING)
    BY <1>3, <1>5 DEF Templates, Where
  <2>2. <<>> \in Seq(STRING)
    OBVIOUS
  <2> QED
    BY <2>1, <2>2 DEF LoadedByIgnored
<1> QED
  BY <1>4, <1>6, <1>7

\* A name that the templates load and no entry has gets an entry of its own.
LEMMA FreshEntries ==
  ASSUME NEW names \in Seq(STRING), NEW ds,
         NEW status \in {"SAFE", "UNCERTAIN", "IN_USE", "UNDECLARED"}
  PROVE  /\ Fresh(names, ds, status) \in Seq(Dependency)
         /\ \A d \in Range(Fresh(names, ds, status)) : d.status = status /\ d.eco = "npm"
         /\ \A n \in Range(names) \ Named(ds) :
              \E d \in Range(Fresh(names, ds, status)) : d.name = n
<1> DEFINE I == {i \in DOMAIN names : names[i] \notin Named(ds)}
           new == At(names, I)
           pairs == [i \in DOMAIN new |-> <<i, new[i]>>]
           J == {i \in DOMAIN pairs : \A j \in 1..(pairs[i][1] - 1) : new[j] # pairs[i][2]}
           once == At(pairs, J)
<1>1. new \in Seq(STRING) /\ Range(new) = {names[i] : i \in I}
  BY AtIsSeq
<1>2. Fresh(names, ds, status)
        = [i \in DOMAIN once |-> [name |-> once[i][2], eco |-> "npm", status |-> status, transitive |-> FALSE]]
  BY DEF Fresh, Where
<1> HIDE DEF new
<1>3. pairs \in Seq(Nat \X STRING)
  BY <1>1
<1>4. DOMAIN pairs = 1..Len(new) /\ DOMAIN new = 1..Len(new) /\ Len(new) \in Nat
  BY <1>1
<1>5. once \in Seq(Nat \X STRING) /\ Range(once) = {pairs[i] : i \in J}
  <2> HIDE DEF pairs
  <2> QED
    BY <1>3, AtIsSeq
<1> HIDE DEF once
<1>6. \A i \in DOMAIN once : once[i][2] \in STRING
  BY <1>5
<1>7. Fresh(names, ds, status) \in Seq(Dependency)
  <2> DEFINE F == Fresh(names, ds, status)
  <2>1. \A i \in DOMAIN once : F[i] \in Dependency
    BY <1>2, <1>6 DEF Dependency, Ecosystems
  <2>2. DOMAIN once = 1..Len(once) /\ Len(once) \in Nat
    BY <1>5
  <2>3. F = [i \in 1..Len(once) |-> F[i]]
    BY <1>2, <2>2
  <2>4. F \in Seq(Dependency)
    <3> HIDE DEF F
    <3> QED
      BY <2>1, <2>2, <2>3
  <2> QED
    BY <2>4
<1>8. \A d \in Range(Fresh(names, ds, status)) : d.status = status /\ d.eco = "npm"
  BY <1>2 DEF Range
<1>9. ASSUME NEW n \in Range(names) \ Named(ds)
      PROVE  \E d \in Range(Fresh(names, ds, status)) : d.name = n
  <2> DEFINE K == {i \in DOMAIN new : new[i] = n}
  <2>1. n \in Range(new)
    BY <1>1 DEF Range
  <2>2. K \in SUBSET Nat /\ K # {}
    BY <1>4, <2>1 DEF Range
  <2>3. PICK k \in K : \A m \in K : k <= m
    BY <2>2, LeastNumber
  <2>4. k \in 1..Len(new) /\ new[k] = n /\ pairs[k] = <<k, n>>
    BY <1>4, <2>3
  <2>5. \A j \in 1..(k - 1) : new[j] # n
    BY <1>4, <2>3, <2>4
  <2>6. <<k, n>> \in Range(once)
    BY <1>4, <1>5, <2>4, <2>5
  <2>7. PICK i \in DOMAIN once : once[i] = <<k, n>>
    BY <2>6 DEF Range
  <2>8. Fresh(names, ds, status)[i].name = n
    BY <1>2, <2>7
  <2> QED
    BY <1>2, <2>7, <2>8 DEF Range
<1> QED
  BY <1>7, <1>8, <1>9

\* A run begins with nothing merged.
LEMMA TypesInit == SInit => RunTypes
<1> SUFFICES ASSUME SInit PROVE RunTypes
  OBVIOUS
<1>1. NamesOf({}) = {}
  BY DEF NamesOf
<1>2. IsFiniteSet(NamesOf(graph))
  BY <1>1, FS_EmptySet DEF SInit, Init
<1> QED
  BY <1>2 DEF SInit, Init, RunTypes

\* The graphs of the analysers are finite, and so is what they make together.
LEMMA FiniteGraphs ==
  ASSUME NEW g, NEW h, IsFiniteSet(NamesOf(g)), IsFiniteSet(NamesOf(h))
  PROVE  IsFiniteSet(NamesOf(g \cup h))
<1>1. NamesOf(g \cup h) = NamesOf(g) \cup NamesOf(h)
  BY DEF NamesOf
<1> QED
  BY <1>1, FS_Union

\* A refusal, and every step that leaves the verdicts alone.
LEMMA TypesOfQuietSteps ==
  ASSUME RunTypes,
         CheckArguments \/ CheckPath \/ AllAnalysed \/ Audit \/ Write \/ WriteFails \/ Exit
           \/ FetchRaises \/ UNCHANGED vars
  PROVE  RunTypes'
<1>1. CASE Refuse
  BY <1>1 DEF Refuse, merged, RunTypes, Registered
<1>2. CASE FetchRaises
  BY <1>2 DEF FetchRaises, Fetching, JavasTurn, merged, RunTypes, Registered
<1>3. CASE UNCHANGED vars
  BY <1>3 DEF vars, merged, ended, RunTypes, Registered
<1>4. CASE AllAnalysed
  BY <1>4 DEF AllAnalysed, Go, merged, ended, RunTypes, Registered
<1>5. CASE Audit
  BY <1>5 DEF Audit, Go, ended, RunTypes, Registered
<1>6. CASE Write
  BY <1>1, <1>6 DEF Write, Go, merged, RunTypes, Registered
<1>7. CASE Exit
  BY <1>7 DEF Exit, Go, merged, RunTypes, Registered
<1>8. CASE CheckArguments \/ CheckPath
  BY <1>1, <1>8 DEF CheckArguments, CheckPath, Go, merged, ended, RunTypes, Registered
<1> QED
  BY <1>1, <1>2, <1>3, <1>4, <1>5, <1>6, <1>7, <1>8 DEF WriteFails

\* Detection settles the languages, or refuses.
LEMMA TypesOfDetection ==
  ASSUME RunTypes, DetectTypes \/ DetectTypesForTest
  PROVE  RunTypes'
<1>1. CASE Refuse
  BY <1>1, TypesOfQuietSteps DEF Refuse, merged, RunTypes, Registered
<1>2. ASSUME NEW ts \in Seq(Range(LanguageOrder)),
             types' = ts, left' = Runnable(ts), pc = "detect", pc' \in {"analyse", "render"},
             UNCHANGED <<in, deps, findings, graph, report, written, exit>>
      PROVE  RunTypes'
  <2>1. left' \in Seq(Registered)
    BY <1>2, LanguageTypes
  <2> QED
    BY <1>2, <2>1 DEF RunTypes, Registered
<1>3. DetectedTypes \in Seq(Range(LanguageOrder)) /\ Filtered(DetectedTypes) \in Seq(Range(LanguageOrder))
  BY LanguageTypes
<1>4. CASE DetectTypes
  BY <1>1, <1>2, <1>3, <1>4 DEF DetectTypes, Go, merged, ended
<1>5. CASE DetectTypesForTest
  BY <1>2, <1>3, <1>5 DEF DetectTypesForTest, Go, merged, ended
<1> QED
  BY <1>4, <1>5

\* An analyser's result is merged, or its exception ends the run.
LEMMA TypesOfAnalyse ==
  ASSUME RunTypes, Analyse
  PROVE  RunTypes'
<1> DEFINE r == in.results[Head(left)]
<1>1. /\ pc = "analyse" /\ left # <<>> /\ report = <<>> /\ written = <<"nowhere">>
  BY DEF Analyse, RunTypes
<1>2. CASE r.raises
  BY <1>1, <1>2 DEF Analyse, merged, RunTypes, Registered
<1>3. CASE ~ r.raises
  <2>1. Head(left) \in Registered /\ Tail(left) \in Seq(Registered)
    BY <1>1, RangeOfHeadTail DEF RunTypes
  <2>2. IsResult(r)
    BY <2>1, RunAssumption DEF RunTypes, IsRun, Registered
  <2>3. /\ deps' = deps \o r.deps /\ findings' = findings \o r.findings
        /\ graph' = graph \cup r.graph /\ left' = Tail(left)
        /\ UNCHANGED <<in, pc, types, ended>>
    BY <1>3 DEF Analyse
  <2>4. deps' \in Seq(Dependency) /\ findings' \in Seq(Finding)
    <3>1. /\ deps \in Seq(Dependency) /\ findings \in Seq(Finding)
          /\ r.deps \in Seq(Dependency) /\ r.findings \in Seq(Finding)
      BY <2>2 DEF RunTypes, IsResult
    <3>2. \A X : \A s, t \in Seq(X) : s \o t \in Seq(X)
      OBVIOUS
    <3> HIDE DEF r
    <3> QED
      BY <2>3, <3>1, <3>2
  <2>5. IsFiniteSet(NamesOf(graph'))
    <3>1. IsFiniteSet(NamesOf(graph)) /\ IsFiniteSet(NamesOf(r.graph))
      BY <2>2 DEF RunTypes, IsResult
    <3> HIDE DEF r
    <3> QED
      BY <2>3, <3>1, FiniteGraphs
  <2> QED
    BY <1>1, <2>1, <2>3, <2>4, <2>5 DEF RunTypes, Registered, ended
<1> QED
  BY <1>2, <1>3

\* The sweep turns some SAFE entries into IN_USE ones and keeps all others.
LEMMA Sweep ==
  ASSUME RunTypes, Lift
  PROVE  \E also \in SUBSET (Reached(deps) \cap InUse(deps)) :
           /\ DOMAIN deps' = DOMAIN deps
           /\ \A i \in DOMAIN deps :
                deps'[i] = IF /\ deps[i].status = "SAFE"
                              /\ deps[i].name \in (Reached(deps) \ InUse(deps)) \cup also
                           THEN [deps[i] EXCEPT !.status = "IN_USE"] ELSE deps[i]
BY DEF Lift

\* The steps that change the verdicts keep their form.
LEMMA TypesOfChanges ==
  ASSUME RunTypes, ScanTemplates \/ FilterDependencies \/ Lift
  PROVE  RunTypes'
<1>1. ASSUME deps' \in Seq(Dependency), findings' \in Seq(Finding), pc \in {"html", "filter", "lift"},
             pc' \in {"audit", "lift", "render"}, UNCHANGED <<in, types, left, graph, ended>>
      PROVE  RunTypes'
  BY <1>1 DEF RunTypes, Registered, ended
<1>2. CASE ScanTemplates
  <2>0. /\ pc = "html" /\ pc' = "audit" /\ deps' = MergeTemplates(deps)
        /\ findings' = findings \o FindingsOf(in.templates)
        /\ UNCHANGED <<in, types, left, graph, ended>>
    BY <1>2 DEF ScanTemplates, Go
  <2> DEFINE strong == deps \o Fresh(LoadedByTemplates, deps, "IN_USE")
  <2>1. deps \in Seq(Dependency) /\ Fresh(LoadedByTemplates, deps, "IN_USE") \in Seq(Dependency)
    BY TemplateTypes, FreshEntries DEF RunTypes
  <2>2. strong \in Seq(Dependency)
    BY <2>1
  <2>3. Fresh(LoadedByIgnored, strong, "UNCERTAIN") \in Seq(Dependency)
    BY TemplateTypes, FreshEntries
  <2>4. MergeTemplates(deps) = strong \o Fresh(LoadedByIgnored, strong, "UNCERTAIN")
    BY DEF MergeTemplates
  <2> HIDE DEF strong
  <2>5. deps' \in Seq(Dependency)
    BY <2>0, <2>2, <2>3, <2>4
  <2>6. findings' \in Seq(Finding)
    BY <2>0, TemplateTypes DEF RunTypes
  <2> QED
    BY <1>1, <2>0, <2>5, <2>6
<1>3. CASE FilterDependencies
  <2>1. Where(deps, InFilter) \in Seq(Dependency)
    BY AtIsSeq DEF Where, RunTypes
  <2> QED
    BY <1>1, <1>3, <2>1 DEF FilterDependencies, Go, RunTypes
<1>4. CASE Lift
  <2>1. DOMAIN deps' = DOMAIN deps /\ \A i \in DOMAIN deps : deps'[i] \in Dependency
    <3>1. \A d \in Dependency : [d EXCEPT !.status = "IN_USE"] \in Dependency
      BY DEF Dependency
    <3>2. \A i \in DOMAIN deps : deps[i] \in Dependency
      BY DEF RunTypes
    <3> QED
      BY <1>4, <3>1, <3>2, Sweep
  <2>2. \E F : deps' = [i \in DOMAIN deps |-> F[i]]
    <3>1. deps' = [i \in DOMAIN deps |-> deps'[i]]
      BY <1>4 DEF Lift
    <3> QED
      BY <3>1
  <2>3. DOMAIN deps = 1..Len(deps) /\ Len(deps) \in Nat
    BY DEF RunTypes
  <2>4. deps' \in Seq(Dependency)
    BY <2>1, <2>2, <2>3
  <2> QED
    BY <1>1, <1>4, <2>4 DEF Lift, Go, RunTypes
<1> QED
  BY <1>2, <1>3, <1>4

\* What is rendered is what is merged.
LEMMA TypesOfRender ==
  ASSUME RunTypes, Render
  PROVE  RunTypes'
<1>1. CASE Refuse
  BY <1>1 DEF Refuse, merged, RunTypes, Registered
<1>2. CASE /\ report' = <<[deps |-> deps, findings |-> Visible, errors |-> errors, types |-> types]>>
           /\ pc = "render" /\ pc' \in {"write", "done"}
           /\ UNCHANGED <<in, types, left, configured, merged, written, exit>>
  <2>1. report' # <<>> /\ Len(report') = 1 /\ report'[1].deps = deps
    BY <1>2
  <2> QED
    BY <1>2, <2>1 DEF merged, RunTypes, Registered
<1> QED
  BY <1>1, <1>2 DEF Render, Go

\* RunTypes is inductive.
LEMMA TypesKept ==
  ASSUME RunTypes, [SNext]_svars
  PROVE  RunTypes'
<1>1. Step \/ FetchRaises \/ UNCHANGED vars
  BY StepOfTheRun
<1> QED
  BY <1>1, TypesOfQuietSteps, TypesOfDetection, TypesOfAnalyse, TypesOfChanges, TypesOfRender DEF Step

-----------------------------------------------------------------------------
(* What the sweep leaves. *)

\* What an IN_USE entry of ds requires is not SAFE in it.
Unreached(ds) ==
  \A i, j \in DOMAIN ds :
    /\ ds[i].status = "IN_USE"
    /\ ds[j].status = "SAFE"
    /\ ds[j].name \notin InUse(ds)
    => \E S \in SUBSET NamesOf(graph) :
         /\ \A e \in graph : e[1] \in S \cup {ds[i].name} => e[2] \in S
         /\ ds[j].name \notin S

\* The sweep has been made, or there was nothing to sweep.
SweptInv == pc = "render" \/ report # <<>> => Unreached(deps)

\* After the sweep no SAFE entry is below an IN_USE one.
LEMMA LiftSweeps ==
  ASSUME RunTypes, Lift
  PROVE  Unreached(deps)'
<1> DEFINE R == Reached(deps)
           U == InUse(deps)
<1>1. PICK also \in SUBSET (R \cap U) :
         /\ DOMAIN deps' = DOMAIN deps
         /\ \A i \in DOMAIN deps :
              deps'[i] = IF deps[i].status = "SAFE" /\ deps[i].name \in (R \ U) \cup also
                         THEN [deps[i] EXCEPT !.status = "IN_USE"] ELSE deps[i]
  BY Sweep
<1>2. graph' = graph
  BY DEF Lift
<1>3. R \subseteq NamesOf(graph) /\ Children(graph, U) \subseteq R
      /\ \A e \in graph : e[1] \in R => e[2] \in R
  <2>1. Children(graph, U) \in SUBSET NamesOf(graph)
    BY DEF Children, NamesOf
  <2> QED
    BY <2>1, BelowIsClosed DEF Reached, RunTypes
<1>4. \A d \in Dependency : [d EXCEPT !.status = "IN_USE"].status = "IN_USE"
                            /\ [d EXCEPT !.status = "IN_USE"].name = d.name
  BY DEF Dependency
<1>5. \A i \in DOMAIN deps : deps[i] \in Dependency
  BY DEF RunTypes
<1>6. \A i \in DOMAIN deps :
         /\ deps'[i].name = deps[i].name
         /\ deps'[i].status = IF deps[i].status = "SAFE" /\ deps[i].name \in (R \ U) \cup also
                              THEN "IN_USE" ELSE deps[i].status
  <2> HIDE DEF R, U
  <2> QED
    BY <1>1, <1>4, <1>5
<1>7. \A i \in DOMAIN deps : deps[i].status = "IN_USE" => deps[i].name \in U
  BY DEF InUse
<1>8. U \subseteq InUse(deps')
  <2>1. \A u \in U : \E i \in DOMAIN deps : deps[i].status = "IN_USE" /\ deps[i].name = u
    BY DEF InUse
  <2>2. \A i \in DOMAIN deps' : deps'[i].status = "IN_USE" => deps'[i].name \in InUse(deps')
    BY DEF InUse
  <2> HIDE DEF R, U
  <2> QED
    BY <1>1, <1>6, <2>1, <2>2
<1> HIDE DEF R, U
<1>9. ASSUME NEW i \in DOMAIN deps', NEW j \in DOMAIN deps', deps'[i].status = "IN_USE",
             deps'[j].status = "SAFE", deps'[j].name \notin InUse(deps')
      PROVE  /\ \A e \in graph : e[1] \in R \cup {deps'[i].name} => e[2] \in R
             /\ deps'[j].name \notin R
  <2>1. i \in DOMAIN deps /\ j \in DOMAIN deps
    BY <1>1
  <2>2. deps[i].name \in R \cup U
    BY <1>6, <1>7, <1>9, <2>1
  <2>3. \A e \in graph : e[1] \in R \cup U => e[2] \in R
    BY <1>3 DEF Children
  <2>4. deps'[j].name \notin U
    BY <1>8, <1>9
  <2>5. deps'[j].name \notin R
    BY <1>6, <1>9, <2>1, <2>4
  <2> QED
    BY <1>6, <2>1, <2>2, <2>3, <2>5
<1> QED
  BY <1>2, <1>3, <1>9 DEF Unreached

\* SweptInv is inductive given RunTypes.
LEMMA SweptStep ==
  ASSUME RunTypes, SweptInv, [SNext]_svars
  PROVE  SweptInv'
<1>1. Step \/ FetchRaises \/ UNCHANGED vars
  BY StepOfTheRun
<1>2. ASSUME deps' = deps, graph' = graph, Unreached(deps) PROVE Unreached(deps)'
  BY <1>2 DEF Unreached
<1>3. ASSUME deps' = deps, graph' = graph,
             pc' = "render" \/ report' # <<>> => pc = "render" \/ report # <<>>
      PROVE  SweptInv'
  BY <1>2, <1>3 DEF SweptInv
<1>4. CASE Refuse
  BY <1>3, <1>4 DEF Refuse, merged, SweptInv
<1>5. CASE \/ CheckArguments \/ CheckPath \/ DetectTypes \/ AllAnalysed \/ Audit \/ Render
           \/ Write \/ WriteFails \/ Exit \/ FetchRaises
  <2>1. CASE CheckArguments \/ CheckPath
    BY <1>3, <1>4, <2>1 DEF CheckArguments, CheckPath, Go, merged, ended
  <2>2. CASE DetectTypes
    BY <1>3, <1>4, <2>2 DEF DetectTypes, Go, merged, ended
  <2>3. CASE AllAnalysed
    BY <1>3, <2>3 DEF AllAnalysed, Go, merged, ended
  <2>4. CASE Audit
    BY <1>3, <2>4 DEF Audit, Go, ended
  <2>5. CASE Render
    BY <1>3, <1>4, <2>5 DEF Render, Go, merged
  <2>6. CASE Write
    BY <1>3, <1>4, <2>6 DEF Write, Go, merged
  <2>7. CASE Exit
    BY <1>3, <2>7 DEF Exit, Go, merged
  <2>8. CASE FetchRaises
    BY <1>3, <2>8 DEF FetchRaises, merged
  <2> QED
    BY <1>4, <1>5, <2>1, <2>2, <2>3, <2>4, <2>5, <2>6, <2>7, <2>8 DEF WriteFails
<1>6. CASE UNCHANGED vars
  BY <1>3, <1>6 DEF vars, merged, ended
<1>7. CASE DetectTypesForTest
  <2>1. deps' = <<>>
    BY <1>7 DEF DetectTypesForTest, RunTypes
  <2> QED
    BY <2>1 DEF SweptInv, Unreached
<1>8. CASE Analyse \/ ScanTemplates \/ FilterDependencies
  <2>1. report = <<>> /\ UNCHANGED report /\ pc' # "render"
    BY <1>8 DEF Analyse, ScanTemplates, FilterDependencies, Go, RunTypes, ended
  <2> QED
    BY <2>1 DEF SweptInv
<1>9. CASE Lift
  BY <1>9, LiftSweeps DEF SweptInv
<1> QED
  BY <1>1, <1>5, <1>6, <1>7, <1>8, <1>9 DEF Step

\* A report that calls a dependency SAFE, and says of no dependency of that name
\* that it is in use, knows of no way from one that is in use to the safe one,
\* whatever the analysers and the templates bring (the sweep at the end of
\* cli.py).  A SAFE dependency whose name another ecosystem has IN_USE is left
\* out: the sweep of the code may miss it (cli.py:236).
THEOREM SafeIsUnreached == SSpec => []ReportedSafeIsUnreached
<1>1. SInit => RunTypes /\ SweptInv
  BY TypesInit DEF SInit, Init, SweptInv
<1>2. RunTypes /\ SweptInv /\ [SNext]_svars => (RunTypes /\ SweptInv)'
  BY TypesKept, SweptStep
<1>3. RunTypes /\ SweptInv => ReportedSafeIsUnreached
  <2> SUFFICES ASSUME RunTypes, SweptInv, Done PROVE ReportedSafeIsUnreached
    BY DEF ReportedSafeIsUnreached
  <2>1. report[1].deps = deps /\ Unreached(deps)
    BY DEF Done, RunTypes, SweptInv
  <2> QED
    BY <2>1 DEF Unreached, ReportedSafeIsUnreached, GraphNames
<1> QED
  BY <1>1, <1>2, <1>3, PTL DEF SSpec

-----------------------------------------------------------------------------
(* What becomes of the results of the analysers. *)

Results == {in.results[l] : l \in Analysed}
Waiting == {in.results[l] : l \in Range(left)}

\* Each dependency of an analyser that passes the filter is in ds, as it was
\* or lifted, and so is each library that the templates load.
Kept(ds) ==
  /\ \A r \in Results : \A d \in Range(r.deps) :
       InFilter(d) => {d, [d EXCEPT !.status = "IN_USE"]} \cap Range(ds) # {}
  /\ argv.languages = {} \/ "npm" \in argv.languages =>
       \A n \in Range(LoadedByTemplates) :
         \/ \E d \in Range(ds) : d.name = n /\ d.status = "IN_USE" /\ d.eco = "npm"
         \/ \E r \in Results : n \in Named(r.deps)

\* While the analysers run, what is merged and what is to come make the whole;
\* after the templates nothing of it goes but what the filter drops.
AccountInv ==
  /\ pc = "analyse" =>
       /\ UNION {Range(r.deps) : r \in Results} = Range(deps) \cup UNION {Range(r.deps) : r \in Waiting}
       /\ UNION {Range(r.findings) : r \in Results}
            = Range(findings) \cup UNION {Range(r.findings) : r \in Waiting}
  /\ pc = "html" =>
       /\ UNION {Range(r.deps) : r \in Results} = Range(deps)
       /\ UNION {Range(r.findings) : r \in Results} = Range(findings)
  /\ Main /\ (pc \in {"audit", "filter", "lift", "render"} \/ report # <<>>) =>
       Kept(deps) /\ AllFindings = Range(findings)
  /\ Main /\ (pc \in {"lift", "render"} \/ report # <<>>) =>
       \A d \in Range(deps) : InFilter(d)

\* A run that was delivered ends with the exit code of what was merged.
ExitInv ==
  /\ pc = "exit" => Delivered
  /\ pc = "done" /\ Main =>
       IF Delivered THEN report # <<>> /\ exit = ExitCode ELSE exit = 2

\* What was asked, and what is known of the answers, is settled by the run and
\* the detected languages.
LEMMA SameRun ==
  ASSUME in' = in, types' = types
  PROVE  /\ Results' = Results /\ AllFindings' = AllFindings /\ argv' = argv /\ Main' = Main
         /\ LoadedByTemplates' = LoadedByTemplates
         /\ \A ds : Kept(ds) <=> Kept(ds)'
         /\ \A d : InFilter(d) <=> InFilter(d)'
<1>1. argv' = argv /\ Main' = Main /\ Analysed' = Analysed
  BY DEF argv, Main, Analysed, Registered
<1>2. Results' = Results
  BY <1>1 DEF Results
<1>3. AllFindings' = AllFindings
  BY <1>1 DEF AllFindings
<1>4. LoadedByTemplates' = LoadedByTemplates
  <2> DEFINE I(m) == {i \in DOMAIN in.templates : in.templates[i].class = "tracked"
                         \/ (in.templates[i].class = "ignored" /\ m = "include")}
  <2>1. LoadedByTemplates = PackagesOf(At(in.templates, I(Mode)))
    BY DEF LoadedByTemplates, Where
  <2>2. Mode' = Mode
    BY <1>1 DEF Mode
  <2>3. LoadedByTemplates' = PackagesOf(At(in.templates, I(Mode)))
    BY <2>2 DEF LoadedByTemplates, Where
  <2> QED
    BY <2>1, <2>3
<1>5. \A d : InFilter(d) <=> InFilter(d)'
  BY <1>1 DEF InFilter
<1>6. \A ds : Kept(ds) <=> Kept(ds)'
  BY <1>1, <1>2, <1>4, <1>5 DEF Kept
<1> QED
  BY <1>1, <1>2, <1>3, <1>4, <1>5, <1>6

\* Steps that leave what the analysers found as it is.
LEMMA SameAccount ==
  ASSUME RunTypes, AccountInv, UNCHANGED <<in, types, left, deps, findings>>,
         pc' # "analyse" \/ pc = "analyse", pc' # "html" \/ pc = "html",
         Main => (pc' \in {"audit", "filter", "lift", "render"} \/ report' # <<>>
                    => pc \in {"audit", "filter", "lift", "render"} \/ report # <<>>),
         Main => (pc' \in {"lift", "render"} \/ report' # <<>>
                    => pc \in {"lift", "render"} \/ report # <<>>)
  PROVE  AccountInv'
<1>1. /\ Results' = Results /\ Waiting' = Waiting /\ AllFindings' = AllFindings /\ Main' = Main
      /\ \A ds : Kept(ds) <=> Kept(ds)'
      /\ \A d : InFilter(d) <=> InFilter(d)'
  BY SameRun DEF Waiting
<1>2. Kept(deps) => Kept(deps)'
  <2>1. \A ds : ds = deps' => (Kept(ds)' => Kept(deps)')
    BY DEF Kept
  <2> QED
    BY <1>1, <2>1
<1> HIDE DEF Waiting, Results, AllFindings, Main, Kept, InFilter
<1> QED
  BY <1>1, <1>2 DEF AccountInv

\* Before the analysers run, they have everything still to say.
LEMMA AccountBegins ==
  ASSUME RunTypes, DetectTypes \/ DetectTypesForTest, ~ Refuse
  PROVE  AccountInv'
<1>1. DetectedTypes \in Seq(Range(LanguageOrder)) /\ Filtered(DetectedTypes) \in Seq(Range(LanguageOrder))
  BY LanguageTypes
<1>2. /\ types' \in Seq(Range(LanguageOrder)) /\ left' = Runnable(types')
      /\ UNCHANGED <<in, deps, findings, report>> /\ pc = "detect"
      /\ pc' = "analyse" \/ (pc' = "render" /\ ~ Main)
  <2>1. CASE DetectTypes
    BY <1>1, <2>1 DEF DetectTypes, Go, merged, ended
  <2>2. CASE DetectTypesForTest
    BY <1>1, <2>2 DEF DetectTypesForTest, Go, merged, ended
  <2> QED
    BY <2>1, <2>2
<1>3. deps' = <<>> /\ findings' = <<>> /\ report' = <<>>
  BY <1>2 DEF RunTypes
<1>4. Range(left') = {types'[i] : i \in DOMAIN types'} \cap Registered
  <2>1. \A ts \in Seq(Range(LanguageOrder)) : Range(Runnable(ts)) = {ts[i] : i \in DOMAIN ts} \cap Registered
    BY LanguageTypes
  <2> QED
    BY <1>2, <2>1
<1>5. Waiting' = Results'
  <2>1. Registered' = Registered
    BY <1>2 DEF Registered
  <2> QED
    BY <1>4, <2>1 DEF Waiting, Results, Analysed
<1>6. Range(<<>>) = {}
  BY DEF Range
<1>7. Main' = Main
  BY <1>2 DEF Main
<1> HIDE DEF Main
<1> QED
  BY <1>2, <1>3, <1>5, <1>6, <1>7 DEF AccountInv

\* An analyser that returns has its say moved from what is to come.
LEMMA AccountOfAnalyse ==
  ASSUME RunTypes, AccountInv, Analyse
  PROVE  AccountInv'
<1> DEFINE r == in.results[Head(left)]
<1>1. /\ pc = "analyse" /\ left # <<>> /\ report = <<>> /\ report' = report
      /\ IF r.raises THEN pc' = "done"
         ELSE /\ deps' = deps \o r.deps /\ findings' = findings \o r.findings
              /\ left' = Tail(left) /\ UNCHANGED <<in, pc, types>>
  BY DEF Analyse, RunTypes, ended
<1>2. CASE r.raises
  BY <1>1, <1>2 DEF AccountInv
<1>3. CASE ~ r.raises
  <2>1. Head(left) \in Registered /\ Range(left) = {Head(left)} \cup Range(left')
    BY <1>1, <1>3, RangeOfHeadTail DEF RunTypes
  <2>2. IsResult(r)
    BY <2>1, RunAssumption DEF RunTypes, IsRun, Registered
  <2>3. Range(deps') = Range(deps) \cup Range(r.deps)
        /\ Range(findings') = Range(findings) \cup Range(r.findings)
    <3>1. /\ deps \in Seq(Dependency) /\ r.deps \in Seq(Dependency) /\ deps' = deps \o r.deps
          /\ findings \in Seq(Finding) /\ r.findings \in Seq(Finding) /\ findings' = findings \o r.findings
      BY <1>1, <1>3, <2>2 DEF RunTypes, IsResult
    <3> HIDE DEF r
    <3> QED
      BY <3>1, RangeOfConcat
  <2>4. Results' = Results
    BY <1>1, <1>3, SameRun
  <2>5. Waiting = {r} \cup Waiting'
    BY <1>1, <1>3, <2>1 DEF Waiting
  <2> HIDE DEF r, Waiting, Results
  <2>6. UNION {Range(q.deps) : q \in Waiting} = Range(r.deps) \cup UNION {Range(q.deps) : q \in Waiting'}
    BY <2>5
  <2>7. UNION {Range(q.findings) : q \in Waiting} = Range(r.findings) \cup UNION {Range(q.findings) : q \in Waiting'}
    BY <2>5
  <2>8. UNION {Range(q.deps) : q \in Results} = Range(deps) \cup UNION {Range(q.deps) : q \in Waiting}
        /\ UNION {Range(q.findings) : q \in Results} = Range(findings) \cup UNION {Range(q.findings) : q \in Waiting}
    BY <1>1 DEF AccountInv
  <2>9. UNION {Range(q.deps) : q \in Results'} = Range(deps') \cup UNION {Range(q.deps) : q \in Waiting'}
    BY <2>3, <2>4, <2>6, <2>8
  <2>10. UNION {Range(q.findings) : q \in Results'} = Range(findings') \cup UNION {Range(q.findings) : q \in Waiting'}
    BY <2>3, <2>4, <2>7, <2>8
  <2> QED
    BY <1>1, <1>3, <2>9, <2>10 DEF AccountInv
<1> QED
  BY <1>2, <1>3

\* The templates add what no analyser named, and take nothing away.
LEMMA AccountOfTemplates ==
  ASSUME RunTypes, AccountInv, ScanTemplates
  PROVE  AccountInv'
<1> DEFINE strong == deps \o Fresh(LoadedByTemplates, deps, "IN_USE")
           extra == Fresh(LoadedByTemplates, deps, "IN_USE")
           weak == Fresh(LoadedByIgnored, strong, "UNCERTAIN")
<1>1. /\ pc = "html" /\ pc' = "audit" /\ deps' = MergeTemplates(deps)
      /\ findings' = findings \o FindingsOf(in.templates)
      /\ UNCHANGED <<in, types, left, graph>> /\ report = <<>> /\ report' = report
  BY DEF ScanTemplates, Go, RunTypes, ended
<1>2. /\ extra \in Seq(Dependency)
      /\ \A d \in Range(extra) : d.status = "IN_USE" /\ d.eco = "npm"
      /\ \A n \in Range(LoadedByTemplates) \ Named(deps) : \E d \in Range(extra) : d.name = n
  BY TemplateTypes, FreshEntries
<1>3. strong \in Seq(Dependency) /\ Range(strong) = Range(deps) \cup Range(extra)
  <2> HIDE DEF extra
  <2> QED
    BY <1>2, RangeOfConcat DEF RunTypes, extra
<1>4. weak \in Seq(Dependency)
  <2> HIDE DEF strong
  <2> QED
    BY TemplateTypes, FreshEntries
<1>5. deps' = strong \o weak
  BY <1>1 DEF MergeTemplates
<1> HIDE DEF strong, weak, extra
<1>6. Range(deps) \subseteq Range(deps') /\ Range(extra) \subseteq Range(deps')
  BY <1>3, <1>4, <1>5, RangeOfConcat
<1>7. Range(findings') = Range(findings) \cup Range(FindingsOf(in.templates))
  BY <1>1, TemplateTypes, RangeOfConcat DEF RunTypes
<1>8. AllFindings = Range(findings')
  <2> DEFINE A == UNION {Range(in.results[l].findings) : l \in Analysed}
             B == UNION {Range(q.findings) : q \in Results}
  <2>1. B = Range(findings)
    BY <1>1 DEF AccountInv
  <2>2. A = B
    BY DEF Results
  <2>3. AllFindings = A \cup Range(FindingsOf(in.templates))
    BY DEF AllFindings
  <2> HIDE DEF A, B
  <2> QED
    BY <1>7, <2>1, <2>2, <2>3
<1>9. UNION {Range(q.deps) : q \in Results} = Range(deps)
  BY <1>1 DEF AccountInv
<1>10. \A n \in Named(deps) : \E q \in Results : n \in Named(q.deps)
  <2>1. ASSUME NEW n \in Named(deps) PROVE \E q \in Results : n \in Named(q.deps)
    <3>1. PICK i \in DOMAIN deps : deps[i].name = n
      BY DEF Named
    <3>2. deps[i] \in Range(deps)
      BY DEF Range
    <3>3. PICK q \in Results : deps[i] \in Range(q.deps)
      BY <1>9, <3>2
    <3>4. PICK k \in DOMAIN q.deps : q.deps[k] = deps[i]
      BY <3>3 DEF Range
    <3> QED
      BY <3>1, <3>4 DEF Named
  <2> QED
    BY <2>1
<1>11. Kept(deps')
  <2>1. ASSUME NEW q \in Results, NEW d \in Range(q.deps) PROVE d \in Range(deps')
    BY <1>6, <1>9
  <2>2. ASSUME NEW n \in Range(LoadedByTemplates)
        PROVE  \/ \E d \in Range(deps') : d.name = n /\ d.status = "IN_USE" /\ d.eco = "npm"
               \/ \E q \in Results : n \in Named(q.deps)
    BY <1>2, <1>6, <1>10
  <2> QED
    BY <2>1, <2>2 DEF Kept
<1>12. Kept(deps)'
  <2>1. \A ds : ds = deps' => (Kept(ds)' => Kept(deps)')
    BY DEF Kept
  <2> QED
    BY <1>1, <1>11, <2>1, SameRun
<1>13. AllFindings' = Range(findings)'
  BY <1>1, <1>8, SameRun
<1> QED
  BY <1>1, <1>12, <1>13 DEF AccountInv

\* The filter drops what is not asked for.
LEMMA AccountOfFilter ==
  ASSUME RunTypes, AccountInv, FilterDependencies
  PROVE  AccountInv'
<1> DEFINE I == {i \in DOMAIN deps : InFilter(deps[i])}
<1>1. /\ pc = "filter" /\ pc' = "lift" /\ deps' = At(deps, I)
      /\ UNCHANGED <<in, types, left, findings>> /\ report = <<>> /\ report' = report
  BY DEF FilterDependencies, Where, Go, RunTypes, ended
<1>2. Range(deps') = {deps[i] : i \in I}
  <2>1. deps \in Seq(Dependency) /\ I \in SUBSET DOMAIN deps
    BY DEF RunTypes
  <2> HIDE DEF I
  <2> QED
    BY <1>1, <2>1, AtIsSeq
<1>3. Range(deps') = {d \in Range(deps) : InFilter(d)}
  BY <1>2 DEF Range
<1>4. CASE ~ Main
  <2>1. ~ Main'
    BY <1>1, <1>4 DEF Main
  <2> QED
    BY <1>1, <2>1 DEF AccountInv
<1>5. CASE Main
  <2>1. Kept(deps) /\ AllFindings = Range(findings)
    BY <1>1, <1>5 DEF AccountInv
  <2>2. Kept(deps')
    <3>1. ASSUME NEW d, InFilter(d), {d, [d EXCEPT !.status = "IN_USE"]} \cap Range(deps) # {}
          PROVE  {d, [d EXCEPT !.status = "IN_USE"]} \cap Range(deps') # {}
      <4>1. InFilter([d EXCEPT !.status = "IN_USE"])
        BY <3>1 DEF InFilter
      <4> QED
        BY <1>3, <3>1, <4>1
    <3>2. ASSUME NEW d \in Range(deps), d.eco = "npm", argv.languages = {} \/ "npm" \in argv.languages
          PROVE  d \in Range(deps')
      BY <1>3, <3>2 DEF InFilter
    <3> HIDE DEF I
    <3> QED
      BY <2>1, <3>1, <3>2 DEF Kept
  <2>3. Kept(deps)'
    <3>1. \A ds : ds = deps' => (Kept(ds)' => Kept(deps)')
      BY DEF Kept
    <3> QED
      BY <1>1, <2>2, <3>1, SameRun
  <2>4. AllFindings' = Range(findings)'
    BY <1>1, <2>1, SameRun
  <2>5. \A d \in Range(deps') : InFilter(d)'
    BY <1>1, <1>3, SameRun
  <2> QED
    BY <1>1, <2>3, <2>4, <2>5 DEF AccountInv
<1> QED
  BY <1>4, <1>5

\* The sweep changes a status and nothing else.
LEMMA AccountOfLift ==
  ASSUME RunTypes, AccountInv, Lift
  PROVE  AccountInv'
<1>1. /\ pc = "lift" /\ pc' = "render" /\ UNCHANGED <<in, types, left, findings>>
      /\ report = <<>> /\ report' = report
  BY DEF Lift, Go, RunTypes, ended
<1>2. CASE ~ Main
  <2>1. ~ Main'
    BY <1>1, <1>2 DEF Main
  <2> QED
    BY <1>1, <2>1 DEF AccountInv
<1>3. CASE Main
  <2>1. /\ DOMAIN deps' = DOMAIN deps
        /\ \A i \in DOMAIN deps : deps'[i] \in {deps[i], [deps[i] EXCEPT !.status = "IN_USE"]}
        /\ \A i \in DOMAIN deps : deps[i].status = "IN_USE" => deps'[i] = deps[i]
    BY Sweep
  <2>2. \A d \in Range(deps) : {d, [d EXCEPT !.status = "IN_USE"]} \cap Range(deps') # {}
    BY <2>1 DEF Range
  <2>3. \A d \in Range(deps) : d.status = "IN_USE" => d \in Range(deps')
    BY <2>1 DEF Range
  <2>4. \A c \in Range(deps') : \E d \in Range(deps) : c = d \/ c = [d EXCEPT !.status = "IN_USE"]
    BY <2>1 DEF Range
  <2>5. /\ Kept(deps) /\ AllFindings = Range(findings)
        /\ \A d \in Range(deps) : InFilter(d)
    BY <1>1, <1>3 DEF AccountInv
  <2>6. Kept(deps')
    <3>1. ASSUME NEW d, {d, [d EXCEPT !.status = "IN_USE"]} \cap Range(deps) # {}
          PROVE  {d, [d EXCEPT !.status = "IN_USE"]} \cap Range(deps') # {}
      <4>1. [[d EXCEPT !.status = "IN_USE"] EXCEPT !.status = "IN_USE"] = [d EXCEPT !.status = "IN_USE"]
        OBVIOUS
      <4> QED
        BY <2>2, <3>1, <4>1
    <3> QED
      BY <2>3, <2>5, <3>1 DEF Kept
  <2>7. Kept(deps)'
    <3>1. \A ds : ds = deps' => (Kept(ds)' => Kept(deps)')
      BY DEF Kept
    <3> QED
      BY <1>1, <2>6, <3>1, SameRun
  <2>8. AllFindings' = Range(findings)'
    BY <1>1, <2>5, SameRun
  <2>9. \A d \in Range(deps') : InFilter(d)'
    <3>1. \A d : InFilter(d) => InFilter([d EXCEPT !.status = "IN_USE"])
      <4>1. \A d : [d EXCEPT !.status = "IN_USE"].eco = d.eco
        OBVIOUS
      <4> QED
        BY <4>1 DEF InFilter
    <3> QED
      BY <1>1, <2>4, <2>5, <3>1, SameRun
  <2> QED
    BY <1>1, <2>7, <2>8, <2>9 DEF AccountInv
<1> QED
  BY <1>2, <1>3

\* Before anything is detected there is nothing to account for.
LEMMA AccountInit == SInit => AccountInv
BY DEF SInit, Init, AccountInv

\* AccountInv is inductive given RunTypes.
LEMMA AccountStep ==
  ASSUME RunTypes, AccountInv, [SNext]_svars
  PROVE  AccountInv'
<1>1. Step \/ FetchRaises \/ UNCHANGED vars
  BY StepOfTheRun
<1>2. CASE Refuse
  BY <1>2, SameAccount DEF Refuse, merged
<1>3. CASE CheckArguments \/ CheckPath
  BY <1>2, <1>3, SameAccount DEF CheckArguments, CheckPath, Go, merged, ended
<1>4. CASE DetectTypes \/ DetectTypesForTest
  BY <1>2, <1>4, AccountBegins
<1>5. CASE AllAnalysed
  <2>1. /\ UNCHANGED <<in, types, left, deps, findings>> /\ left = <<>> /\ pc = "analyse"
        /\ report = <<>> /\ report' = report /\ pc' = IF Main THEN "html" ELSE "audit"
    BY <1>5 DEF AllAnalysed, Go, merged, ended, RunTypes
  <2>2. CASE Main
    <3>1. pc' = "html"
      BY <2>1, <2>2
    <3>2. Results' = Results /\ Waiting = {}
      BY <2>1, SameRun DEF Waiting, Range
    <3>3. /\ UNION {Range(r.deps) : r \in Results} = Range(deps)
          /\ UNION {Range(r.findings) : r \in Results} = Range(findings)
      BY <2>1, <3>2 DEF AccountInv
    <3>4. /\ UNION {Range(r.deps) : r \in Results'} = Range(deps')
          /\ UNION {Range(r.findings) : r \in Results'} = Range(findings')
      BY <2>1, <3>2, <3>3
    <3> QED
      BY <2>1, <3>1, <3>4 DEF AccountInv
  <2>3. CASE ~ Main
    <3>1. ~ Main' /\ pc' = "audit"
      BY <2>1, <2>3 DEF Main
    <3> QED
      BY <3>1 DEF AccountInv
  <2> QED
    BY <2>2, <2>3
<1>6. CASE Audit
  <2>1. /\ UNCHANGED <<in, types, left, deps, findings>> /\ pc = "audit"
        /\ report = <<>> /\ report' = report /\ pc' = IF Main THEN "filter" ELSE "lift"
    BY <1>6 DEF Audit, Go, ended, RunTypes
  <2> QED
    BY <2>1, SameAccount
<1>7. CASE Render
  <2>1. /\ UNCHANGED <<in, types, left, deps, findings>> /\ pc = "render"
        /\ pc' \in {"done", "write"}
    BY <1>2, <1>7 DEF Render, Refuse, Go, merged
  <2> QED
    BY <2>1, SameAccount
<1>8. CASE Write \/ WriteFails \/ Exit
  <2>1. /\ UNCHANGED <<in, types, left, deps, findings>> /\ pc' \in {"done", "exit"}
        /\ report' = report
    BY <1>2, <1>8 DEF Write, WriteFails, Refuse, Exit, Go, merged
  <2> QED
    BY <2>1, SameAccount
<1>9. CASE FetchRaises
  <2>1. /\ UNCHANGED <<in, types, left, deps, findings>> /\ pc' = "done" /\ report' = report
    BY <1>9 DEF FetchRaises, merged
  <2> QED
    BY <2>1, SameAccount
<1>10. CASE UNCHANGED vars
  BY <1>10, SameAccount DEF vars, merged, ended
<1> QED
  BY <1>1, <1>3, <1>4, <1>5, <1>6, <1>7, <1>8, <1>9, <1>10, AccountOfAnalyse,
     AccountOfTemplates, AccountOfFilter, AccountOfLift DEF Step

\* Nothing an analyser found in a wanted ecosystem is lost between the merge and
\* the report, and no library a template loads, but for one whose namesakes from
\* the analysers hide it (cli.py:722) and are all of unwanted ecosystems.
THEOREM RunLosesNothing == SSpec => []NothingIsLost
<1>1. SInit => RunTypes /\ AccountInv
  BY TypesInit, AccountInit
<1>2. RunTypes /\ AccountInv /\ [SNext]_svars => (RunTypes /\ AccountInv)'
  BY TypesKept, AccountStep
<1>3. RunTypes /\ AccountInv => NothingIsLost
  <2> SUFFICES ASSUME RunTypes, AccountInv, Done, Main PROVE NothingIsLost
    BY DEF NothingIsLost
  <2>1. report[1].deps = deps /\ Kept(deps) /\ \A d \in Range(deps) : InFilter(d)
    BY DEF Done, RunTypes, AccountInv
  <2>2. \A l \in Analysed : in.results[l] \in Results
    BY DEF Results
  <2> DEFINE out == Range(report[1].deps)
             namesakes(n) == UNION {{d \in Range(in.results[l].deps) : d.name = n} : l \in Analysed}
  <2>3. \A l \in Analysed : \A d \in Range(in.results[l].deps) :
          InFilter(d) => {d, [d EXCEPT !.status = "IN_USE"]} \cap out # {}
    BY <2>1, <2>2 DEF Kept
  <2>4. ASSUME NEW n \in Range(LoadedByTemplates), argv.languages = {} \/ "npm" \in argv.languages
        PROVE  \/ \E d \in out : d.name = n /\ (d.status = "IN_USE" \/ d \in namesakes(n))
               \/ namesakes(n) # {} /\ \A d \in namesakes(n) : ~ InFilter(d)
    <3>1. CASE \E d \in out : d.name = n /\ d.status = "IN_USE"
      BY <3>1
    <3>2. CASE \E r \in Results : n \in Named(r.deps)
      <4>1. PICK l \in Analysed : n \in Named(in.results[l].deps)
        BY <3>2 DEF Results
      <4>2. PICK i \in DOMAIN in.results[l].deps : in.results[l].deps[i].name = n
        BY <4>1 DEF Named
      <4>3. namesakes(n) # {}
        BY <4>2 DEF Range
      <4>4. ASSUME NEW d \in namesakes(n), InFilter(d)
            PROVE  \E c \in out : c.name = n /\ (c.status = "IN_USE" \/ c \in namesakes(n))
        <5>1. PICK k \in Analysed : d \in Range(in.results[k].deps) /\ d.name = n
          BY <4>4
        <5>2. d \in Dependency
          <6>1. k \in DOMAIN in.results /\ IsResult(in.results[k])
            BY <5>1, RunAssumption DEF RunTypes, IsRun, Analysed, Registered
          <6> QED
            BY <5>1, <6>1 DEF IsResult, Range
        <5>3. [d EXCEPT !.status = "IN_USE"].name = n /\ [d EXCEPT !.status = "IN_USE"].status = "IN_USE"
          BY <5>1, <5>2 DEF Dependency
        <5>4. {d, [d EXCEPT !.status = "IN_USE"]} \cap out # {}
          BY <2>3, <4>4, <5>1
        <5> HIDE DEF out, namesakes
        <5> QED
          BY <4>4, <5>1, <5>3, <5>4
      <4> HIDE DEF out, namesakes
      <4> QED
        BY <4>3, <4>4
    <3> QED
      BY <2>1, <2>4, <3>1, <3>2 DEF Kept
  <2>5. \A d \in out : InFilter(d)
    BY <2>1
  <2> QED
    BY <2>3, <2>4, <2>5 DEF NothingIsLost, InFilter
<1> QED
  BY <1>1, <1>2, <1>3, PTL DEF SSpec

\* The exit code looks at the findings and the verdicts that were merged.
LEMMA ExitCodeIs ==
  ASSUME RunTypes
  PROVE  LET gate == \E f \in Range(findings) : Gates(f)
         IN /\ ExitCode = 3 <=> gate
            /\ ExitCode = 1 <=> ~ gate /\ \E i \in DOMAIN deps : deps[i].status = "SAFE"
            /\ ExitCode # 2
<1>1. (\E f \in Range(findings) : Gates(f)) <=> \E i \in DOMAIN findings : Gates(findings[i])
  BY DEF Range
<1> QED
  BY <1>1 DEF ExitCode

\* Only the findings, the verdicts and the flags make the exit code.
LEMMA SameExitCode ==
  ASSUME UNCHANGED <<in, deps, findings>>
  PROVE  ExitCode' = ExitCode /\ Main' = Main
<1>1. \A f : Gates(f) <=> Gates(f)'
  BY DEF Gates, Threshold, argv
<1>2. (\E i \in DOMAIN findings : Gates(findings[i])) <=> (\E i \in DOMAIN findings : Gates(findings[i]))'
  <2>1. \A fs : fs = findings' =>
          ((\E i \in DOMAIN fs : Gates(fs[i])') <=> (\E i \in DOMAIN findings : Gates(findings[i]))')
    BY DEF Gates, Threshold, argv
  <2> QED
    BY <1>1, <2>1
<1>3. (\E i \in DOMAIN deps : deps[i].status = "SAFE") <=> (\E i \in DOMAIN deps : deps[i].status = "SAFE")'
  OBVIOUS
<1> QED
  BY <1>2, <1>3 DEF ExitCode, Main

\* ExitInv is inductive given RunTypes.
LEMMA ExitStep ==
  ASSUME RunTypes, ExitInv, [SNext]_svars
  PROVE  ExitInv'
<1>1. Step \/ FetchRaises \/ UNCHANGED vars
  BY StepOfTheRun
<1>2. CASE pc' \notin {"exit", "done"}
  BY <1>2 DEF ExitInv
<1>3. CASE Refuse /\ pc \notin {"exit", "done"}
  BY <1>3 DEF Refuse, ExitInv, RunTypes, Delivered
<1>4. CASE CheckArguments \/ CheckPath
  BY <1>2, <1>3, <1>4 DEF CheckArguments, CheckPath, Go
<1>5. CASE DetectTypes \/ DetectTypesForTest
  BY <1>2, <1>3, <1>5 DEF DetectTypes, DetectTypesForTest, Go
<1>6. CASE AllAnalysed \/ ScanTemplates \/ Audit \/ FilterDependencies \/ Lift
  BY <1>2, <1>6 DEF AllAnalysed, ScanTemplates, Audit, FilterDependencies, Lift, Go
<1>7. CASE Analyse
  <2>1. /\ pc = "analyse" /\ written' = written /\ in' = in
        /\ pc' = "analyse" \/ (pc' = "done" /\ (Main => exit' = 2))
    BY <1>7 DEF Analyse, ended
  <2>2. ~ Delivered' /\ Main' = Main
    BY <2>1 DEF RunTypes, Delivered, Main
  <2> HIDE DEF Main
  <2> QED
    BY <2>1, <2>2 DEF ExitInv
<1>8. CASE FetchRaises
  BY <1>8 DEF FetchRaises, Fetching, JavasTurn, ExitInv, RunTypes, Delivered
<1>9. CASE Render
  <2>1. CASE ~ Refuse
    <3>1. pc' = (IF Main THEN "write" ELSE "done") /\ in' = in
      BY <1>9, <2>1 DEF Render, Go
    <3> QED
      BY <3>1 DEF ExitInv, Main
  <2> QED
    BY <1>3, <1>9, <2>1 DEF Render
<1>10. CASE Write
  <2>1. CASE ~ Refuse
    <3>1. pc' = "exit" /\ written' = Target
      BY <1>10, <2>1 DEF Write, Go
    <3>2. Target # <<"nowhere">>
      <4>1. \A x, y : <<x, y>> # <<"nowhere">>
        OBVIOUS
      <4>2. Target \in {<<argv.output, "report">>, <<"cwd", ProjectName>>, <<"stdout">>}
        BY DEF Target
      <4> QED
        BY <4>1, <4>2
    <3> QED
      BY <3>1, <3>2 DEF ExitInv, Delivered
  <2> QED
    BY <1>3, <1>10, <2>1 DEF Write
<1>11. CASE WriteFails
  BY <1>3, <1>11 DEF WriteFails
<1>12. CASE Exit
  <2>1. /\ pc = "exit" /\ exit' = ExitCode /\ pc' = "done" /\ report # <<>>
        /\ UNCHANGED <<in, deps, findings, report, written>>
    BY <1>12 DEF Exit, Go, merged, RunTypes
  <2>2. Delivered' /\ ExitCode' = ExitCode
    BY <2>1, SameExitCode DEF ExitInv, Delivered
  <2> QED
    BY <2>1, <2>2 DEF ExitInv
<1>13. CASE UNCHANGED vars
  <2>1. ExitCode' = ExitCode /\ Main' = Main /\ (Delivered' <=> Delivered)
        /\ pc' = pc /\ report' = report /\ exit' = exit
    BY <1>13, SameExitCode DEF vars, merged, ended, Delivered
  <2> HIDE DEF Main, Delivered, ExitCode
  <2> QED
    BY <2>1 DEF ExitInv
<1> QED
  BY <1>1, <1>4, <1>5, <1>6, <1>7, <1>8, <1>9, <1>10, <1>11, <1>12, <1>13 DEF Step

\* The exit code a script sees fits the report it reads (README, "Exit codes"),
\* whatever the analysers and the templates found.
THEOREM ExitCodeFits == SSpec => []ExitFitsReport
<1> DEFINE Inv == RunTypes /\ AccountInv /\ ExitInv
<1>1. SInit => Inv
  BY TypesInit, AccountInit DEF SInit, Init, ExitInv
<1>2. Inv /\ [SNext]_svars => Inv'
  BY TypesKept, AccountStep, ExitStep
<1>3. Inv => ExitFitsReport
  <2> SUFFICES ASSUME Inv, pc = "done", Main PROVE ExitFitsReport
    BY DEF ExitFitsReport
  <2>1. IF Delivered THEN report # <<>> /\ exit = ExitCode ELSE exit = 2
    BY DEF ExitInv
  <2>2. CASE ~ Delivered
    BY <2>1, <2>2 DEF ExitFitsReport
  <2>3. CASE Delivered
    <3>1. report[1].deps = deps /\ AllFindings = Range(findings) /\ exit = ExitCode
      BY <2>1, <2>3 DEF RunTypes, AccountInv
    <3> HIDE DEF AllFindings, ExitCode, Main, Delivered
    <3> QED
      BY <2>3, <3>1, ExitCodeIs DEF ExitFitsReport, Gates
  <2> QED
    BY <2>2, <2>3
<1> QED
  BY <1>1, <1>2, <1>3, PTL DEF SSpec
-----------------------------------------------------------------------------
(* Selections of a concatenation. *)

\* A strictly increasing enumeration of a set of positions is what At follows.
LEMMA Enumerates ==
  ASSUME NEW I \in SUBSET Nat, NEW N \in Nat, NEW f \in [1..N -> I],
         \A m, n \in 1..N : m < n => f[m] < f[n],
         \A i \in I : \E n \in 1..N : f[n] = i
  PROVE  /\ IsFiniteSet(I) /\ Cardinality(I) = N
         /\ \A n \in 1..N : Rank(I, f[n]) = n
<1> DEFINE Upto(n) == {j \in I : j <= f[n]}
<1>1. \A n \in 1..N : f[n] \in Nat
  OBVIOUS
<1>2. \A m, n \in 1..N : m # n => f[m] # f[n]
  <2>1. \A m, n \in 1..N : m # n => m < n \/ n < m
    OBVIOUS
  <2> QED
    BY <1>1, <2>1
<1>3. f \in Bijection(1..N, I)
  BY <1>2 DEF Bijection, Injection, Surjection, IsInjective
<1>4. IsFiniteSet(1..N) /\ Cardinality(1..N) = N
  BY FS_Interval
<1>5. IsFiniteSet(I) /\ Cardinality(I) = N
  BY <1>3, <1>4, FS_Bijection DEF ExistsBijection
<1>6. ASSUME NEW n \in 1..N PROVE Cardinality(Upto(n)) = n
  <2> DEFINE g == [m \in 1..n |-> f[m]]
  <2>1. \A m \in 1..n : m \in 1..N /\ (m = n \/ m < n)
    OBVIOUS
  <2>2. \A m \in 1..n : f[m] \in Upto(n)
    <3>1. ASSUME NEW m \in 1..n PROVE f[m] \in Upto(n)
      <4>1. m \in 1..N /\ (m = n \/ m < n)
        BY <2>1
      <4>2. f[m] \in I /\ f[m] \in Nat /\ f[n] \in Nat
        BY <1>1, <4>1
      <4>3. f[m] <= f[n]
        BY <4>1, <4>2
      <4> QED
        BY <4>2, <4>3
    <3> QED
      BY <3>1
  <2>3. \A i \in Upto(n) : \E m \in 1..n : f[m] = i
    <3>1. ASSUME NEW i \in Upto(n) PROVE \E m \in 1..n : f[m] = i
      <4>1. PICK m \in 1..N : f[m] = i
        OBVIOUS
      <4>2. ~ n < m
        BY <1>1, <4>1
      <4>3. m \in 1..n
        BY <4>2
      <4> QED
        BY <4>1, <4>3
    <3> QED
      BY <3>1
  <2> HIDE DEF Upto
  <2>4. g \in Bijection(1..n, Upto(n))
    BY <1>2, <2>1, <2>2, <2>3 DEF Bijection, Injection, Surjection, IsInjective
  <2>5. IsFiniteSet(1..n) /\ Cardinality(1..n) = n
    BY FS_Interval
  <2> QED
    BY <2>4, <2>5, FS_Bijection DEF ExistsBijection
<1> QED
  BY <1>5, <1>6 DEF Rank

\* A filter of a filter is one filter.
LEMMA AtOfAt ==
  ASSUME NEW X, NEW s \in Seq(X), NEW I \in SUBSET DOMAIN s, NEW J \in SUBSET I
  PROVE  /\ At(s, I) \in Seq(X)
         /\ At(At(s, I), {Rank(I, i) : i \in J}) = At(s, J)
<1>1. I \in SUBSET Nat /\ IsFiniteSet(I) /\ J \in SUBSET Nat /\ IsFiniteSet(J)
  <2>1. DOMAIN s = 1..Len(s) /\ Len(s) \in Nat
    OBVIOUS
  <2>2. IsFiniteSet(DOMAIN s)
    BY <2>1, FS_Interval
  <2> QED
    BY <2>1, <2>2, FS_Subset
<1>2. /\ Cardinality(I) \in Nat
      /\ \A i \in I : Rank(I, i) \in 1..Cardinality(I)
      /\ \A i, j \in I : i < j => Rank(I, i) < Rank(I, j)
  BY <1>1, RankOrder
<1>3. /\ Cardinality(J) \in Nat
      /\ \A i \in J : Rank(J, i) \in 1..Cardinality(J)
      /\ \A i, j \in J : i < j => Rank(J, i) < Rank(J, j)
      /\ \A n \in 1..Cardinality(J) : \E i \in J : Rank(J, i) = n
  BY <1>1, RankOrder
<1> DEFINE N == Cardinality(J)
           K == {Rank(I, i) : i \in J}
           pos == [n \in 1..N |-> CHOOSE i \in J : Rank(J, i) = n]
           f == [n \in 1..N |-> Rank(I, pos[n])]
           t == At(s, I)
<1>4. \A n \in 1..N : pos[n] \in J /\ Rank(J, pos[n]) = n
  BY <1>3
<1> HIDE DEF pos
<1>5. \A m, n \in 1..N : m < n => pos[m] < pos[n]
  <2> SUFFICES ASSUME NEW m \in 1..N, NEW n \in 1..N, m < n PROVE pos[m] < pos[n]
    OBVIOUS
  <2>1. pos[m] \in Nat /\ pos[n] \in Nat /\ pos[m] \in J /\ pos[n] \in J
        /\ Rank(J, pos[m]) = m /\ Rank(J, pos[n]) = n
    BY <1>1, <1>4
  <2>2. pos[m] # pos[n] /\ ~ pos[n] < pos[m]
    BY <1>3, <2>1
  <2> QED
    BY <2>1, <2>2
<1>6. f \in [1..N -> K] /\ K \in SUBSET Nat
  BY <1>2, <1>4
<1>7. \A m, n \in 1..N : m < n => f[m] < f[n]
  BY <1>2, <1>4, <1>5
<1>8. \A k \in K : \E n \in 1..N : f[n] = k
  <2>1. ASSUME NEW i \in J PROVE f[Rank(J, i)] = Rank(I, i) /\ Rank(J, i) \in 1..N
    <3>1. \A j \in J : Rank(J, j) = Rank(J, i) => j = i
      <4>1. \A j \in J : j < i \/ i < j \/ i = j
        BY <1>1
      <4> QED
        BY <1>3, <4>1
    <3>2. Rank(J, i) \in 1..N
      BY <1>3
    <3>3. pos[Rank(J, i)] = i
      BY <1>4, <3>1, <3>2
    <3> QED
      BY <3>2, <3>3
  <2>2. \A k \in K : \E i \in J : k = Rank(I, i)
    OBVIOUS
  <2> HIDE DEF f, K, N
  <2> QED
    BY <2>1, <2>2
<1>9. N \in Nat
  BY <1>3
<1> HIDE DEF f, K, N
<1>10. IsFiniteSet(K) /\ Cardinality(K) = N /\ \A n \in 1..N : Rank(K, f[n]) = n
  BY <1>6, <1>7, <1>8, <1>9, Enumerates
<1>11. /\ DOMAIN t = 1..Cardinality(I) /\ \A i \in I : t[Rank(I, i)] = s[i]
  BY <1>1, AtPositions
<1>12. /\ DOMAIN At(s, J) = 1..N /\ \A i \in J : At(s, J)[Rank(J, i)] = s[i]
  BY <1>1, AtPositions DEF N
<1>13. /\ DOMAIN At(t, K) = 1..N /\ \A k \in K : At(t, K)[Rank(K, k)] = t[k]
  BY <1>6, <1>10, AtPositions
<1>14. \A n \in 1..N : At(t, K)[n] = s[pos[n]]
  BY <1>4, <1>6, <1>10, <1>11, <1>13 DEF f
<1>15. \A n \in 1..N : At(s, J)[n] = s[pos[n]]
  BY <1>4, <1>12
<1>16. At(t, K) = [n \in 1..N |-> At(t, K)[n]] /\ At(s, J) = [n \in 1..N |-> At(s, J)[n]]
  BY <1>10 DEF At, N
<1>17. At(t, K) = At(s, J)
  BY <1>14, <1>15, <1>16
<1>18. t \in Seq(X)
  BY AtIsSeq
<1> QED
  BY <1>17, <1>18 DEF K

\* The elements of s that are in K stand together in it, and are b.
Block(s, K, b) ==
  \E a \in Nat : /\ {i \in DOMAIN s : s[i] \in K} = (a + 1)..(a + Len(b))
                 /\ \A k \in 1..Len(b) : s[a + k] = b[k]

\* Selecting what is in K gives the block.
LEMMA BlockIsSelected ==
  ASSUME NEW X, NEW K, NEW s \in Seq(X), NEW b \in Seq(X), Block(s, K, b)
  PROVE  At(s, {i \in DOMAIN s : s[i] \in K}) = b
<1> DEFINE I == {i \in DOMAIN s : s[i] \in K}
           N == Len(b)
<1>1. PICK a \in Nat : I = (a + 1)..(a + N) /\ \A k \in 1..N : s[a + k] = b[k]
  BY DEF Block
<1> DEFINE f == [k \in 1..N |-> a + k]
<1>2. N \in Nat /\ DOMAIN b = 1..N
  OBVIOUS
<1> HIDE DEF I, N
<1>3. I \in SUBSET Nat /\ f \in [1..N -> I] /\ \A m, n \in 1..N : m < n => f[m] < f[n]
  BY <1>1, <1>2
<1>4. \A i \in I : \E n \in 1..N : f[n] = i
  <2>1. \A i \in I : i - a \in 1..N /\ a + (i - a) = i
    BY <1>1, <1>2
  <2> QED
    BY <2>1
<1>5. IsFiniteSet(I) /\ Cardinality(I) = N /\ \A n \in 1..N : Rank(I, f[n]) = n
  <2> HIDE DEF f
  <2> QED
    BY <1>2, <1>3, <1>4, Enumerates
<1>6. DOMAIN At(s, I) = 1..N /\ \A i \in I : At(s, I)[Rank(I, i)] = s[i]
  BY <1>3, <1>5, AtPositions
<1>7. \A n \in 1..N : At(s, I)[n] = b[n]
  BY <1>1, <1>3, <1>5, <1>6
<1>8. At(s, I) = [n \in 1..N |-> At(s, I)[n]] /\ b = [n \in 1..N |-> b[n]]
  BY <1>2, <1>5 DEF At, N
<1> QED
  BY <1>7, <1>8 DEF I

\* A block stays one when something without elements of K goes before or after.
LEMMA BlockOfConcat ==
  ASSUME NEW X, NEW K, NEW s \in Seq(X), NEW t \in Seq(X), NEW b \in Seq(X)
  PROVE  /\ Block(s, K, b) /\ Block(t, K, <<>>) => Block(s \o t, K, b)
         /\ Block(s, K, <<>>) /\ Block(t, K, b) => Block(s \o t, K, b)
<1> DEFINE M == Len(s)
           N == Len(t)
           C(x) == {i \in DOMAIN x : x[i] \in K}
<1>1. /\ M \in Nat /\ N \in Nat /\ Len(b) \in Nat /\ DOMAIN s = 1..M /\ DOMAIN t = 1..N
      /\ DOMAIN (s \o t) = 1..(M + N)
  OBVIOUS
<1>2. /\ \A i \in 1..M : (s \o t)[i] = s[i]
      /\ \A i \in 1..(M + N) : ~ i \in 1..M => i - M \in 1..N /\ (s \o t)[i] = t[i - M]
      /\ \A k \in 1..N : M + k \in 1..(M + N) /\ (s \o t)[M + k] = t[k]
  BY <1>1
<1>3. \A x : Block(x, K, <<>>) <=> C(x) = {}
  <2>1. \A a \in Nat : (a + 1)..(a + 0) = {}
    OBVIOUS
  <2>2. Len(<<>>) = 0 /\ 1..0 = {} /\ 0 \in Nat
    OBVIOUS
  <2> QED
    BY <2>1, <2>2 DEF Block
<1>4. ASSUME Block(s, K, b), Block(t, K, <<>>) PROVE Block(s \o t, K, b)
  <2>1. PICK a \in Nat : C(s) = (a + 1)..(a + Len(b)) /\ \A k \in 1..Len(b) : s[a + k] = b[k]
    BY <1>4 DEF Block
  <2>2. C(t) = {}
    BY <1>3, <1>4
  <2>3. C(s \o t) = C(s)
    <3>1. \A i \in 1..(M + N) : i \in C(s \o t) <=> i \in C(s)
      BY <1>1, <1>2, <2>2
    <3>2. C(s) \subseteq 1..(M + N) /\ C(s \o t) \subseteq 1..(M + N)
      BY <1>1
    <3> HIDE DEF C
    <3> QED
      BY <3>1, <3>2
  <2>4. \A k \in 1..Len(b) : (s \o t)[a + k] = b[k]
    <3>1. \A k \in 1..Len(b) : a + k \in (a + 1)..(a + Len(b))
      BY <1>1
    <3>2. \A k \in 1..Len(b) : a + k \in 1..M
      BY <1>1, <2>1, <3>1
    <3> QED
      BY <1>2, <2>1, <3>2
  <2> QED
    BY <2>1, <2>3, <2>4 DEF Block
<1>5. ASSUME Block(s, K, <<>>), Block(t, K, b) PROVE Block(s \o t, K, b)
  <2>1. PICK a \in Nat : C(t) = (a + 1)..(a + Len(b)) /\ \A k \in 1..Len(b) : t[a + k] = b[k]
    BY <1>5 DEF Block
  <2>2. C(s) = {}
    BY <1>3, <1>5
  <2>3. M + a \in Nat
    BY <1>1
  <2>4. C(s \o t) = (M + a + 1)..(M + a + Len(b))
    <3>1. \A i \in C(s \o t) : i - M \in C(t) /\ i \in Int
      BY <1>1, <1>2, <2>2
    <3>2. \A k \in C(t) : M + k \in C(s \o t)
      BY <1>1, <1>2
    <3> HIDE DEF C, M
    <3>3. \A i \in Int : i - M \in (a + 1)..(a + Len(b)) => i \in (M + a + 1)..(M + a + Len(b))
      BY <1>1, <2>3
    <3>4. \A i \in (M + a + 1)..(M + a + Len(b)) : i - M \in (a + 1)..(a + Len(b)) /\ M + (i - M) = i
      BY <1>1, <2>3
    <3> QED
      BY <2>1, <3>1, <3>2, <3>3, <3>4
  <2>5. \A k \in 1..Len(b) : (s \o t)[(M + a) + k] = b[k]
    <3>1. \A k \in 1..Len(b) : a + k \in (a + 1)..(a + Len(b)) /\ M + (a + k) = (M + a) + k
      BY <1>1
    <3>2. \A k \in 1..Len(b) : a + k \in 1..N
      BY <1>1, <2>1, <3>1
    <3>3. \A k \in 1..Len(b) : (s \o t)[M + (a + k)] = t[a + k]
      BY <1>2, <3>2
    <3> QED
      BY <2>1, <3>1, <3>3
  <2> HIDE DEF M, C
  <2>6. \E c \in Nat : C(s \o t) = (c + 1)..(c + Len(b)) /\ \A k \in 1..Len(b) : (s \o t)[c + k] = b[k]
    BY <2>3, <2>4, <2>5
  <2> QED
    BY <2>6 DEF Block, C
<1> QED
  BY <1>4, <1>5

\* When only one of several sequences has elements in K, theirs is the block.
LEMMA BlockOfFlatten ==
  ASSUME NEW X, NEW K, NEW seqs \in Seq(Seq(X)), NEW b \in Seq(X), NEW p \in DOMAIN seqs,
         Block(seqs[p], K, b), \A i \in DOMAIN seqs : i # p => Block(seqs[i], K, <<>>)
  PROVE  FlattenSeq(seqs) \in Seq(X) /\ Block(FlattenSeq(seqs), K, b)
<1> DEFINE L == Len(seqs)
<1>1. L \in Nat /\ L > 0 /\ p \in 1..L /\ DOMAIN seqs = 1..L /\ seqs # <<>> /\ L \in 1..L /\ p <= L
  OBVIOUS
<1>2. PICK flat : /\ flat[1] = seqs[1]
                  /\ \A i \in 2..L : flat[i] = flat[i - 1] \o seqs[i]
                  /\ \A i \in 1..L : flat[i] \in Seq(X)
                  /\ FlattenSeq(seqs) = flat[L]
  BY <1>1, FlattenUnfolds
<1> DEFINE Wrong == {i \in 1..L : ~ Block(flat[i], K, IF i < p THEN <<>> ELSE b)}
<1>3. Wrong = {}
  <2> SUFFICES ASSUME Wrong # {} PROVE FALSE
    OBVIOUS
  <2>1. Wrong \in SUBSET Nat
    BY <1>1
  <2> HIDE DEF Wrong
  <2>2. PICK i \in Wrong : \A m \in Wrong : i <= m
    BY <2>1, LeastNumber
  <2>3. i \in 1..L /\ ~ Block(flat[i], K, IF i < p THEN <<>> ELSE b)
    BY <2>2 DEF Wrong
  <2>4. CASE i = 1
    <3>1. i < p \/ i = p
      BY <1>1, <2>4
    <3>2. flat[i] = seqs[i]
      BY <1>2, <2>4
    <3>3. Block(seqs[i], K, IF i < p THEN <<>> ELSE b)
      <4>1. CASE i < p
        <5>1. i \in DOMAIN seqs /\ i # p
          BY <1>1, <2>3, <4>1
        <5> QED
          BY <4>1, <5>1
      <4>2. CASE i = p
        BY <1>1, <4>2
      <4> QED
        BY <3>1, <4>1, <4>2
    <3> QED
      BY <2>3, <3>2, <3>3
  <2>5. CASE i # 1
    <3>1. i \in 2..L /\ i - 1 \in 1..L /\ ~ i <= i - 1
      BY <1>1, <2>3, <2>5
    <3>2. i - 1 \notin Wrong
      BY <2>2, <3>1
    <3>3. Block(flat[i - 1], K, IF i - 1 < p THEN <<>> ELSE b)
      BY <3>1, <3>2 DEF Wrong
    <3>4. flat[i] = flat[i - 1] \o seqs[i] /\ flat[i - 1] \in Seq(X) /\ seqs[i] \in Seq(X) /\ <<>> \in Seq(X)
      <4>1. flat[i] = flat[i - 1] \o seqs[i] /\ flat[i - 1] \in Seq(X)
        BY <1>2, <3>1
      <4>2. seqs[i] \in Seq(X) /\ <<>> \in Seq(X)
        BY <1>1, <2>3
      <4> QED
        BY <4>1, <4>2
    <3>5. CASE i < p
      <4>1. i - 1 < p /\ i # p
        BY <1>1, <2>3, <3>5
      <4> QED
        BY <1>1, <2>3, <3>3, <3>4, <3>5, <4>1, BlockOfConcat
    <3>6. CASE i = p
      <4>1. i - 1 < p /\ ~ i < p
        BY <1>1, <2>3, <3>6
      <4> QED
        BY <2>3, <3>3, <3>4, <3>6, <4>1, BlockOfConcat
    <3>7. CASE p < i
      <4>1. ~ i - 1 < p /\ ~ i < p /\ i # p
        BY <1>1, <2>3, <3>7
      <4> QED
        BY <1>1, <2>3, <3>3, <3>4, <4>1, BlockOfConcat
    <3>8. i < p \/ i = p \/ p < i
      BY <1>1, <2>3
    <3> QED
      BY <3>5, <3>6, <3>7, <3>8
  <2> QED
    BY <2>4, <2>5
<1>4. ~ L < p
  BY <1>1
<1> QED
  BY <1>1, <1>2, <1>3, <1>4

\* A sequence all of whose elements are in K is a block, and so is none.
LEMMA BlockOfAll ==
  ASSUME NEW X, NEW K, NEW s \in Seq(X)
  PROVE  /\ (\A i \in DOMAIN s : s[i] \in K) => Block(s, K, s)
         /\ (\A i \in DOMAIN s : s[i] \notin K) => Block(s, K, <<>>)
<1>1. DOMAIN s = 1..Len(s) /\ Len(s) \in Nat /\ 0 \in Nat /\ 0 + 1 = 1 /\ 0 + Len(s) = Len(s)
      /\ \A k \in 1..Len(s) : 0 + k = k
  OBVIOUS
<1>2. ASSUME \A i \in DOMAIN s : s[i] \in K PROVE Block(s, K, s)
  <2>1. {i \in DOMAIN s : s[i] \in K} = (0 + 1)..(0 + Len(s)) /\ \A k \in 1..Len(s) : s[0 + k] = s[k]
    BY <1>1, <1>2
  <2> QED
    BY <1>1, <2>1 DEF Block
<1>3. ASSUME \A i \in DOMAIN s : s[i] \notin K PROVE Block(s, K, <<>>)
  <2>1. {i \in DOMAIN s : s[i] \in K} = (0 + 1)..(0 + Len(<<>>)) /\ \A k \in 1..Len(<<>>) : s[0 + k] = <<>>[k]
    BY <1>1, <1>3
  <2> QED
    BY <1>1, <2>1 DEF Block
<1> QED
  BY <1>2, <1>3
-----------------------------------------------------------------------------
(* Whose indexes are asked (FR-259). *)

\* The list of e is that of one source, and those above it offer nothing.
OwnedBy(list, e) ==
  LET order == <<"cli", "user_config">>
  IN \/ list = <<>> /\ \A i \in 1..2 : Offers(order[i], e) = <<>>
     \/ \E i \in 1..2 :
          /\ \A j \in 1..(i - 1) : Offers(order[j], e) = <<>>
          /\ Len(list) = Len(Offers(order[i], e))
          /\ \A k \in DOMAIN list : /\ list[k].source = order[i]
                                    /\ list[k].url = Offers(order[i], e)[k].url

\* Every ecosystem has one owner in the list.
Owned(list) == \A e \in Ecos : OwnedBy(Where(list, LAMBDA p : p.eco = e), e)

\* What is read of the user's file and of the command line.
Listed == Where(set.files[ConfigHome].entries, LAMBDA x : x.isList)
WellFormed == Where(set.cli, LAMBDA x : x.eco # "")
InFile == IF set.files[ConfigHome].state = "tables" THEN Accepted(Listed) ELSE Empty

\* The body of OneOwner: those above it also pass e on.
PassedOn(list, e) ==
  LET order == <<"cli", "user_config">>
  IN \/ list = <<>> /\ \A i \in 1..2 : PassesOn(order[i], e)
     \/ \E i \in 1..2 :
          /\ \A j \in 1..(i - 1) : PassesOn(order[j], e)
          /\ Len(list) = Len(Offers(order[i], e))
          /\ \A k \in DOMAIN list : /\ list[k].source = order[i]
                                    /\ list[k].url = Offers(order[i], e)[k].url

\* A source with entries for e of which none is acceptable has had its warning.
Warned(s) ==
  \A e \in Ecos : Offers(s, e) = <<>> => PassesOn(s, e)
WarnedInv ==
  /\ step \notin {"cli", "done"} => Warned("cli")
  /\ step \notin {"cli", "config", "toml", "done"} => Warned("user_config")

\* What each source has said by now, and whose the merged list is.
OwnerInv ==
  /\ set \in Settings
  /\ step # "done" => set.fetch
  /\ DOMAIN found = {"cli", "user_config", "env"}
  /\ step \in {"config", "toml", "env", "merge"} => found["cli"] = Accepted(WellFormed)
  /\ step \in {"cli", "config", "toml"} => found["user_config"] = Empty
  /\ step = "toml" => set.files[ConfigHome].state \in {"malformed", "tables"}
  /\ step \in {"env", "merge"} => found["user_config"] = InFile
  /\ step \in {"build", "ask", "validate", "pin", "connect"} =>
       Owned(endpoints)

\* The three sources, as a set.
LEMMA SourcesAre == Range(Sources) = {"cli", "user_config", "env"}
<1>1. DOMAIN Sources = 1..3 /\ Sources[1] = "cli" /\ Sources[2] = "user_config" /\ Sources[3] = "env"
  BY DEF Sources
<1>2. \A i \in 1..3 : i = 1 \/ i = 2 \/ i = 3
  OBVIOUS
<1>3. 1 \in 1..3 /\ 2 \in 1..3 /\ 3 \in 1..3
  OBVIOUS
<1> HIDE DEF Sources
<1> QED
  BY <1>1, <1>2, <1>3 DEF Range

\* The file an operator's list comes from holds sequences.
LEMMA EntriesAreSeqs ==
  ASSUME set \in Settings
  PROVE  /\ set.cli \in Seq(Range(set.cli))
         /\ LET f == set.files[ConfigHome] IN f.state \in States /\ f.entries \in Seq(Range(f.entries))
BY SettingAssumption DEF IsSetting, ConfigHome

\* The accepted URLs of an ecosystem are those of the acceptable entries.
LEMMA AcceptedUrls ==
  ASSUME NEW entries, entries \in Seq(Range(entries)), NEW e \in Ecos
  PROVE  LET chosen == At(entries, {i \in DOMAIN entries : entries[i].eco = e /\ Acceptable(entries[i].url)})
         IN /\ chosen \in Seq(Range(entries))
            /\ Accepted(entries)[e] = [i \in DOMAIN chosen |-> chosen[i].url]
BY AtIsSeq DEF Accepted, Where

\* What the command line and the file have accepted for e is what they offer.
LEMMA AcceptedOffers ==
  ASSUME set \in Settings, NEW e \in Ecos
  PROVE  /\ Offers("cli", e) \in Seq(Range(set.cli))
         /\ Accepted(WellFormed)[e] = [i \in DOMAIN Offers("cli", e) |-> Offers("cli", e)[i].url]
         /\ Offers("user_config", e) \in Seq(Range(set.files[ConfigHome].entries))
         /\ InFile[e] = [i \in DOMAIN Offers("user_config", e) |-> Offers("user_config", e)[i].url]
<1> DEFINE c == set.cli
           es == set.files[ConfigHome].entries
<1>1. c \in Seq(Range(c)) /\ es \in Seq(Range(es)) /\ e # ""
  BY EntriesAreSeqs, EcoAssumption
<1>2. Accepted(WellFormed)[e] = [i \in DOMAIN Offers("cli", e) |-> Offers("cli", e)[i].url]
      /\ Offers("cli", e) \in Seq(Range(c))
  <2> DEFINE I == {i \in DOMAIN c : c[i].eco # ""}
             J == {i \in DOMAIN c : c[i].eco = e /\ Acceptable(c[i].url)}
             w == At(c, I)
             K == {i \in DOMAIN w : w[i].eco = e /\ Acceptable(w[i].url)}
  <2>1. J \in SUBSET I /\ I \in SUBSET DOMAIN c
    BY <1>1
  <2>2. w \in Seq(Range(c)) /\ At(w, {Rank(I, i) : i \in J}) = At(c, J)
    <3> HIDE DEF I, J, K, c, es
    <3>1. c \in Seq(Range(c))
      BY <1>1
    <3> QED
      BY <2>1, <3>1, AtOfAt
  <2>3. K = {Rank(I, i) : i \in J}
    <3>1. I \in SUBSET Nat /\ IsFiniteSet(I)
      <4>1. DOMAIN c = 1..Len(c) /\ Len(c) \in Nat
        <5>1. \A X : \A t \in Seq(X) : DOMAIN t = 1..Len(t) /\ Len(t) \in Nat
          OBVIOUS
        <5> QED
          BY <1>1, <5>1
      <4> HIDE DEF I, c
      <4>2. IsFiniteSet(DOMAIN c)
        BY <4>1, FS_Interval
      <4> QED
        BY <2>1, <4>1, <4>2, FS_Subset
    <3>2. /\ DOMAIN w = 1..Cardinality(I) /\ \A i \in I : w[Rank(I, i)] = c[i]
          /\ \A i \in I : Rank(I, i) \in 1..Cardinality(I)
          /\ \A n \in 1..Cardinality(I) : \E i \in I : Rank(I, i) = n
      BY <3>1, AtPositions, RankOrder
    <3>3. \A i \in I : Rank(I, i) \in K <=> i \in J
      BY <3>2
    <3> HIDE DEF I, w
    <3>4. \A n \in K : \E i \in I : Rank(I, i) = n
      BY <3>2
    <3> HIDE DEF J, K
    <3>5. J \subseteq I
      BY <2>1
    <3> QED
      BY <3>3, <3>4, <3>5
  <2>4. Offers("cli", e) = At(c, J)
    BY DEF Offers, Where
  <2>5. WellFormed = w
    BY DEF WellFormed, Where
  <2>6. Accepted(w)[e] = [i \in DOMAIN At(w, K) |-> At(w, K)[i].url]
    BY DEF Accepted, Where
  <2>7. At(c, J) \in Seq(Range(c))
    BY <1>1, AtIsSeq
  <2> HIDE DEF w, K, J, I
  <2> QED
    BY <2>2, <2>3, <2>4, <2>5, <2>6, <2>7
<1>3. InFile[e] = [i \in DOMAIN Offers("user_config", e) |-> Offers("user_config", e)[i].url]
      /\ Offers("user_config", e) \in Seq(Range(es))
  <2>1. ConfigHome = IF set.xdg = "elsewhere" THEN "xdg" ELSE "home"
    BY DEF ConfigHome
  <2> DEFINE tables == set.files[ConfigHome].state = "tables"
             list == IF tables THEN Listed ELSE <<>>
             J == {i \in DOMAIN list : list[i].eco = e /\ Acceptable(list[i].url)}
  <2>2. Listed \in Seq(Range(es))
    BY <1>1, AtIsSeq DEF Listed, Where
  <2>3. list \in Seq(Range(es))
    <3>1. <<>> \in Seq(Range(es))
      OBVIOUS
    <3> QED
      BY <2>2, <3>1
  <2>4. Offers("user_config", e) = At(list, J)
    BY <2>1 DEF Offers, Where, Listed, ConfigHome
  <2>5. CASE tables
    <3>1. InFile[e] = [i \in DOMAIN At(list, J) |-> At(list, J)[i].url]
      BY <2>5 DEF InFile, Accepted, Where
    <3>2. At(list, J) \in Seq(Range(es))
      BY <2>3, AtIsSeq
    <3> QED
      BY <2>4, <3>1, <3>2
  <2>6. CASE ~ tables
    <3>1. list = <<>> /\ J = {}
      BY <2>6
    <3>2. At(list, J) = <<>>
      <4>1. At(list, J) \in Seq(Range(es))
        BY <2>3, AtIsSeq
      <4>2. Len(At(list, J)) = 0
        BY <3>1, FS_EmptySet, AtPositions
      <4> HIDE DEF list, J
      <4> QED
        BY <4>1, <4>2
    <3>3. InFile[e] = <<>>
      BY <2>6 DEF InFile, Empty
    <3>4. Offers("user_config", e) = <<>>
      BY <2>4, <3>2
    <3>5. [i \in DOMAIN <<>> |-> <<>>[i].url] = <<>> /\ <<>> \in Seq(Range(es))
      OBVIOUS
    <3> QED
      BY <3>3, <3>4, <3>5
  <2> QED
    BY <2>5, <2>6
<1> QED
  BY <1>2, <1>3

\* What counts of a source is what it offers.
LEMMA ConsideredAre ==
  ASSUME OwnerInv, step = "merge", NEW c \in Ecos
  PROVE  /\ \A s \in {"cli", "user_config"} :
              /\ Len(Offers(s, c)) \in Nat /\ DOMAIN Offers(s, c) = 1..Len(Offers(s, c))
              /\ Offers(s, c) = <<>> <=> Len(Offers(s, c)) = 0
              /\ Considered(s)[c] = [i \in DOMAIN Offers(s, c) |-> Offers(s, c)[i].url]
         /\ Considered("env")[c] = <<>>
<1>1. set \in Settings /\ set.fetch /\ found["cli"] = Accepted(WellFormed) /\ found["user_config"] = InFile
  BY DEF OwnerInv
<1>2. /\ Offers("cli", c) \in Seq(Range(set.cli))
      /\ Accepted(WellFormed)[c] = [i \in DOMAIN Offers("cli", c) |-> Offers("cli", c)[i].url]
      /\ Offers("user_config", c) \in Seq(Range(set.files[ConfigHome].entries))
      /\ InFile[c] = [i \in DOMAIN Offers("user_config", c) |-> Offers("user_config", c)[i].url]
  BY <1>1, AcceptedOffers
<1>3. \A X : \A t \in Seq(X) : Len(t) \in Nat /\ DOMAIN t = 1..Len(t) /\ (t = <<>> <=> Len(t) = 0)
  OBVIOUS
<1>4. Considered("cli") = Accepted(WellFormed) /\ Considered("user_config") = InFile /\ Considered("env") = Empty
  BY <1>1 DEF Considered
<1>5. Considered("env")[c] = <<>>
  BY <1>4 DEF Empty
<1>6. ASSUME NEW s \in {"cli", "user_config"}
      PROVE  /\ \E X : Offers(s, c) \in Seq(X)
             /\ Considered(s)[c] = [i \in DOMAIN Offers(s, c) |-> Offers(s, c)[i].url]
  <2>1. CASE s = "cli"
    BY <1>2, <1>4, <2>1
  <2>2. CASE s = "user_config"
    BY <1>2, <1>4, <2>2
  <2> QED
    BY <2>1, <2>2
<1> QED
  BY <1>3, <1>5, <1>6

\* Who owns an ecosystem has its whole list, and nobody else has any of it.
LEMMA OneHasAll ==
  ASSUME OwnerInv, step = "merge", NEW e \in Ecos
  PROVE  LET order == <<"cli", "user_config">>
             all(s) == [k \in DOMAIN Offers(s, e) |-> [eco |-> e, url |-> Offers(s, e)[k].url, source |-> s]]
         IN \/ /\ \A i \in 1..2 : Offers(order[i], e) = <<>>
               /\ \A s \in Range(Sources) : EndpointsOf(s, e) = <<>>
            \/ \E i \in 1..2 :
                 /\ \A j \in 1..(i - 1) : Offers(order[j], e) = <<>>
                 /\ EndpointsOf(order[i], e) = all(order[i])
                 /\ \A s \in Range(Sources) \ {order[i]} : EndpointsOf(s, e) = <<>>
<1> DEFINE order == <<"cli", "user_config">>
           all(s) == [k \in DOMAIN Offers(s, e) |-> [eco |-> e, url |-> Offers(s, e)[k].url, source |-> s]]
           I == {i \in 1..3 : Considered(Sources[i])[e] # <<>>}
<1>1. /\ DOMAIN Sources = 1..3 /\ Sources[1] = "cli" /\ Sources[2] = "user_config" /\ Sources[3] = "env"
      /\ order[1] = "cli" /\ order[2] = "user_config" /\ Range(Sources) = {"cli", "user_config", "env"}
  BY SourcesAre DEF Sources
<1>2. \A s \in {"cli", "user_config"} :
        /\ Len(Offers(s, e)) \in Nat /\ DOMAIN Offers(s, e) = 1..Len(Offers(s, e))
        /\ Offers(s, e) = <<>> <=> Len(Offers(s, e)) = 0
        /\ Considered(s)[e] = [i \in DOMAIN Offers(s, e) |-> Offers(s, e)[i].url]
  BY ConsideredAre
<1>3. \A s \in {"cli", "user_config"} : Considered(s)[e] = <<>> <=> Offers(s, e) = <<>>
  <2>1. ASSUME NEW s \in {"cli", "user_config"} PROVE Considered(s)[e] = <<>> <=> Offers(s, e) = <<>>
    <3>1. CASE Offers(s, e) = <<>>
      <4>1. DOMAIN Offers(s, e) = {}
        BY <3>1
      <4> QED
        BY <1>2, <3>1, <4>1
    <3>2. CASE Offers(s, e) # <<>>
      <4>1. 1 \in DOMAIN Offers(s, e)
        BY <1>2, <3>2
      <4>2. 1 \in DOMAIN Considered(s)[e]
        BY <1>2, <4>1
      <4> QED
        BY <3>2, <4>2
    <3> QED
      BY <3>1, <3>2
  <2> QED
    BY <2>1
<1>4. I \in SUBSET 1..2 /\ (1 \in I <=> Offers("cli", e) # <<>>) /\ (2 \in I <=> Offers("user_config", e) # <<>>)
  <2>1. Considered("env")[e] = <<>>
    BY ConsideredAre
  <2>2. \A i \in 1..3 : i = 3 \/ i \in 1..2
    OBVIOUS
  <2>3. 1 \in 1..3 /\ 2 \in 1..3
    OBVIOUS
  <2> HIDE DEF order
  <2> QED
    BY <1>1, <1>3, <2>1, <2>2, <2>3
<1>5. Owner(e) = At(Sources, I)
  BY <1>1 DEF Owner, Where
<1>6. I \in SUBSET Nat /\ IsFiniteSet(I)
  <2> HIDE DEF I, order, all
  <2>1. 1 \in Int /\ 2 \in Int
    OBVIOUS
  <2>2. IsFiniteSet(1..2)
    BY <2>1, FS_Interval, Zenon
  <2>3. 1..2 \in SUBSET Nat
    OBVIOUS
  <2>4. I \in SUBSET 1..2
    BY <1>4
  <2>5. IsFiniteSet(I)
    BY <2>2, <2>4, FS_Subset, Zenon
  <2> QED
    BY <2>3, <2>4, <2>5
<1>7. DOMAIN At(Sources, I) = 1..Cardinality(I) /\ \A i \in I : At(Sources, I)[Rank(I, i)] = Sources[i]
  BY <1>6, AtPositions
<1>8. CASE I = {}
  <2>1. Owner(e) = <<>>
    <3>1. Cardinality(I) = 0
      BY <1>8, FS_EmptySet
    <3> HIDE DEF I
    <3> QED
      BY <1>5, <3>1 DEF At
  <2>2. \A s : EndpointsOf(s, e) = <<>>
    BY <2>1 DEF EndpointsOf
  <2>3. \A i \in 1..2 : i = 1 \/ i = 2
    OBVIOUS
  <2>4. \A i \in 1..2 : Offers(order[i], e) = <<>>
    <3> HIDE DEF I, order
    <3> QED
      BY <1>1, <1>4, <1>8, <2>3
  <2> QED
    BY <2>2, <2>4
<1>9. ASSUME NEW i \in 1..2, i \in I, \A j \in 1..(i - 1) : j \notin I
      PROVE  /\ \A j \in 1..(i - 1) : Offers(order[j], e) = <<>>
             /\ EndpointsOf(order[i], e) = all(order[i])
             /\ \A s \in Range(Sources) \ {order[i]} : EndpointsOf(s, e) = <<>>
  <2>1. {j \in I : j <= i} = {i}
    <3>1. \A j \in 1..2 : j <= i => j = i \/ j \in 1..(i - 1)
      OBVIOUS
    <3>2. i <= i
      OBVIOUS
    <3> HIDE DEF I
    <3> QED
      BY <1>4, <1>9, <3>1, <3>2
  <2>2. Rank(I, i) = 1 /\ Cardinality(I) # 0
    <3>1. Rank(I, i) = 1
      BY <2>1, FS_Singleton DEF Rank
    <3> HIDE DEF I
    <3>2. Cardinality(I) # 0
      BY <1>6, <1>9, FS_EmptySet
    <3> QED
      BY <3>1, <3>2
  <2>3. Owner(e)[1] = Sources[i] /\ Owner(e) # <<>>
    <3>1. Cardinality(I) \in Nat
      BY <1>6, FS_CardinalityType
    <3>2. 1 \in 1..Cardinality(I)
      BY <2>2, <3>1
    <3>3. 1 \in DOMAIN Owner(e)
      BY <1>5, <1>7, <3>2
    <3> HIDE DEF I, order, all
    <3>4. Owner(e)[1] = Sources[i]
      BY <1>5, <1>7, <1>9, <2>2
    <3>5. DOMAIN <<>> = {}
      OBVIOUS
    <3>6. Owner(e) # <<>>
      BY <3>3, <3>5
    <3> QED
      BY <3>4, <3>6
  <2>4. Sources[i] = order[i] /\ Head(Owner(e)) = order[i] /\ order[i] \in {"cli", "user_config"}
    <3>1. i = 1 \/ i = 2
      OBVIOUS
    <3>2. Head(Owner(e)) = Owner(e)[1]
      OBVIOUS
    <3> HIDE DEF order, I
    <3> QED
      BY <1>1, <2>3, <3>1, <3>2
  <2>5. \A s \in Range(Sources) \ {order[i]} : EndpointsOf(s, e) = <<>>
    <3> HIDE DEF order
    <3> QED
      BY <2>4 DEF EndpointsOf
  <2>6. EndpointsOf(order[i], e) = all(order[i])
    <3>1. EndpointsOf(order[i], e)
            = [k \in DOMAIN Considered(order[i])[e] |-> [eco |-> e, url |-> Considered(order[i])[e][k], source |-> order[i]]]
      <4> HIDE DEF order
      <4> QED
        BY <2>3, <2>4 DEF EndpointsOf
    <3>2. Considered(order[i])[e] = [k \in DOMAIN Offers(order[i], e) |-> Offers(order[i], e)[k].url]
      <4> HIDE DEF order
      <4> QED
        BY <1>2, <2>4
    <3> HIDE DEF order
    <3> QED
      BY <3>1, <3>2
  <2>7. \A j \in 1..(i - 1) : Offers(order[j], e) = <<>>
    <3>1. \A j \in 1..(i - 1) : j = 1
      OBVIOUS
    <3> HIDE DEF order, I
    <3> QED
      BY <1>1, <1>4, <1>9, <3>1
  <2> QED
    BY <2>5, <2>6, <2>7
<1>10. CASE 1 \in I
  <2>1. \A j \in 1..(1 - 1) : j \notin I
    OBVIOUS
  <2>2. 1 \in 1..2
    OBVIOUS
  <2> HIDE DEF I, order, all
  <2> QED
    BY <1>9, <1>10, <2>1, <2>2 DEF order, all
<1>11. CASE 1 \notin I /\ 2 \in I
  <2>1. \A j \in 1..(2 - 1) : j = 1
    OBVIOUS
  <2>2. 2 \in 1..2
    OBVIOUS
  <2>3. \A j \in 1..(2 - 1) : j \notin I
    BY <1>11, <2>1
  <2> HIDE DEF I
  <2> QED
    BY <1>9, <1>11, <2>2, <2>3
<1>12. 1 \in I \/ 2 \in I \/ I = {}
  <2>1. \A i \in 1..2 : i = 1 \/ i = 2
    OBVIOUS
  <2> HIDE DEF I
  <2> QED
    BY <1>4, <2>1
<1> QED
  BY <1>8, <1>10, <1>11, <1>12

\* What can be in the merged list.
Everything == [eco : Ecos, url : UNION {UNION {Range(Considered(s)[c]) : c \in Ecos} : s \in Range(Sources)}, source : Range(Sources)]

\* Each list that goes into the merged one names its ecosystem.
LEMMA EndpointsAre ==
  ASSUME OwnerInv, step = "merge", NEW c \in Ecos, NEW s \in Range(Sources)
  PROVE  /\ EndpointsOf(s, c) \in Seq(Everything)
         /\ \A k \in DOMAIN EndpointsOf(s, c) : EndpointsOf(s, c)[k].eco = c
<1>1. Range(Sources) = {"cli", "user_config", "env"}
  BY SourcesAre
<1> DEFINE con == Considered(s)[c]
           es == [k \in DOMAIN con |-> [eco |-> c, url |-> con[k], source |-> s]]
<1>2. \E n \in Nat : DOMAIN con = 1..n
  <2>1. CASE s = "env"
    <3>1. con = <<>>
      BY <2>1, ConsideredAre
    <3>2. DOMAIN <<>> = 1..0 /\ 0 \in Nat
      OBVIOUS
    <3> HIDE DEF con
    <3> QED
      BY <3>1, <3>2
  <2>2. CASE s \in {"cli", "user_config"}
    <3> DEFINE o == Offers(s, c)
    <3>1. Len(o) \in Nat /\ DOMAIN o = 1..Len(o) /\ con = [k \in DOMAIN o |-> o[k].url]
      BY <2>2, ConsideredAre
    <3> HIDE DEF o, con
    <3>2. DOMAIN con = 1..Len(o)
      BY <3>1
    <3> QED
      BY <3>1, <3>2
  <2> QED
    BY <1>1, <2>1, <2>2
<1>3. es \in Seq(Everything)
  <2>1. PICK n \in Nat : DOMAIN con = 1..n
    BY <1>2
  <2>2. \A k \in DOMAIN con : con[k] \in UNION {UNION {Range(Considered(t)[d]) : d \in Ecos} : t \in Range(Sources)}
    BY DEF Range
  <2> HIDE DEF con
  <2>3. \A k \in 1..n : [eco |-> c, url |-> con[k], source |-> s] \in Everything
    BY <2>1, <2>2 DEF Everything
  <2>4. es = [k \in 1..n |-> [eco |-> c, url |-> con[k], source |-> s]]
    BY <2>1
  <2> HIDE DEF es
  <2>5. \A X, f : f \in [1..n -> X] => f \in Seq(X)
    OBVIOUS
  <2> QED
    BY <2>3, <2>4, <2>5
<1>4. \A k \in DOMAIN es : es[k].eco = c
  OBVIOUS
<1>5. EndpointsOf(s, c) = es \/ EndpointsOf(s, c) = <<>>
  BY DEF EndpointsOf
<1>6. <<>> \in Seq(Everything) /\ \A k \in DOMAIN <<>> : <<>>[k].eco = c
  OBVIOUS
<1> HIDE DEF es
<1> QED
  BY <1>3, <1>4, <1>5, <1>6

\* What a source has of each ecosystem, in their order.
Each(s) == [j \in DOMAIN EcoOrder |-> EndpointsOf(s, EcoOrder[j])]

\* Each is a sequence of lists.
LEMMA EachIsSeq ==
  ASSUME OwnerInv, step = "merge", NEW s \in Range(Sources)
  PROVE  /\ Each(s) \in Seq(Seq(Everything))
         /\ DOMAIN Each(s) = DOMAIN EcoOrder
         /\ \A j \in DOMAIN EcoOrder : EcoOrder[j] \in Ecos /\ Each(s)[j] = EndpointsOf(s, EcoOrder[j])
<1>1. DOMAIN EcoOrder = 1..Len(EcoOrder) /\ Len(EcoOrder) \in Nat /\ \A j \in DOMAIN EcoOrder : EcoOrder[j] \in Ecos
  <2>1. \A X : \A t \in Seq(X) : DOMAIN t = 1..Len(t) /\ Len(t) \in Nat /\ \A j \in DOMAIN t : t[j] \in X
    OBVIOUS
  <2> QED
    BY <2>1, EcoAssumption
<1>2. \A j \in 1..Len(EcoOrder) : EndpointsOf(s, EcoOrder[j]) \in Seq(Everything)
  BY <1>1, EndpointsAre
<1>3. Each(s) \in [1..Len(EcoOrder) -> Seq(Everything)]
  BY <1>1, <1>2 DEF Each
<1>4. \A n \in Nat : \A X, f : f \in [1..n -> X] => f \in Seq(X)
  OBVIOUS
<1>5. Each(s) \in Seq(Seq(Everything))
  BY <1>1, <1>3, <1>4
<1> QED
  BY <1>1, <1>5 DEF Each

\* The lists of a source, one after the other, have what it has for e together.
LEMMA SourceBlock ==
  ASSUME OwnerInv, step = "merge", NEW e \in Ecos, NEW s \in Range(Sources)
  PROVE  LET K == {x \in Everything : x.eco = e}
         IN FlattenSeq(Each(s)) \in Seq(Everything) /\ Block(FlattenSeq(Each(s)), K, EndpointsOf(s, e))
<1> DEFINE K == {x \in Everything : x.eco = e}
<1>1. PICK p \in DOMAIN EcoOrder : EcoOrder[p] = e
  BY DEF Ecos, Range
<1>2. /\ Each(s) \in Seq(Seq(Everything)) /\ DOMAIN Each(s) = DOMAIN EcoOrder
      /\ \A j \in DOMAIN EcoOrder : EcoOrder[j] \in Ecos /\ Each(s)[j] = EndpointsOf(s, EcoOrder[j])
  BY EachIsSeq
<1>3. \A c \in Ecos : /\ EndpointsOf(s, c) \in Seq(Everything)
                      /\ \A k \in DOMAIN EndpointsOf(s, c) : /\ EndpointsOf(s, c)[k].eco = c
                                                             /\ EndpointsOf(s, c)[k] \in Everything
  <2>1. \A X : \A t \in Seq(X) : \A k \in DOMAIN t : t[k] \in X
    OBVIOUS
  <2> QED
    BY <2>1, EndpointsAre
<1>4. Block(EndpointsOf(s, e), K, EndpointsOf(s, e))
  <2>1. \A k \in DOMAIN EndpointsOf(s, e) : EndpointsOf(s, e)[k] \in K
    BY <1>3
  <2> HIDE DEF K
  <2> QED
    BY <1>3, <2>1, BlockOfAll
<1>5. ASSUME NEW j \in DOMAIN EcoOrder, j # p PROVE Block(Each(s)[j], K, <<>>)
  <2>1. EcoOrder[j] # e /\ EcoOrder[j] \in Ecos
    BY <1>1, <1>2, <1>5, EcoAssumption
  <2>2. \A k \in DOMAIN Each(s)[j] : Each(s)[j][k] \notin K
    BY <1>2, <1>3, <2>1
  <2> HIDE DEF K
  <2>3. Each(s)[j] \in Seq(Everything)
    BY <1>2, <1>3
  <2> QED
    BY <2>2, <2>3, BlockOfAll
<1> HIDE DEF K
<1>6. p \in DOMAIN Each(s) /\ Block(Each(s)[p], K, EndpointsOf(s, e)) /\ EndpointsOf(s, e) \in Seq(Everything)
  BY <1>1, <1>2, <1>3, <1>4
<1>7. FlattenSeq(Each(s)) \in Seq(Everything) /\ Block(FlattenSeq(Each(s)), K, EndpointsOf(s, e))
  BY <1>2, <1>5, <1>6, BlockOfFlatten
<1> QED
  BY <1>7 DEF K

\* After the merge the list of each ecosystem is that of its owner.
LEMMA MergeOwns ==
  ASSUME OwnerInv, Merge, NEW e \in Ecos, NEW list, list = endpoints'
  PROVE  OwnedBy(At(list, {i \in DOMAIN list : list[i].eco = e}), e)
<1> DEFINE K == {x \in Everything : x.eco = e}
           parts == [i \in DOMAIN Sources |-> FlattenSeq(Each(Sources[i]))]
           order == <<"cli", "user_config">>
           all(s) == [k \in DOMAIN Offers(s, e) |-> [eco |-> e, url |-> Offers(s, e)[k].url, source |-> s]]
<1>1. step = "merge" /\ list = FlattenSeq(parts)
  BY DEF Merge, Each
<1>2. /\ DOMAIN Sources = 1..3 /\ Sources[1] = "cli" /\ Sources[2] = "user_config" /\ Sources[3] = "env"
      /\ Range(Sources) = {"cli", "user_config", "env"} /\ \A i \in DOMAIN Sources : Sources[i] \in Range(Sources)
      /\ \A i, j \in DOMAIN Sources : i # j => Sources[i] # Sources[j]
  <2>1. DOMAIN Sources = 1..3 /\ Sources[1] = "cli" /\ Sources[2] = "user_config" /\ Sources[3] = "env"
    BY DEF Sources
  <2>2. \A i \in 1..3 : i = 1 \/ i = 2 \/ i = 3
    OBVIOUS
  <2>3. Range(Sources) = {"cli", "user_config", "env"}
    BY SourcesAre
  <2> HIDE DEF Sources
  <2> QED
    BY <2>1, <2>2, <2>3
<1>3. /\ \A i \in DOMAIN Sources : FlattenSeq(Each(Sources[i])) \in Seq(Everything)
                                   /\ Block(FlattenSeq(Each(Sources[i])), K, EndpointsOf(Sources[i], e))
  <2>1. ASSUME NEW i \in DOMAIN Sources
        PROVE  FlattenSeq(Each(Sources[i])) \in Seq(Everything)
               /\ Block(FlattenSeq(Each(Sources[i])), K, EndpointsOf(Sources[i], e))
    BY <1>1, <1>2, SourceBlock
  <2> HIDE DEF K
  <2> QED
    BY <2>1
<1> HIDE DEF K
<1>4. parts \in Seq(Seq(Everything)) /\ DOMAIN parts = DOMAIN Sources
      /\ \A i \in DOMAIN Sources : Block(parts[i], K, EndpointsOf(Sources[i], e))
  <2>1. \A n \in Nat : \A X, f : f \in [1..n -> X] => f \in Seq(X)
    OBVIOUS
  <2>2. parts \in [1..3 -> Seq(Everything)] /\ 3 \in Nat
    BY <1>2, <1>3
  <2>3. parts \in Seq(Seq(Everything))
    BY <2>1, <2>2
  <2> QED
    BY <1>3, <2>3
<1>5. ASSUME NEW p \in DOMAIN Sources, \A i \in DOMAIN Sources : i # p => EndpointsOf(Sources[i], e) = <<>>
      PROVE  At(list, {i \in DOMAIN list : list[i].eco = e}) = EndpointsOf(Sources[p], e)
  <2> DEFINE b == EndpointsOf(Sources[p], e)
  <2>1. b \in Seq(Everything)
    BY <1>1, <1>2, EndpointsAre
  <2> HIDE DEF b, parts
  <2>2. Block(parts[p], K, b) /\ p \in DOMAIN parts /\ \A i \in DOMAIN parts : i # p => Block(parts[i], K, <<>>)
    BY <1>4, <1>5 DEF b
  <2>3. list \in Seq(Everything) /\ Block(list, K, b)
    BY <1>1, <1>4, <2>1, <2>2, BlockOfFlatten
  <2>4. At(list, {i \in DOMAIN list : list[i] \in K}) = b
    BY <2>1, <2>3, BlockIsSelected
  <2>5. \A i \in DOMAIN list : list[i] \in K <=> list[i].eco = e
    BY <2>3 DEF K
  <2>6. {i \in DOMAIN list : list[i] \in K} = {i \in DOMAIN list : list[i].eco = e}
    BY <2>5
  <2> QED
    BY <2>4, <2>6 DEF b
<1> DEFINE mine == At(list, {i \in DOMAIN list : list[i].eco = e})
<1> HIDE DEF mine, parts
<1>6. CASE /\ \A i \in 1..2 : Offers(order[i], e) = <<>>
           /\ \A s \in Range(Sources) : EndpointsOf(s, e) = <<>>
  <2>1. 1 \in DOMAIN Sources /\ \A i \in DOMAIN Sources : EndpointsOf(Sources[i], e) = <<>>
    BY <1>2, <1>6
  <2>2. mine = <<>>
    BY <1>5, <2>1 DEF mine
  <2> QED
    BY <1>6, <2>2 DEF OwnedBy, mine
<1>7. ASSUME NEW i \in 1..2,
             \A j \in 1..(i - 1) : Offers(order[j], e) = <<>>,
             EndpointsOf(order[i], e) = all(order[i]),
             \A s \in Range(Sources) \ {order[i]} : EndpointsOf(s, e) = <<>>
      PROVE  OwnedBy(mine, e)
  <2>1. i \in DOMAIN Sources /\ Sources[i] = order[i] /\ order[i] \in {"cli", "user_config"}
    <3>1. i = 1 \/ i = 2
      OBVIOUS
    <3>2. order[1] = "cli" /\ order[2] = "user_config"
      OBVIOUS
    <3>3. 1 \in 1..3 /\ 2 \in 1..3
      OBVIOUS
    <3> HIDE DEF order
    <3> QED
      BY <1>2, <3>1, <3>2, <3>3
  <2> HIDE DEF order
  <2>2. mine = all(order[i])
    <3>1. \A j \in DOMAIN Sources : j # i => EndpointsOf(Sources[j], e) = <<>>
      BY <1>2, <1>7, <2>1
    <3> QED
      BY <1>5, <1>7, <2>1, <3>1 DEF mine
  <2> DEFINE o == Offers(order[i], e)
  <2>3. Len(o) \in Nat /\ DOMAIN o = 1..Len(o)
    BY <1>1, <2>1, ConsideredAre
  <2> HIDE DEF o, mine
  <2>4. mine = [k \in 1..Len(o) |-> [eco |-> e, url |-> o[k].url, source |-> order[i]]]
    BY <2>2, <2>3 DEF o
  <2>5. Len(mine) = Len(o) /\ DOMAIN mine = 1..Len(o)
    BY <2>3, <2>4
  <2>6. \A k \in DOMAIN mine : mine[k].source = order[i] /\ mine[k].url = o[k].url
    BY <2>4, <2>5
  <2> QED
    BY <1>7, <2>5, <2>6 DEF OwnedBy, o, order
<1>8. \/ /\ \A i \in 1..2 : Offers(order[i], e) = <<>>
         /\ \A s \in Range(Sources) : EndpointsOf(s, e) = <<>>
      \/ \E i \in 1..2 :
           /\ \A j \in 1..(i - 1) : Offers(order[j], e) = <<>>
           /\ EndpointsOf(order[i], e) = all(order[i])
           /\ \A s \in Range(Sources) \ {order[i]} : EndpointsOf(s, e) = <<>>
  BY <1>1, OneHasAll
<1>9. OwnedBy(mine, e)
  <2> HIDE DEF order, all
  <2> QED
    BY <1>6, <1>7, <1>8 DEF mine
<1> QED
  BY <1>9 DEF mine

\* OwnerInv holds before anything is read.
LEMMA OwnerInit == SInit => OwnerInv
<1>1. Range(Sources) = {"cli", "user_config", "env"}
  BY SourcesAre
<1>2. SUFFICES ASSUME RInit PROVE OwnerInv
  BY DEF SInit
<1>3. found = [s \in {"cli", "user_config", "env"} |-> Empty]
  BY <1>1, <1>2 DEF RInit
<1>4. found["user_config"] = Empty /\ DOMAIN found = {"cli", "user_config", "env"}
  BY <1>3
<1>5. set \in Settings /\ (step # "done" => set.fetch) /\ step \in {"cli", "done"}
  BY <1>2 DEF RInit
<1> QED
  BY <1>4, <1>5 DEF OwnerInv

\* What a source offers depends on the settings alone.
LEMMA OffersStay == ASSUME set' = set, NEW s, NEW e PROVE Offers(s, e)' = Offers(s, e)
BY DEF Offers, Where

\* So does what is read of it.
LEMMA ReadStay ==
  ASSUME set' = set
  PROVE  /\ Accepted(WellFormed)' = Accepted(WellFormed)
         /\ InFile' = InFile
         /\ set.files[ConfigHome]' = set.files[ConfigHome]
<1>1. ConfigHome' = ConfigHome
  BY DEF ConfigHome
<1>2. WellFormed' = WellFormed /\ Listed' = Listed
  BY <1>1 DEF WellFormed, Listed, Where
<1>3. Accepted(WellFormed)' = Accepted(WellFormed) /\ Accepted(Listed)' = Accepted(Listed)
  BY <1>2 DEF Accepted, Where
<1> QED
  BY <1>1, <1>2, <1>3 DEF InFile, Empty

\* Ownership of a list is a matter of the list and the settings.
LEMMA OwnedStays ==
  ASSUME set' = set, NEW list, Owned(list)
  PROVE  Owned(list)'
<1>1. \A s, e : Offers(s, e)' = Offers(s, e)
  BY OffersStay
<1>2. ASSUME NEW e \in Ecos, NEW mine, OwnedBy(mine, e) PROVE OwnedBy(mine, e)'
  BY <1>1, <1>2 DEF OwnedBy
<1> QED
  BY <1>2 DEF Owned, Where

\* The merge gives every ecosystem its owner (resolver.py, resolve_indexes).
LEMMA MergedIsOwned == ASSUME OwnerInv, Merge PROVE Owned(endpoints)'
<1>1. \A list : list = endpoints' => Owned(list)
  BY MergeOwns DEF Owned, Where
<1>2. Owned(endpoints')
  BY <1>1
<1>3. set' = set
  BY DEF Merge
<1>4. \A list : Owned(list) => Owned(list)'
  BY <1>3, OwnedStays
<1> QED
  BY <1>2, <1>4

\* Reading a source adds what it has and leaves the others as they were.
LEMMA ReadingStep ==
  ASSUME OwnerInv, ParseCli \/ LocateConfig \/ ParseConfig \/ ParseEnv
  PROVE  OwnerInv'
<1>1. set' = set
  BY DEF ParseCli, LocateConfig, ParseConfig, ParseEnv
<1>2. /\ Accepted(WellFormed)' = Accepted(WellFormed) /\ InFile' = InFile
      /\ set.files[ConfigHome]' = set.files[ConfigHome] /\ Empty' = Empty
  BY <1>1, ReadStay DEF Empty
<1>3. CASE ParseCli
  <2>1. found' = [found EXCEPT !["cli"] = Accepted(WellFormed)] /\ step = "cli" /\ step' = "config"
    BY <1>3 DEF ParseCli, WellFormed
  <2>2. found'["cli"] = Accepted(WellFormed) /\ found'["user_config"] = Empty
        /\ DOMAIN found' = {"cli", "user_config", "env"}
    BY <2>1 DEF OwnerInv
  <2> QED
    BY <1>1, <1>2, <2>1, <2>2 DEF OwnerInv
<1>4. CASE LocateConfig
  <2>1. /\ found' = found /\ step = "config"
        /\ step' = IF set.files[ConfigHome].state \in {"absent", "escapes"} THEN "env" ELSE "toml"
    BY <1>4 DEF LocateConfig
  <2>2. set.files[ConfigHome].state \in States
    BY EntriesAreSeqs DEF OwnerInv
  <2>3. step' = "env" => InFile = Empty
    BY <2>1 DEF InFile
  <2>4. step' = "toml" => set.files[ConfigHome].state \in {"malformed", "tables"}
    BY <2>1, <2>2 DEF States
  <2> QED
    BY <1>1, <1>2, <2>1, <2>3, <2>4 DEF OwnerInv
<1>5. CASE ParseConfig
  <2>1. /\ step = "toml" /\ step' = "env"
        /\ IF set.files[ConfigHome].state = "malformed" THEN found' = found
           ELSE found' = [found EXCEPT !["user_config"] = Accepted(Listed)]
    BY <1>5 DEF ParseConfig, Listed
  <2>2. set.files[ConfigHome].state \in {"malformed", "tables"} /\ found["user_config"] = Empty
        /\ found["cli"] = Accepted(WellFormed) /\ DOMAIN found = {"cli", "user_config", "env"}
    BY <2>1 DEF OwnerInv
  <2>3. found'["user_config"] = InFile /\ found'["cli"] = Accepted(WellFormed)
        /\ DOMAIN found' = {"cli", "user_config", "env"}
    BY <2>1, <2>2 DEF InFile
  <2> QED
    BY <1>1, <1>2, <2>1, <2>3 DEF OwnerInv
<1>6. CASE ParseEnv
  <2>1. found' = [found EXCEPT !["env"] = Accepted(set.env)] /\ step = "env" /\ step' = "merge"
    BY <1>6 DEF ParseEnv
  <2>2. found'["user_config"] = InFile /\ found'["cli"] = Accepted(WellFormed)
        /\ DOMAIN found' = {"cli", "user_config", "env"}
    BY <2>1 DEF OwnerInv
  <2> QED
    BY <1>1, <1>2, <2>1, <2>2 DEF OwnerInv
<1> QED
  BY <1>3, <1>4, <1>5, <1>6

\* OwnerInv is inductive.
LEMMA OwnerStep == OwnerInv /\ [SNext]_svars => OwnerInv'
<1> SUFFICES ASSUME OwnerInv, [SNext]_svars PROVE OwnerInv'
  OBVIOUS
<1>1. CASE UNCHANGED rvars
  <2>1. set' = set /\ step' = step /\ found' = found /\ endpoints' = endpoints
    BY <1>1 DEF rvars
  <2>2. Owned(endpoints) => Owned(endpoints)'
    <3>1. \A list : Owned(list) => Owned(list)'
      BY <2>1, OwnedStays
    <3> QED
      BY <2>1, <3>1
  <2> QED
    BY <2>1, <2>2, ReadStay DEF OwnerInv, Empty
<1>2. CASE RStep
  <2>1. CASE ParseCli \/ LocateConfig \/ ParseConfig \/ ParseEnv
    BY <2>1, ReadingStep
  <2>2. CASE Merge
    <3>1. Owned(endpoints)'
      BY <2>2, MergedIsOwned
    <3>2. set' = set /\ found' = found /\ step = "merge" /\ step' = "build"
      BY <2>2 DEF Merge
    <3> QED
      BY <3>1, <3>2 DEF OwnerInv
  <2>3. CASE BuildClient \/ Ask \/ AllAsked \/ Validate \/ ResolveAndPin \/ Perform
    <3>1. /\ set' = set /\ found' = found /\ endpoints' = endpoints
          /\ step \in {"build", "ask", "validate", "pin", "connect"}
          /\ step' \in {"done", "ask", "validate", "pin", "connect"}
      <4>1. CASE BuildClient
        BY <4>1 DEF BuildClient
      <4>2. CASE Ask \/ AllAsked
        BY <4>2 DEF Ask, AllAsked, Unmoved
      <4>3. CASE Validate
        BY <4>3 DEF Validate, Ends, Unmoved
      <4>4. CASE ResolveAndPin
        BY <4>4 DEF ResolveAndPin, Ends, Unmoved
      <4>5. CASE Perform
        BY <4>5 DEF Perform, Follow, Unmoved
      <4> QED
        BY <2>3, <4>1, <4>2, <4>3, <4>4, <4>5
    <3>2. Owned(endpoints)'
      <4>1. \A list : Owned(list) => Owned(list)'
        BY <3>1, OwnedStays
      <4> QED
        BY <3>1, <4>1 DEF OwnerInv
    <3> QED
      BY <3>1, <3>2 DEF OwnerInv
  <2> QED
    BY <1>2, <2>1, <2>2, <2>3 DEF RStep
<1>3. UNCHANGED rvars \/ RStep
  BY DEF SNext, RemoteStep, PipelineStep, FetchRaises, Returned, svars
<1> QED
  BY <1>1, <1>2, <1>3

\* Warnings stay, and so what they were given for.
LEMMA WarnedStays ==
  ASSUME set' = set, warnings \subseteq warnings', NEW s, Warned(s)
  PROVE  Warned(s)'
<1>1. \A e : Offers(s, e)' = Offers(s, e)
  BY OffersStay
<1>2. \A e : Mentions(s, e)' <=> Mentions(s, e)
  BY DEF Mentions
<1> QED
  BY <1>1, <1>2 DEF Warned, PassesOn

\* A rejected entry of the command line is warned of (_parse_cli_indexes).
LEMMA CliIsWarned ==
  ASSUME OwnerInv, ParseCli
  PROVE  Warned("cli")'
<1> DEFINE c == set.cli
           w == At(c, {i \in DOMAIN c : c[i].eco # ""})
<1>1. c \in Seq(Range(c)) /\ set' = set /\ Rejects(w, "cli rejected") \subseteq warnings'
  BY EntriesAreSeqs DEF OwnerInv, ParseCli, Where
<1>2. ASSUME NEW e \in Ecos, Offers("cli", e) = <<>>, Mentions("cli", e)
      PROVE  "cli rejected" \in warnings'
  <2>1. PICK i \in DOMAIN c : c[i].eco = e
    BY <1>2 DEF Mentions, Range
  <2>2. e # ""
    BY EcoAssumption
  <2> DEFINE J == {k \in DOMAIN c : c[k].eco = e /\ Acceptable(c[k].url)}
  <2>3. At(c, J) = <<>>
    BY <1>2 DEF Offers, Where
  <2>4. ~ Acceptable(c[i].url)
    <3>1. Range(At(c, J)) = {c[k] : k \in J}
      BY <1>1, AtIsSeq
    <3>2. Range(<<>>) = {}
      BY DEF Range
    <3> QED
      BY <2>1, <2>3, <3>1, <3>2
  <2>5. c[i] \in Range(w)
    <3> DEFINE K == {k \in DOMAIN c : c[k].eco # ""}
    <3>1. Range(At(c, K)) = {c[k] : k \in K}
      BY <1>1, AtIsSeq
    <3> QED
      BY <2>1, <2>2, <3>1
  <2> HIDE DEF w
  <2>6. \E k \in DOMAIN w : ~ Acceptable(w[k].url)
    BY <2>4, <2>5 DEF Range
  <2> QED
    BY <1>1, <2>6 DEF Rejects
<1>3. \A e : Offers("cli", e)' = Offers("cli", e)
  BY <1>1, OffersStay
<1>4. \A e : Mentions("cli", e)' <=> Mentions("cli", e)
  BY <1>1 DEF Mentions
<1> QED
  BY <1>2, <1>3, <1>4 DEF Warned, PassesOn

\* So is one of the file, and a value that is no list (_parse_user_config_indexes).
LEMMA FileIsWarned ==
  ASSUME OwnerInv, ParseConfig
  PROVE  Warned("user_config")'
<1> DEFINE es == set.files[ConfigHome].entries
           w == At(es, {i \in DOMAIN es : es[i].isList})
<1>1. es \in Seq(Range(es)) /\ set' = set
  BY EntriesAreSeqs DEF OwnerInv, ParseConfig
<1>2. set.files[ConfigHome].state = "tables" =>
        Rejects(w, "config rejected") \cup (IF w # es THEN {"config no list"} ELSE {}) \subseteq warnings'
  BY DEF ParseConfig, Where
<1>3. ASSUME NEW e \in Ecos, Offers("user_config", e) = <<>>, Mentions("user_config", e)
      PROVE  warnings' \cap {"config rejected", "config no list"} # {}
  <2>1. set.files[ConfigHome].state = "tables" /\ \E x \in Range(es) : x.eco = e
    BY <1>3 DEF Mentions, ConfigHome
  <2>2. PICK i \in DOMAIN es : es[i].eco = e
    BY <2>1 DEF Range
  <2>3. Range(w) = {es[k] : k \in {j \in DOMAIN es : es[j].isList}} /\ w \in Seq(Range(es))
    BY <1>1, AtIsSeq
  <2> DEFINE J == {k \in DOMAIN w : w[k].eco = e /\ Acceptable(w[k].url)}
  <2>4. At(w, J) = <<>>
    BY <1>3, <2>1 DEF Offers, Where, ConfigHome
  <2> HIDE DEF w
  <2>5. \A x \in Range(w) : x.eco = e => ~ Acceptable(x.url)
    <3>1. w \in Seq(Range(w))
      BY <2>3 DEF Range
    <3>2. Range(At(w, J)) = {w[k] : k \in J}
      BY <3>1, AtIsSeq
    <3>3. Range(<<>>) = {}
      BY DEF Range
    <3> QED
      BY <2>4, <3>2, <3>3 DEF Range
  <2>6. CASE es[i].isList
    <3>1. es[i] \in Range(w)
      BY <2>2, <2>3, <2>6
    <3>2. \E k \in DOMAIN w : ~ Acceptable(w[k].url)
      BY <2>2, <2>5, <3>1 DEF Range
    <3> QED
      BY <1>2, <2>1, <3>2 DEF Rejects
  <2>7. CASE ~ es[i].isList
    <3>1. \A x \in Range(w) : x.isList
      BY <2>3
    <3>2. w # es
      BY <2>2, <2>7, <3>1 DEF Range
    <3> QED
      BY <1>2, <2>1, <3>2
  <2> QED
    BY <2>6, <2>7
<1>4. \A e : Offers("user_config", e)' = Offers("user_config", e)
  BY <1>1, OffersStay
<1>5. \A e : Mentions("user_config", e)' <=> Mentions("user_config", e)
  BY <1>1 DEF Mentions
<1> QED
  BY <1>3, <1>4, <1>5 DEF Warned, PassesOn

\* Without a file that has tables nothing is mentioned in one.
LEMMA NoFileIsWarned ==
  ASSUME OwnerInv, LocateConfig, step' = "env"
  PROVE  Warned("user_config")'
<1>1. set' = set /\ set.files[ConfigHome].state \in {"absent", "escapes"}
  BY DEF LocateConfig
<1>2. set.files[ConfigHome].state # "tables"
  BY <1>1
<1>3. \A e : ~ Mentions("user_config", e)
  BY <1>2 DEF Mentions, ConfigHome
<1>4. \A e : ~ Mentions("user_config", e)'
  BY <1>1, <1>3 DEF Mentions
<1> QED
  BY <1>4 DEF Warned, PassesOn

\* WarnedInv is inductive given OwnerInv.
LEMMA WarnedStep == OwnerInv /\ WarnedInv /\ [SNext]_svars => WarnedInv'
<1> SUFFICES ASSUME OwnerInv, WarnedInv, [SNext]_svars PROVE WarnedInv'
  OBVIOUS
<1>1. CASE UNCHANGED rvars
  BY <1>1, WarnedStays DEF rvars, WarnedInv
<1>2. CASE RStep
  <2>1. CASE ParseCli
    <3>1. step' = "config"
      BY <2>1 DEF ParseCli
    <3> QED
      BY <2>1, <3>1, CliIsWarned DEF WarnedInv
  <2>2. CASE LocateConfig
    <3>1. step = "config" /\ step' \in {"env", "toml"} /\ set' = set /\ warnings \subseteq warnings'
      BY <2>2 DEF LocateConfig
    <3> QED
      BY <2>2, <3>1, WarnedStays, NoFileIsWarned DEF WarnedInv
  <2>3. CASE ParseConfig
    <3>1. step = "toml" /\ step' = "env" /\ set' = set /\ warnings \subseteq warnings'
      BY <2>3 DEF ParseConfig
    <3> QED
      BY <2>3, <3>1, WarnedStays, FileIsWarned DEF WarnedInv
  <2>4. CASE ParseEnv \/ Merge \/ BuildClient
    <3>1. /\ step \in {"env", "merge", "build"} /\ set' = set /\ warnings \subseteq warnings'
          /\ step' \notin {"cli", "config", "toml"}
      BY <2>4 DEF ParseEnv, Merge, BuildClient
    <3> QED
      BY <3>1, WarnedStays DEF WarnedInv
  <2>5. CASE Ask \/ AllAsked \/ Validate \/ ResolveAndPin \/ Perform
    <3>1. /\ step \in {"ask", "validate", "pin", "connect"} /\ set' = set /\ warnings' = warnings
          /\ step' \notin {"cli", "config", "toml"}
      BY <2>5 DEF Ask, AllAsked, Validate, ResolveAndPin, Perform, Ends, Follow, Unmoved
    <3> QED
      BY <3>1, WarnedStays DEF WarnedInv
  <2> QED
    BY <1>2, <2>1, <2>2, <2>3, <2>4, <2>5 DEF RStep
<1>3. UNCHANGED rvars \/ RStep
  BY DEF SNext, RemoteStep, PipelineStep, FetchRaises, Returned, svars
<1> QED
  BY <1>1, <1>2, <1>3

-----------------------------------------------------------------------------
\* Whatever the command line, the file and the environment say, the indexes of
\* an ecosystem are all those of the first source that has an acceptable one, in
\* its order; the environment is never that source, and a source that mentions
\* the ecosystem in vain is warned of (resolver.py, FR-259).  That such a source
\* does not own the ecosystem is what the code does; resolver.py:310 and
\* REQ-24.md:268 word it otherwise.
THEOREM OneSourceOwns == SSpec => []OneOwner
<1>1. SInit => OwnerInv /\ WarnedInv
  BY OwnerInit DEF SInit, RInit, WarnedInv
<1>2. OwnerInv /\ WarnedInv /\ [SNext]_svars => (OwnerInv /\ WarnedInv)'
  BY OwnerStep, WarnedStep
<1>3. OwnerInv /\ WarnedInv => OneOwner
  <2> SUFFICES ASSUME OwnerInv, WarnedInv, step \in {"ask", "validate", "pin", "connect"} PROVE OneOwner
    BY DEF OneOwner
  <2>1. Owned(endpoints) /\ Warned("cli") /\ Warned("user_config")
    BY DEF OwnerInv, WarnedInv
  <2> DEFINE order == <<"cli", "user_config">>
  <2>2. \A i \in 1..2 : order[i] \in {"cli", "user_config"}
    OBVIOUS
  <2> HIDE DEF order
  <2>3. \A e \in Ecos, i \in 1..2 : Offers(order[i], e) = <<>> => PassesOn(order[i], e)
    BY <2>1, <2>2 DEF Warned
  <2>4. ASSUME NEW e \in Ecos, NEW mine, OwnedBy(mine, e)
        PROVE  PassedOn(mine, e)
    <3>1. \/ mine = <<>> /\ \A i \in 1..2 : Offers(order[i], e) = <<>>
          \/ \E i \in 1..2 :
                /\ \A j \in 1..(i - 1) : Offers(order[j], e) = <<>>
                /\ Len(mine) = Len(Offers(order[i], e))
                /\ \A k \in DOMAIN mine : /\ mine[k].source = order[i]
                                          /\ mine[k].url = Offers(order[i], e)[k].url
      BY <2>4 DEF OwnedBy, order
    <3>2. \A i \in 1..2 : \A j \in 1..(i - 1) : j \in 1..2
      OBVIOUS
    <3>3. \/ mine = <<>> /\ \A i \in 1..2 : PassesOn(order[i], e)
          \/ \E i \in 1..2 :
                /\ \A j \in 1..(i - 1) : PassesOn(order[j], e)
                /\ Len(mine) = Len(Offers(order[i], e))
                /\ \A k \in DOMAIN mine : /\ mine[k].source = order[i]
                                          /\ mine[k].url = Offers(order[i], e)[k].url
      BY <2>3, <3>1, <3>2
    <3> QED
      BY <3>3 DEF PassedOn, order
  <2>5. \A e \in Ecos : PassedOn(Where(endpoints, LAMBDA p : p.eco = e), e)
    BY <2>1, <2>4 DEF Owned
  <2> QED
    BY <2>5 DEF PassedOn, OneOwner
<1> QED
  BY <1>1, <1>2, <1>3, PTL DEF SSpec
-----------------------------------------------------------------------------
(* The connections of the run. *)

\* What the GET that runs has checked so far, of the URL it is at now.
HopInv ==
  /\ step \in {"pin", "connect"} => Acceptable(current)
  /\ step \in {"validate", "pin", "connect"} => current.host \in named
  /\ step = "connect" =>
       /\ IpIsSafe(pinned, Allowance(current.host))
       /\ \E as \in Addresses[current.host] : pinned \in Range(as)

VettedInv == HopInv /\ ConnectionsAreVetted

\* Before a GET there is neither a hop nor a connection.
LEMMA VettedInit == SInit => VettedInv
BY DEF SInit, RInit, VettedInv, HopInv, ConnectionsAreVetted

\* A step that opens no connection and does not go on with a hop.
LEMMA Apart ==
  ASSUME VettedInv, set' = set, log' = log, named' = named,
         step' \notin {"validate", "pin", "connect"}
  PROVE  VettedInv'
BY DEF VettedInv, HopInv, ConnectionsAreVetted

\* A GET that ends, or that asks the next index.
LEMMA Ending ==
  ASSUME VettedInv, NEW r, Ends(r)
  PROVE  VettedInv'
BY Apart DEF Ends, Unmoved

\* A hop begins at a URL whose host is named.
LEMMA HopBegins ==
  ASSUME VettedInv, set' = set, log' = log, step' = "validate",
         named \subseteq named', current'.host \in named'
  PROVE  VettedInv'
BY DEF VettedInv, HopInv, ConnectionsAreVetted

\* The look at the URL comes before the look at its addresses.
LEMMA ValidateStep == ASSUME VettedInv, Validate PROVE VettedInv'
<1>1. CASE \E r : Ends(r)
  BY <1>1, Ending
<1>2. CASE Acceptable(current) /\ step' = "pin" /\ Unmoved /\ UNCHANGED request
  <2>1. UNCHANGED <<set, current, log, named>>
    BY <1>2 DEF Unmoved, request
  <2>2. HopInv'
    BY <1>2, <2>1 DEF VettedInv, HopInv, Validate, Acceptable
  <2>3. ConnectionsAreVetted'
    BY <2>1 DEF VettedInv, ConnectionsAreVetted
  <2>. QED BY <2>2, <2>3 DEF VettedInv
<1>. QED BY <1>1, <1>2 DEF Validate

\* What is pinned is an acceptable address of this hop's host.
LEMMA PinStep == ASSUME VettedInv, ResolveAndPin PROVE VettedInv'
<1>1. CASE \E r : Ends(r)
  BY <1>1, Ending
<1>2. CASE \E as \in Addresses[current.host] : \E i \in DOMAIN as :
             /\ IpIsSafe(as[i], Allowance(current.host))
             /\ pinned' = as[i]
             /\ step' = "connect"
             /\ Unmoved /\ UNCHANGED <<asked, current, hop, log, named, result>>
  <2>1. PICK as \in Addresses[current.host] : \E i \in DOMAIN as :
             /\ IpIsSafe(as[i], Allowance(current.host))
             /\ pinned' = as[i]
             /\ step' = "connect"
             /\ Unmoved /\ UNCHANGED <<asked, current, hop, log, named, result>>
    BY <1>2
  <2>2. UNCHANGED <<set, current, log, named>>
    BY <2>1 DEF Unmoved
  <2>3. /\ IpIsSafe(pinned', Allowance(current.host))
        /\ pinned' \in Range(as)
        /\ step' = "connect"
    BY <2>1 DEF Range
  <2>4. Acceptable(current) /\ current.host \in named
    BY DEF ResolveAndPin, VettedInv, HopInv
  <2>5. HopInv'
    BY <2>2, <2>3, <2>4 DEF HopInv, Acceptable, IpIsSafe, Allowance
  <2>6. ConnectionsAreVetted'
    BY <2>2 DEF VettedInv, ConnectionsAreVetted
  <2>. QED BY <2>5, <2>6 DEF VettedInv
<1>. QED BY <1>1, <1>2 DEF ResolveAndPin

\* The connection is the one that was vetted; a redirect starts a new hop.
LEMMA PerformStep == ASSUME VettedInv, Perform PROVE VettedInv'
<1>. DEFINE c == [host |-> current.host, address |-> pinned, scheme |-> current.scheme]
<1>1. /\ step = "connect" /\ log' = log \cup {c} /\ set' = set
      /\ named \subseteq named'
      /\ \/ step' = "ask"
         \/ step' = "validate" /\ current'.host \in named'
  <2>1. PICK r : \/ Follow(r)
                 \/ step' = "ask" /\ UNCHANGED named
    BY DEF Perform
  <2>2. CASE Follow(r)
    BY <2>2 DEF Follow, Perform, Unmoved
  <2>3. CASE step' = "ask" /\ UNCHANGED named
    BY <2>3 DEF Perform, Unmoved
  <2>. QED BY <2>1, <2>2, <2>3
<1>2. /\ c.scheme = "https"
      /\ IpIsSafe(c.address, c.host \in set.allowed)
      /\ \E as \in Addresses[c.host] : c.address \in Range(as)
      /\ c.host \in named
  BY <1>1 DEF VettedInv, HopInv, Acceptable, Allowance
<1>3. /\ c.address \notin Never
      /\ c.address = "private" => c.host \in set.allowed
  BY <1>2 DEF IpIsSafe, Never
<1>4. ConnectionsAreVetted'
  <2>. SUFFICES ASSUME NEW d \in log'
                PROVE  /\ d.scheme = "https"
                       /\ d.address \notin Never
                       /\ d.address = "private" => d.host \in set.allowed
                       /\ \E as \in Addresses[d.host] : d.address \in Range(as)
                       /\ d.host \in named'
    BY <1>1 DEF ConnectionsAreVetted
  <2>1. CASE d \in log
    BY <1>1, <2>1 DEF VettedInv, ConnectionsAreVetted
  <2>2. CASE d = c
    BY <1>1, <1>2, <1>3, <2>2
  <2>. QED BY <1>1, <2>1, <2>2
<1>5. HopInv'
  BY <1>1 DEF HopInv
<1>. QED BY <1>4, <1>5 DEF VettedInv

\* VettedInv is inductive.
LEMMA VettedStep == VettedInv /\ [SNext]_svars => VettedInv'
<1>. SUFFICES ASSUME VettedInv, [SNext]_svars PROVE VettedInv'
  OBVIOUS
<1>1. CASE UNCHANGED rvars
  BY <1>1 DEF rvars, request, VettedInv, HopInv, ConnectionsAreVetted,
                Acceptable, IpIsSafe, Allowance
<1>2. CASE RStep
  <2>1. CASE ParseCli \/ LocateConfig \/ ParseConfig \/ ParseEnv \/ Merge
    BY <2>1, Apart DEF ParseCli, LocateConfig, ParseConfig, ParseEnv, Merge, request
  <2>2. CASE BuildClient \/ AllAsked
    BY <2>2, Apart DEF BuildClient, AllAsked, request, Unmoved
  <2>3. CASE Ask
    BY <2>3, HopBegins DEF Ask, Unmoved
  <2>. QED BY <1>2, <2>1, <2>2, <2>3, ValidateStep, PinStep, PerformStep DEF RStep
<1>3. CASE UNCHANGED svars
  BY <1>1, <1>3 DEF svars
<1>. QED BY <1>1, <1>2, <1>3 DEF SNext, RemoteStep, PipelineStep, FetchRaises, Returned
-----------------------------------------------------------------------------
\* A run connects only by TLS, to a host that an index or a redirect named, at
\* an address its name resolved to at that hop, public or of a host the
\* operator allowed (http_client.py, the redirect loop).
THEOREM EveryConnectionIsVetted == SSpec => []ConnectionsAreVetted
<1>1. SInit => VettedInv
  BY VettedInit
<1>2. VettedInv /\ [SNext]_svars => VettedInv'
  BY VettedStep
<1>3. VettedInv => ConnectionsAreVetted
  BY DEF VettedInv
<1>. QED BY <1>1, <1>2, <1>3, PTL DEF SSpec
=============================================================================
