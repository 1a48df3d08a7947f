--------------------------- MODULE LiftInUseProofs ---------------------------
(***************************************************************************)
(* The sweep of LiftInUse, proved for every number of names, dependencies  *)
(* and ecosystems and for every graph: what it lifts and what it must not  *)
(* leave SAFE.                                                             *)
(***************************************************************************)
EXTENDS LiftInUse, SequenceTheorems, TLAPS

\* What popping the last element of a stack leaves (Python's list.pop()).
LEMMA PopFacts ==
  ASSUME NEW S, NEW s \in Seq(S), s # <<>>
  PROVE  LET t == SubSeq(s, 1, Len(s) - 1) IN
         /\ Len(s) \in 1..Len(s)
         /\ s[Len(s)] \in S
         /\ t \in Seq(S)
         /\ Len(t) = Len(s) - 1
         /\ \A i \in 1..Len(t) : i \in 1..Len(s) /\ t[i] = s[i]
         /\ \A i \in 1..Len(s) : i = Len(s) \/ i \in 1..Len(t)
<1>. DEFINE t == SubSeq(s, 1, Len(s) - 1)
<1>1. /\ Len(s) \in Nat \ {0}
      /\ \A i \in 1..Len(s) : s[i] \in S
  BY EmptySeq, ElementOfSeq
<1>2. \A i \in 1..(Len(s) - 1) : s[i] \in S
  BY <1>1
<1>3. /\ t \in Seq(S)
      /\ Len(t) = IF 1 <= Len(s) - 1 THEN (Len(s) - 1) - 1 + 1 ELSE 0
      /\ \A i \in 1..((Len(s) - 1) - 1 + 1) : t[i] = s[1 + i - 1]
  <2>1. Len(s) - 1 \in Int /\ 1 \in Int
    BY <1>1
  <2>. QED BY <1>2, <2>1, SubSeqProperties
<1>. HIDE DEF t
<1>4. Len(t) = Len(s) - 1
  <2>1. \A n \in Nat \ {0} :
          (IF 1 <= n - 1 THEN (n - 1) - 1 + 1 ELSE 0) = n - 1
    OBVIOUS
  <2>. QED BY <1>1, <1>3, <2>1
<1>5. \A i \in 1..(Len(s) - 1) : i \in 1..Len(s) /\ t[i] = s[i]
  <2>. SUFFICES ASSUME NEW i \in 1..(Len(s) - 1)
                PROVE  i \in 1..Len(s) /\ t[i] = s[i]
    OBVIOUS
  <2>1. i \in 1..((Len(s) - 1) - 1 + 1) /\ 1 + i - 1 = i /\ i \in 1..Len(s)
    BY <1>1
  <2>. QED BY <1>3, <2>1
<1>6. \A i \in 1..Len(s) : i = Len(s) \/ i \in 1..(Len(s) - 1)
  BY <1>1
<1>7. /\ Len(s) \in 1..Len(s)
      /\ s[Len(s)] \in S
      /\ t \in Seq(S)
      /\ Len(t) = Len(s) - 1
      /\ \A i \in 1..Len(t) : i \in 1..Len(s) /\ t[i] = s[i]
      /\ \A i \in 1..Len(s) : i = Len(s) \/ i \in 1..Len(t)
  BY <1>1, <1>3, <1>4, <1>5, <1>6
<1>. QED BY <1>7 DEF t

\* What pushing on a stack adds (Python's list.append()).
LEMMA PushFacts ==
  ASSUME NEW S, NEW s \in Seq(S), NEW e \in S
  PROVE  /\ Append(s, e) \in Seq(S)
         /\ Len(s) \in Nat
         /\ Len(Append(s, e)) = Len(s) + 1
         /\ Append(s, e)[Len(s) + 1] = e
         /\ \A i \in 1..Len(s) : Append(s, e)[i] = s[i]
         /\ \A i \in 1..(Len(s) + 1) : i \in 1..Len(s) \/ i = Len(s) + 1
BY AppendProperties, LenProperties

\* A name reaches itself, and reaches the children of what it reaches.
LEMMA ReachesFacts ==
  ASSUME NEW n \in Name
  PROVE  /\ Reaches(n, n)
         /\ \A r \in Name : Reaches(r, n) => \A m \in depGraph[n] : Reaches(r, m)
BY DEF Reaches, ClosedUnderGraph

\* The merged graph is a graph over the names.
LEMMA GraphFacts ==
  ASSUME TypeOK
  PROVE  /\ \A n \in Name : depGraph[n] \subseteq Name
         /\ InUseNames \subseteq Name
BY DEF TypeOK, depGraph, Graph, InUseNames, Dependency

\* The names and the graph the sweep works on never change.
LEMMA InputsFixed ==
  ASSUME UNCHANGED inputs
  PROVE  /\ depGraph' = depGraph
         /\ InUseNames' = InUseNames
         /\ \A r, n : Reaches(r, n)' <=> Reaches(r, n)
         /\ \A d : Redundant(d)' <=> Redundant(d)
BY DEF inputs, depGraph, InUseNames, Reaches, ClosedUnderGraph, Redundant
----------------------------------------------------------------------------
\* TypeOK is inductive by itself.
LEMMA TypeStep == TypeOK /\ [Next]_vars => TypeOK'
<1>. SUFFICES ASSUME TypeOK, [Next]_vars PROVE TypeOK'
  OBVIOUS
<1>. USE NoRootAssumption
<1>1. ASSUME NEW n \in Name, Seed(n) PROVE TypeOK'
  <2>1. <<n, n>> \in Name \X Name
    OBVIOUS
  <2>2. Append(worklist, <<n, n>>) \in Seq(Name \X Name)
    BY <2>1, PushFacts DEF TypeOK
  <2>. QED BY <1>1, <2>2 DEF Seed, TypeOK, inputs, outputs
<1>2. CASE NothingInUse
  BY <1>2 DEF NothingInUse, TypeOK, inputs, outputs
<1>3. CASE Seeded
  BY <1>3 DEF Seeded, TypeOK, inputs, outputs
<1>4. CASE SkipVisited
  <2>1. Popped \in Seq(Name \X Name)
    BY <1>4, PopFacts DEF SkipVisited, TypeOK, Popped
  <2>. QED BY <1>4, <2>1 DEF SkipVisited, TypeOK, inputs, outputs
<1>5. CASE Visit
  <2>1. Popped \in Seq(Name \X Name) /\ Top \in Name \X Name
    BY <1>5, PopFacts DEF Visit, TypeOK, Popped, Top
  <2>2. depGraph[Top[1]] \in SUBSET Name
    BY <2>1, GraphFacts
  <2>. QED BY <1>5, <2>1, <2>2 DEF Visit, TypeOK, inputs, outputs
<1>6. ASSUME NEW c \in Name, ExpandChild(c) PROVE TypeOK'
  <2>1. current[2] \in Name /\ <<c, current[2]>> \in Name \X Name
    BY <1>6 DEF ExpandChild, TypeOK
  <2>2. Append(worklist, <<c, current[2]>>) \in Seq(Name \X Name)
    BY <2>1, PushFacts DEF TypeOK
  <2>. QED BY <1>6, <2>1, <2>2 DEF ExpandChild, TypeOK, inputs, outputs
<1>7. CASE Expanded
  BY <1>7 DEF Expanded, TypeOK, inputs, outputs
<1>8. CASE Rebuild
  <2>1. \A d \in Dep : decl[d].name \in Name /\ decl[d].status \in Status
    BY DEF TypeOK, Dependency
  <2>2. status' \in [Dep -> Status]
    BY <1>8, <2>1 DEF Rebuild, Status
  <2>3. redundantParent' \in [Dep -> Name \cup {NoRoot}]
    BY <1>8, <2>1 DEF Rebuild, TypeOK
  <2>. QED BY <1>8, <2>2, <2>3 DEF Rebuild, TypeOK, inputs
<1>9. CASE Returned
  BY <1>9 DEF Returned, vars, TypeOK
<1>10. CASE UNCHANGED vars
  BY <1>10 DEF vars, TypeOK
<1>. QED
  BY <1>1, <1>2, <1>3, <1>4, <1>5, <1>6, <1>7, <1>8, <1>9, <1>10 DEF Next, Step

\* Every recorded root is IN_USE, reaches the name and differs from it.
LEMMA RootsStep == SweepInv /\ [Next]_vars => RootsJustified'
<1>. SUFFICES ASSUME SweepInv, [Next]_vars PROVE RootsJustified'
  OBVIOUS
<1>. USE NoRootAssumption DEF SweepInv
<1>0. TypeOK /\ RootsJustified /\ TypeOK'
  BY TypeStep
<1>1. ASSUME UNCHANGED <<inputs, worklist, liftedBy, visited, current>>,
             pc' = "expand" => pc = "expand"
      PROVE  RootsJustified'
  BY <1>0, <1>1, InputsFixed DEF RootsJustified
<1>2. ASSUME NEW n \in Name, Seed(n) PROVE RootsJustified'
  <2>1. <<n, n>> \in Name \X Name /\ Reaches(n, n) /\ n \in InUseNames
    BY <1>2, ReachesFacts DEF Seed
  <2>2. /\ worklist' = Append(worklist, <<n, n>>)
        /\ UNCHANGED <<inputs, pc, current, visited, liftedBy>>
    BY <1>2 DEF Seed
  <2>3. \A i \in 1..Len(worklist') :
          \/ i \in 1..Len(worklist) /\ worklist'[i] = worklist[i]
          \/ worklist'[i] = <<n, n>>
    BY <1>0, <2>1, <2>2, PushFacts DEF TypeOK
  <2>. QED BY <1>0, <2>1, <2>2, <2>3, InputsFixed DEF RootsJustified
<1>3. CASE SkipVisited
  <2>1. /\ worklist' = Popped
        /\ UNCHANGED <<inputs, pc, current, visited, liftedBy>>
    BY <1>3 DEF SkipVisited
  <2>2. \A i \in 1..Len(worklist') :
          i \in 1..Len(worklist) /\ worklist'[i] = worklist[i]
    BY <1>0, <1>3, <2>1, PopFacts DEF SkipVisited, Popped, TypeOK
  <2>. QED BY <1>0, <2>1, <2>2, InputsFixed DEF RootsJustified
<1>4. CASE Visit
  <2>1. /\ worklist' = Popped
        /\ current' = Top
        /\ visited' = visited \cup {Top[1]}
        /\ UNCHANGED <<inputs, liftedBy>>
    BY <1>4 DEF Visit
  <2>2. /\ \A i \in 1..Len(worklist') :
              i \in 1..Len(worklist) /\ worklist'[i] = worklist[i]
        /\ Len(worklist) \in 1..Len(worklist)
    BY <1>0, <1>4, <2>1, PopFacts DEF Visit, Popped, TypeOK
  <2>3. /\ Top[2] \in InUseNames
        /\ Top[2] \in visited \/ Top[2] = Top[1]
        /\ Reaches(Top[2], Top[1])
    BY <1>0, <2>2 DEF RootsJustified, Top
  <2>. QED BY <1>0, <2>1, <2>2, <2>3, InputsFixed DEF RootsJustified
<1>5. ASSUME NEW c \in Name, ExpandChild(c) PROVE RootsJustified'
  <2>1. CASE c \in visited
    BY <1>1, <1>5, <2>1 DEF ExpandChild
  <2>2. CASE c \notin visited
    <3>1. /\ worklist' = Append(worklist, <<c, current[2]>>)
          /\ liftedBy' = [liftedBy EXCEPT ![c] =
                            IF liftedBy[c] = NoRoot THEN current[2] ELSE liftedBy[c]]
          /\ UNCHANGED <<inputs, pc, current, visited>>
          /\ pc = "expand"
          /\ c \in todo
      BY <1>5, <2>2 DEF ExpandChild
    <3>2. /\ current[1] \in Name
          /\ current[2] \in Name
          /\ c \in depGraph[current[1]]
      BY <1>0, <3>1 DEF TypeOK, ChildrenAccounted
    <3>3. /\ current[2] \in InUseNames
          /\ current[2] \in visited
          /\ current[2] # c
          /\ Reaches(current[2], c)
      BY <1>0, <2>2, <3>1, <3>2, ReachesFacts DEF RootsJustified
    <3>4. \A i \in 1..Len(worklist') :
            \/ i \in 1..Len(worklist) /\ worklist'[i] = worklist[i]
            \/ worklist'[i] = <<c, current[2]>>
      <4>1. worklist \in Seq(Name \X Name) /\ <<c, current[2]>> \in Name \X Name
        BY <1>0, <3>2 DEF TypeOK
      <4>. QED BY <3>1, <4>1, PushFacts
    <3>5. \A n \in Name : liftedBy'[n] = liftedBy[n] \/ (n = c /\ liftedBy'[n] = current[2])
      BY <1>0, <3>1 DEF TypeOK
    <3>. QED BY <1>0, <3>1, <3>3, <3>4, <3>5, InputsFixed DEF RootsJustified
  <2>. QED BY <2>1, <2>2
<1>6. CASE NothingInUse \/ Seeded \/ Expanded
  BY <1>1, <1>6 DEF NothingInUse, Seeded, Expanded
<1>7. CASE Rebuild
  BY <1>1, <1>7 DEF Rebuild
<1>8. CASE Returned \/ UNCHANGED vars
  BY <1>1, <1>8 DEF Returned, vars, inputs
<1>. QED
  BY <1>2, <1>3, <1>4, <1>5, <1>6, <1>7, <1>8 DEF Next, Step

\* No name is dropped: what is accounted for is visited or on the worklist.
LEMMA ForgottenStep == SweepInv /\ [Next]_vars => NothingForgotten'
<1>. SUFFICES ASSUME SweepInv, [Next]_vars PROVE NothingForgotten'
  OBVIOUS
<1>. USE NoRootAssumption DEF SweepInv
<1>0. TypeOK /\ NothingForgotten /\ PhaseInv
  OBVIOUS
<1>1. ASSUME UNCHANGED <<inputs, worklist, liftedBy, visited>>,
             Running' => Running, pc' = "done" => pc = "done"
      PROVE  NothingForgotten'
  BY <1>0, <1>1, InputsFixed DEF NothingForgotten, Accounted, OnWorklist
<1>2. ASSUME NEW n \in Name, Seed(n) PROVE NothingForgotten'
  <2>1. /\ worklist' = Append(worklist, <<n, n>>)
        /\ UNCHANGED <<inputs, pc, visited, liftedBy>>
        /\ pc = "seed" /\ n \in InUseNames
    BY <1>2 DEF Seed
  <2>2. \A i \in 1..Len(worklist') :
          \/ i \in 1..Len(worklist) /\ worklist'[i] = worklist[i]
          \/ worklist'[i] = <<n, n>>
    <3>1. worklist \in Seq(Name \X Name) /\ <<n, n>> \in Name \X Name
      BY <1>0 DEF TypeOK
    <3>. QED BY <2>1, <3>1, PushFacts
  <2>. QED BY <1>0, <2>1, <2>2, InputsFixed DEF NothingForgotten, Accounted, Running
<1>3. CASE NothingInUse
  <2>1. /\ UNCHANGED <<inputs, worklist, liftedBy, visited>>
        /\ pc = "seed" /\ pc' = "done" /\ InUseNames = {}
    BY <1>3 DEF NothingInUse
  <2>2. \A n \in Name : ~ Accounted(n)
    BY <1>0, <2>1 DEF PhaseInv, Accounted
  <2>. QED BY <1>0, <2>1, <2>2, InputsFixed
           DEF NothingForgotten, Accounted, Running
<1>4. CASE Seeded
  <2>1. /\ UNCHANGED <<inputs, worklist, liftedBy, visited>>
        /\ pc = "seed" /\ pc' = "pop"
        /\ \A n \in InUseNames : OnWorklist(n)
    BY <1>4 DEF Seeded
  <2>2. \A n \in Name : Accounted(n) => OnWorklist(n)
    BY <1>0, <2>1 DEF PhaseInv, Accounted
  <2>. QED BY <1>0, <2>1, <2>2, InputsFixed
           DEF NothingForgotten, Accounted, OnWorklist
<1>5. CASE SkipVisited
  <2>1. /\ worklist' = Popped
        /\ Top[1] \in visited
        /\ UNCHANGED <<inputs, pc, visited, liftedBy>>
    BY <1>5 DEF SkipVisited
  <2>2. /\ \A i \in 1..Len(worklist') :
              i \in 1..Len(worklist) /\ worklist'[i] = worklist[i]
        /\ \A i \in 1..Len(worklist) :
              i = Len(worklist) \/ i \in 1..Len(worklist')
    BY <1>0, <1>5, <2>1, PopFacts DEF SkipVisited, Popped, TypeOK
  <2>3. \A n \in Name : OnWorklist(n) => OnWorklist(n)' \/ n = Top[1]
    BY <2>2 DEF OnWorklist, Top
  <2>. QED BY <1>0, <2>1, <2>2, <2>3, InputsFixed
           DEF NothingForgotten, Accounted, Running
<1>6. CASE Visit
  <2>1. /\ worklist' = Popped
        /\ visited' = visited \cup {Top[1]}
        /\ pc = "pop" /\ pc' = "expand"
        /\ UNCHANGED <<inputs, liftedBy>>
    BY <1>6 DEF Visit
  <2>2. /\ \A i \in 1..Len(worklist') :
              i \in 1..Len(worklist) /\ worklist'[i] = worklist[i]
        /\ \A i \in 1..Len(worklist) :
              i = Len(worklist) \/ i \in 1..Len(worklist')
        /\ Len(worklist) \in 1..Len(worklist)
    BY <1>0, <1>6, <2>1, PopFacts DEF Visit, Popped, TypeOK
  <2>3. \A n \in Name : OnWorklist(n) => OnWorklist(n)' \/ n = Top[1]
    BY <2>2 DEF OnWorklist, Top
  <2>4. Accounted(Top[1])
    BY <1>0, <2>2 DEF NothingForgotten, Top
  <2>. QED BY <1>0, <2>1, <2>2, <2>3, <2>4, InputsFixed
           DEF NothingForgotten, Accounted, Running
<1>7. ASSUME NEW c \in Name, ExpandChild(c) PROVE NothingForgotten'
  <2>1. CASE c \in visited
    BY <1>1, <1>7, <2>1 DEF ExpandChild, Running
  <2>2. CASE c \notin visited
    <3>1. /\ worklist' = Append(worklist, <<c, current[2]>>)
          /\ liftedBy' = [liftedBy EXCEPT ![c] =
                            IF liftedBy[c] = NoRoot THEN current[2] ELSE liftedBy[c]]
          /\ UNCHANGED <<inputs, pc, current, visited>>
          /\ pc = "expand"
      BY <1>7, <2>2 DEF ExpandChild
    <3>2. /\ worklist \in Seq(Name \X Name)
          /\ current[2] \in Name
          /\ <<c, current[2]>> \in Name \X Name
      BY <1>0, <3>1 DEF TypeOK
    <3>3. /\ \A i \in 1..Len(worklist') :
                \/ i \in 1..Len(worklist) /\ worklist'[i] = worklist[i]
                \/ worklist'[i] = <<c, current[2]>>
          /\ \A i \in 1..Len(worklist) :
                i \in 1..Len(worklist') /\ worklist'[i] = worklist[i]
          /\ Len(worklist) + 1 \in 1..Len(worklist')
          /\ worklist'[Len(worklist) + 1] = <<c, current[2]>>
      BY <3>1, <3>2, PushFacts
    <3>4. \A n \in Name : /\ OnWorklist(n) => OnWorklist(n)'
                          /\ n = c => OnWorklist(n)'
      BY <3>3 DEF OnWorklist
    <3>5. \A n \in Name :
            IF n = c THEN liftedBy'[n] # NoRoot ELSE liftedBy'[n] = liftedBy[n]
      BY <1>0, <3>1, <3>2 DEF TypeOK
    <3>6. \A n \in Name : /\ Accounted(n) => Accounted(n)'
                          /\ n = c => Accounted(n)'
                          /\ Accounted(n)' => Accounted(n) \/ n = c
      BY <3>1, <3>5, InputsFixed DEF Accounted
    <3>7. \A i \in 1..Len(worklist) : worklist[i][1] \in Name
      BY <3>2, ElementOfSeq
    <3>8. visited \subseteq Name
      BY <1>0 DEF TypeOK
    <3>. QED BY <1>0, <3>1, <3>3, <3>4, <3>6, <3>7, <3>8
             DEF NothingForgotten, Running
  <2>. QED BY <2>1, <2>2
<1>8. CASE Expanded
  BY <1>1, <1>8 DEF Expanded, Running
<1>9. CASE Rebuild
  <2>1. /\ UNCHANGED <<inputs, worklist, liftedBy, visited>>
        /\ pc = "pop" /\ pc' = "done" /\ worklist = <<>>
    BY <1>9 DEF Rebuild
  <2>2. \A n \in Name : ~ OnWorklist(n)
    BY <2>1 DEF OnWorklist
  <2>. QED BY <1>0, <2>1, <2>2, InputsFixed
           DEF NothingForgotten, Accounted, Running
<1>10. CASE Returned \/ UNCHANGED vars
  BY <1>1, <1>10 DEF Returned, vars, inputs, Running
<1>. QED
  BY <1>2, <1>3, <1>4, <1>5, <1>6, <1>7, <1>8, <1>9, <1>10 DEF Next, Step

\* The children of what was visited are accounted for or still to come.
LEMMA ChildrenStep == SweepInv /\ [Next]_vars => ChildrenAccounted'
<1>. SUFFICES ASSUME SweepInv, [Next]_vars PROVE ChildrenAccounted'
  OBVIOUS
<1>. USE NoRootAssumption DEF SweepInv
<1>0. TypeOK /\ ChildrenAccounted /\ NothingForgotten
  OBVIOUS
<1>1. ASSUME UNCHANGED <<inputs, liftedBy, visited, pc, todo, current>>
      PROVE  ChildrenAccounted'
  BY <1>0, <1>1, InputsFixed DEF ChildrenAccounted, Accounted
<1>2. ASSUME UNCHANGED <<inputs, liftedBy, visited>>, pc # "expand", pc' # "expand"
      PROVE  ChildrenAccounted'
  BY <1>0, <1>2, InputsFixed DEF ChildrenAccounted, Accounted
<1>3. CASE (\E n \in Name : Seed(n)) \/ SkipVisited
  BY <1>1, <1>3 DEF Seed, SkipVisited
<1>4. CASE NothingInUse \/ Seeded \/ Rebuild
  BY <1>2, <1>4 DEF NothingInUse, Seeded, Rebuild
<1>5. CASE Visit
  <2>1. /\ visited' = visited \cup {Top[1]}
        /\ current' = Top
        /\ todo' = depGraph[Top[1]]
        /\ pc = "pop" /\ pc' = "expand"
        /\ UNCHANGED <<inputs, liftedBy>>
    BY <1>5 DEF Visit
  <2>. QED BY <1>0, <2>1, InputsFixed DEF ChildrenAccounted, Accounted
<1>6. ASSUME NEW c \in Name, ExpandChild(c) PROVE ChildrenAccounted'
  <2>1. /\ todo' = todo \ {c}
        /\ pc = "expand"
        /\ UNCHANGED <<inputs, pc, current, visited>>
    BY <1>6 DEF ExpandChild
  <2>2. \A n \in Name : Accounted(n) => Accounted(n)'
    <3>1. current[2] \in Name
      BY <1>0, <2>1 DEF TypeOK
    <3>2. \A n \in Name : liftedBy[n] # NoRoot => liftedBy'[n] # NoRoot
      BY <1>0, <1>6, <3>1 DEF ExpandChild, TypeOK
    <3>. QED BY <2>1, <3>2, InputsFixed DEF Accounted
  <2>3. Accounted(c)'
    <3>1. CASE c \in visited
      BY <1>0, <2>2, <3>1 DEF NothingForgotten
    <3>2. CASE c \notin visited
      <4>1. liftedBy' = [liftedBy EXCEPT ![c] =
                          IF liftedBy[c] = NoRoot THEN current[2] ELSE liftedBy[c]]
        BY <1>6, <3>2 DEF ExpandChild
      <4>2. current[2] \in Name
        BY <1>0, <2>1 DEF TypeOK
      <4>. QED BY <1>0, <4>1, <4>2 DEF TypeOK, Accounted
    <3>. QED BY <3>1, <3>2
  <2>4. \A n \in visited : depGraph[n] \subseteq Name
    BY <1>0, GraphFacts DEF TypeOK
  <2>. QED BY <1>0, <2>1, <2>2, <2>3, <2>4, InputsFixed DEF ChildrenAccounted
<1>7. CASE Expanded
  <2>1. /\ todo = {} /\ pc' = "pop"
        /\ UNCHANGED <<inputs, liftedBy, visited>>
    BY <1>7 DEF Expanded
  <2>. QED BY <1>0, <2>1, InputsFixed DEF ChildrenAccounted, Accounted
<1>8. CASE Returned \/ UNCHANGED vars
  BY <1>1, <1>8 DEF Returned, vars, inputs
<1>. QED
  BY <1>3, <1>4, <1>5, <1>6, <1>7, <1>8 DEF Next, Step

\* Nothing is recorded too early, and the report says what liftedBy says.
LEMMA PhaseStep == SweepInv /\ [Next]_vars => PhaseInv'
<1>. SUFFICES ASSUME SweepInv, [Next]_vars PROVE PhaseInv'
  OBVIOUS
<1>. USE DEF SweepInv
<1>0. TypeOK /\ PhaseInv
  OBVIOUS
<1>1. ASSUME UNCHANGED <<inputs, outputs>>, pc # "done", pc' # "done",
             pc' = "seed" => pc = "seed" /\ UNCHANGED <<visited, liftedBy>>
      PROVE  PhaseInv'
  BY <1>0, <1>1 DEF PhaseInv, inputs, outputs
<1>2. CASE (\E n \in Name : Seed(n)) \/ Seeded \/ SkipVisited \/ Visit \/ Expanded
  BY <1>1, <1>2 DEF Seed, Seeded, SkipVisited, Visit, Expanded
<1>3. ASSUME NEW c \in Name, ExpandChild(c) PROVE PhaseInv'
  BY <1>1, <1>3 DEF ExpandChild
<1>4. CASE NothingInUse
  <2>1. /\ UNCHANGED <<inputs, outputs, liftedBy>>
        /\ pc = "seed" /\ pc' = "done"
    BY <1>4 DEF NothingInUse
  <2>2. \A d \in Dep : liftedBy'[decl'[d].name] = NoRoot
    BY <1>0, <2>1 DEF PhaseInv, TypeOK, Dependency, inputs
  <2>. QED BY <1>0, <2>1, <2>2 DEF PhaseInv, inputs, outputs, Lifts
<1>5. CASE Rebuild
  BY <1>5 DEF Rebuild, PhaseInv, inputs, Lifts, Redundant
<1>6. CASE Returned \/ UNCHANGED vars
  BY <1>0, <1>6 DEF Returned, vars, PhaseInv, Lifts, Redundant
<1>. QED
  BY <1>2, <1>3, <1>4, <1>5, <1>6 DEF Next, Step
----------------------------------------------------------------------------
\* The sweep starts in a state that satisfies all five parts.
LEMMA SweepInit == Init => SweepInv
<1>. SUFFICES ASSUME Init PROVE SweepInv
  OBVIOUS
<1>1. decl \in [Dep -> Dependency] /\ subgraphs \in [Eco -> Graph]
  BY InputsAssumption DEF Init
<1>2. /\ worklist = <<>>
      /\ Len(worklist) = 0
      /\ worklist \in Seq(Name \X Name)
  BY EmptySeq DEF Init
<1>3. TypeOK
  BY <1>1, <1>2 DEF Init, TypeOK, Dependency, Status
<1>4. 1..Len(worklist) = {}
  BY <1>2
<1>5. PhaseInv
  BY DEF Init, PhaseInv
<1>6. RootsJustified /\ NothingForgotten /\ ChildrenAccounted
  BY <1>4 DEF Init, RootsJustified, NothingForgotten, ChildrenAccounted, Running
<1>. QED BY <1>3, <1>5, <1>6 DEF SweepInv

\* SweepInv holds in every reachable state, for every input.
THEOREM SweepInvariant == Spec => []SweepInv
<1>1. SweepInv /\ [Next]_vars => SweepInv'
  BY TypeStep, RootsStep, ForgottenStep, ChildrenStep, PhaseStep DEF SweepInv
<1>. QED BY SweepInit, <1>1, PTL DEF Spec

\* The variables keep their types.
THEOREM TypeCorrect == Spec => []TypeOK
<1>1. SweepInv => TypeOK
  BY DEF SweepInv
<1>. QED BY SweepInvariant, <1>1, PTL

\* FR-150, the reason the sweep exists: when it returns, no dependency stays
\* SAFE while one reported IN_USE has it as a child.  A dependency whose name an
\* IN_USE one of another ecosystem also bears is left out: the name is visited as
\* a root of the sweep and not as a child, and the code may leave it SAFE
\* (cli.py:236).
THEOREM NothingNeededIsLeftSafe == Spec => []NoSafeChildOfInUse
<1>1. SweepInv => NoSafeChildOfInUse
  <2>. SUFFICES ASSUME SweepInv, pc = "done",
                       NEW p \in Dep, NEW d \in Dep,
                       status[p] = "IN_USE",
                       decl[d].name \in depGraph[decl[p].name],
                       decl[d].name \notin InUseNames
                PROVE  status[d] # "SAFE"
    BY DEF NoSafeChildOfInUse
  <2>1. decl[p].name \in Name /\ decl[d].name \in Name
    BY DEF SweepInv, TypeOK, Dependency
  <2>2. status = [x \in Dep |-> IF Lifts(x) THEN "IN_USE" ELSE decl[x].status]
    BY DEF SweepInv, PhaseInv
  <2>3. Accounted(decl[p].name)
    BY <2>2 DEF Lifts, Accounted, InUseNames
  <2>4. decl[p].name \in visited
    BY <2>1, <2>3 DEF SweepInv, NothingForgotten
  <2>5. liftedBy[decl[d].name] # NoRoot
    BY <2>4 DEF SweepInv, ChildrenAccounted, Accounted
  <2>. QED BY <2>2, <2>5 DEF Lifts
<1>. QED BY SweepInvariant, <1>1, PTL

\* The iteration order of the sets does not show in the verdicts of dependencies
\* that share no name with an IN_USE one of another ecosystem: they are those of
\* reachability.  For a shared name it may: which child is met before the name
\* was visited depends on it (cli.py:236).  The names that are accounted for when the sweep returns are
\* closed under the graph, so they contain all that an IN_USE one reaches.
THEOREM VerdictsDoNotDependOnTheOrder == Spec => []VerdictsAreDetermined
<1>1. SweepInv => VerdictsAreDetermined
  <2>. SUFFICES ASSUME SweepInv, pc = "done", NEW d \in Dep,
                       decl[d].status = "SAFE",
                       decl[d].name \notin InUseNames
                PROVE  status[d] = "IN_USE" <=>
                         \E n \in InUseNames : Reaches(n, decl[d].name)
    BY DEF VerdictsAreDetermined
  <2>1. decl[d].name \in Name /\ InUseNames \subseteq Name
    BY DEF SweepInv, TypeOK, Dependency, InUseNames
  <2>2. status[d] = IF Lifts(d) THEN "IN_USE" ELSE decl[d].status
    BY DEF SweepInv, PhaseInv
  <2>3. ASSUME status[d] = "IN_USE"
        PROVE  \E n \in InUseNames : Reaches(n, decl[d].name)
    <3>1. liftedBy[decl[d].name] # NoRoot
      BY <2>2, <2>3 DEF Lifts
    <3>. QED BY <2>1, <3>1 DEF SweepInv, RootsJustified
  <2>4. ASSUME NEW n \in InUseNames, Reaches(n, decl[d].name)
        PROVE  status[d] = "IN_USE"
    <3>. DEFINE S == {m \in Name : Accounted(m)}
    <3>1. n \in S
      BY <2>1 DEF Accounted
    <3>2. ASSUME NEW m \in S  PROVE depGraph[m] \subseteq S
      <4>1. m \in visited
        BY DEF SweepInv, NothingForgotten
      <4>2. \A k \in depGraph[m] : Accounted(k)
        BY <4>1 DEF SweepInv, ChildrenAccounted
      <4>. QED BY <4>2, GraphFacts DEF SweepInv, TypeOK
    <3>3. decl[d].name \in S
      BY <2>4, <3>1, <3>2 DEF Reaches, ClosedUnderGraph
    <3>. QED BY <2>2, <3>3 DEF Accounted, Lifts
  <2>. QED BY <2>3, <2>4
<1>. QED BY SweepInvariant, <1>1, PTL

\* Only SAFE verdicts change, and only below an IN_USE dependency.
THEOREM LiftsAreJustified == Spec => []OnlyReachedAreLifted
<1>1. SweepInv => OnlyReachedAreLifted
  <2>. SUFFICES ASSUME SweepInv, NEW d \in Dep, status[d] # decl[d].status
                PROVE  /\ decl[d].status = "SAFE"
                       /\ \E p \in Dep : /\ decl[p].status = "IN_USE"
                                         /\ Reaches(decl[p].name, decl[d].name)
    BY DEF OnlyReachedAreLifted
  <2>1. Lifts(d)
    BY DEF SweepInv, PhaseInv
  <2>2. decl[d].name \in Name
    BY DEF SweepInv, TypeOK, Dependency
  <2>3. /\ liftedBy[decl[d].name] \in InUseNames
        /\ Reaches(liftedBy[decl[d].name], decl[d].name)
    BY <2>1, <2>2 DEF SweepInv, RootsJustified, Lifts
  <2>. QED BY <2>1, <2>3 DEF Lifts, InUseNames
<1>. QED BY SweepInvariant, <1>1, PTL

\* A "remove this manifest line" advice names a parent that is IN_USE, is not
\* the dependency itself and does keep it; pin substitutes never get one.
THEOREM RedundancyIsJustified == Spec => []RedundantParentKeepsItAlive
<1>1. SweepInv => RedundantParentKeepsItAlive
  <2>. SUFFICES ASSUME SweepInv, NEW d \in Dep, redundantParent[d] # NoRoot
                PROVE  /\ redundantParent[d] # decl[d].name
                       /\ redundantParent[d] \in InUseNames
                       /\ Reaches(redundantParent[d], decl[d].name)
                       /\ ~ decl[d].pinOverride
    BY DEF RedundantParentKeepsItAlive
  <2>1. /\ Lifts(d)
        /\ Redundant(d)
        /\ redundantParent[d] = liftedBy[decl[d].name]
    BY DEF SweepInv, PhaseInv
  <2>2. decl[d].name \in Name
    BY DEF SweepInv, TypeOK, Dependency
  <2>. QED BY <2>1, <2>2 DEF SweepInv, RootsJustified, Lifts, Redundant
<1>. QED BY SweepInvariant, <1>1, PTL
=============================================================================
