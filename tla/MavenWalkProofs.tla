--------------------------- MODULE MavenWalkProofs ---------------------------
(***************************************************************************)
(* What the POM walk promises for every set of coordinates and versions,   *)
(* every repository of POMs and every node cap.                            *)
(***************************************************************************)
EXTENDS MavenWalk, FiniteSetTheorems, SequenceTheorems, TLAPS

Waiting == {worklist[i] : i \in 1 .. Len(worklist)}

Found(p) == {e \in edges : e.parent = p}

Below(p, S) ==
  {[parent |-> p, child |-> ch.coord, version |-> Declares(ch.version)] : ch \in S}

\* Some edge names p with what the text v is sanitised to.
DeclaredAt(p, v) == \E f \in edges : f.child = p /\ f.version = Declares(v)

Overflow == phase \in {"pins", "done"} /\ Cardinality(visited) > MaxNodes

\* The POM of some declared version was read to its end.
ReadFrom(p) ==
  \E v \in Version : /\ DeclaredAt(p, v)
                     /\ poms[<<p, v>>] # NoPom
                     /\ Found(p) = Below(p, poms[<<p, v>>])

\* Some edge declares p without a version, or with one that has no POM.
Unreadable(p) ==
  \E v \in Version \cup {NoVersion} :
    DeclaredAt(p, v) /\ (v = NoVersion \/ poms[<<p, v>>] = NoPom)

InputTypes ==
  /\ direct \in [Coord -> Version \cup {NoVersion, None}]
  /\ \A j \in Coord \X Version : poms[j] \in {NoPom} \cup SUBSET Child

\* What waits was named by an edge.
EntriesDeclared == \A x \in Waiting : DeclaredAt(x[1], x[2])

\* What an edge names is recorded, and was visited, waits, or has no version.
EdgesRecorded ==
  \A e \in edges :
    /\ e.parent = Root => e.child \in Direct
    /\ e.parent # Root => /\ discovered[e.child] # None
                          /\ e.version # NoVersion => discovered[e.child] \in Version
    /\ \/ e.child \in visited
       \/ \E x \in Waiting : x[1] = e.child
       \/ e.version = NoVersion
       \/ Overflow

\* What is discovered has the version of an edge.
VersionsDeclared ==
  \A c \in Coord :
    discovered[c] # None => \E g \in edges : g.child = c /\ g.version = discovered[c]

\* Every edge hangs below the root.
EdgesReached ==
  \A T \in SUBSET Coord :
    Children(Root) \subseteq T /\ (\A e \in edges : e.parent \in T => e.child \in T)
      => \A e \in edges : e.child \in T

\* The POM being read has given the edges of what is not left to do.
ExpandInv ==
  phase = "expand" =>
    /\ current \in visited
    /\ \E v \in Version : /\ DeclaredAt(current, v)
                          /\ poms[<<current, v>>] # NoPom
                          /\ todo \subseteq poms[<<current, v>>]
                          /\ Found(current) = Below(current, poms[<<current, v>>] \ todo)

\* A label has no edges before it is visited, and then those of one POM, or
\* none, for a reason.
ReadInv ==
  \A p \in Coord :
    /\ p \notin visited => Found(p) = {}
    /\ p \in visited /\ ~ (phase = "expand" /\ current = p) =>
         ReadFrom(p) \/ (Found(p) = {} /\ (Unreadable(p) \/ Overflow))

EndInv == phase \in {"pins", "done"} => Waiting = {} \/ Overflow

IInv ==
  /\ TypeOK /\ InputTypes /\ IsFiniteSet(visited)
  /\ EntriesDeclared /\ EdgesRecorded /\ VersionsDeclared /\ EdgesReached
  /\ ExpandInv /\ ReadInv /\ EndInv
-----------------------------------------------------------------------------
\* Appending to the stack adds what waits.
LEMMA Pushed ==
  ASSUME NEW x, worklist \in Seq(Coord \X (Version \cup {NoVersion})),
         worklist' = Append(worklist, x)
  PROVE  Waiting' = Waiting \cup {x}
<1>1. Len(worklist) \in Nat /\ Len(worklist') = Len(worklist) + 1
  OBVIOUS
<1>2. \A i \in 1 .. Len(worklist) : worklist'[i] = worklist[i]
  OBVIOUS
<1>3. worklist'[Len(worklist) + 1] = x
  OBVIOUS
<1>4. 1 .. Len(worklist') = (1 .. Len(worklist)) \cup {Len(worklist) + 1}
  BY <1>1
<1>. QED BY <1>2, <1>3, <1>4 DEF Waiting

\* A sequence without its last element.
LEMMA Front ==
  ASSUME NEW X, NEW s \in Seq(X), s # <<>>
  PROVE  LET t == SubSeq(s, 1, Len(s) - 1)
         IN  /\ Len(s) \in Nat \ {0}
             /\ t \in Seq(X)
             /\ Len(t) = Len(s) - 1
             /\ \A i \in 1 .. Len(s) - 1 : t[i] = s[i]
<1>. DEFINE n == Len(s) - 1
<1>1. Len(s) \in Nat \ {0}
  BY EmptySeq
<1>2. n \in Int /\ 1 \in Int /\ n >= 0 /\ n - 1 + 1 = n
  BY <1>1
<1>3. \A i \in 1 .. n : s[i] \in X
  BY <1>1
<1>. HIDE DEF n
<1>4. /\ SubSeq(s, 1, n) \in Seq(X)
      /\ Len(SubSeq(s, 1, n)) = IF 1 <= n THEN n - 1 + 1 ELSE 0
      /\ \A i \in 1 .. n - 1 + 1 : SubSeq(s, 1, n)[i] = s[1 + i - 1]
  BY <1>2, <1>3, SubSeqProperties
<1>5. Len(SubSeq(s, 1, n)) = n
  BY <1>2, <1>4
<1>6. \A i \in 1 .. n : SubSeq(s, 1, n)[i] = s[i]
  <2>1. \A i \in 1 .. n : 1 + i - 1 = i
    BY <1>2
  <2>. QED BY <1>2, <1>4, <2>1
<1>. QED BY <1>1, <1>4, <1>5, <1>6 DEF n

\* Popping takes at most the top away.
LEMMA PoppedTop ==
  ASSUME worklist \in Seq(Coord \X (Version \cup {NoVersion})), worklist # <<>>,
         worklist' = Popped
  PROVE  /\ Top \in Waiting /\ Top \in Coord \X (Version \cup {NoVersion})
         /\ worklist' \in Seq(Coord \X (Version \cup {NoVersion}))
         /\ Waiting' \subseteq Waiting
         /\ Waiting \subseteq Waiting' \cup {Top}
<1>1. /\ Len(worklist) \in Nat \ {0}
      /\ worklist' \in Seq(Coord \X (Version \cup {NoVersion}))
      /\ Len(worklist') = Len(worklist) - 1
      /\ \A i \in 1 .. Len(worklist) - 1 : worklist'[i] = worklist[i]
  BY Front DEF Popped
<1>2. Len(worklist) \in 1 .. Len(worklist)
  BY <1>1
<1>3. Top \in Waiting /\ Top \in Coord \X (Version \cup {NoVersion})
  BY <1>2 DEF Top, Waiting
<1>4. 1 .. Len(worklist) = (1 .. Len(worklist) - 1) \cup {Len(worklist)}
  BY <1>1
<1>5. Waiting' = {worklist[i] : i \in 1 .. Len(worklist) - 1}
  BY <1>1 DEF Waiting
<1>6. Waiting = {worklist[i] : i \in 1 .. Len(worklist) - 1} \cup {Top}
  BY <1>4 DEF Waiting, Top
<1>. QED BY <1>1, <1>3, <1>5, <1>6

\* An empty stack has nothing waiting.
LEMMA NothingWaits ==
  ASSUME worklist = <<>> PROVE Waiting = {}
BY DEF Waiting
-----------------------------------------------------------------------------
LEMMA Initially == Init => IInv
<1>. SUFFICES ASSUME Init PROVE IInv
  OBVIOUS
<1>1. PICK in \in Inputs : direct = in.direct /\ poms = in.poms
  BY DEF Init
<1>2. InputTypes
  BY <1>1, InputsAssumption DEF InputTypes
<1>3. TypeOK
  BY EmptySeq DEF Init, TypeOK
<1>4. Waiting = {}
  BY NothingWaits DEF Init
<1>5. EdgesReached
  BY DEF Init, EdgesReached
<1>6. ReadInv
  BY DEF Init, ReadInv, Found
<1>7. IsFiniteSet(visited)
  BY FS_EmptySet DEF Init
<1>. QED BY <1>2, <1>3, <1>4, <1>5, <1>6, <1>7
     DEF IInv, Init, EntriesDeclared, EdgesRecorded, VersionsDeclared, ExpandInv, EndInv

\* The edges and what is read of them, when no edge is added.
LEMMA SameEdges ==
  ASSUME UNCHANGED <<poms, edges>>
  PROVE  /\ \A p \in Coord : /\ Found(p)' = Found(p)
                             /\ ReadFrom(p)' <=> ReadFrom(p)
                             /\ Unreadable(p)' <=> Unreadable(p)
         /\ \A p, v : DeclaredAt(p, v)' <=> DeclaredAt(p, v)
         /\ EdgesReached' <=> EdgesReached
         /\ UNCHANGED discovered => (VersionsDeclared' <=> VersionsDeclared)
BY DEF Found, VersionsDeclared, ReadFrom, Unreadable, DeclaredAt, EdgesReached, Children

\* The steps that only turn the phase, none of them to or from a POM.
LEMMA TurnStep ==
  ASSUME IInv, UNCHANGED <<input, worklist, current, todo, visited, edges, discovered>>,
         phase # "expand", phase' # "expand",
         phase' \in {"seed", "walk", "pins", "done"},
         pin' \in [Coord -> {"EXCLUSION", "DEPENDENCY_MANAGEMENT", None}],
         phase \in {"pins", "done"} => phase' \in {"pins", "done"},
         phase' \in {"pins", "done"} => phase \in {"pins", "done"} \/ worklist = <<>>
  PROVE  IInv'
<1>1. Waiting' = Waiting
  BY DEF Waiting
<1>2. Overflow => Overflow'
  BY DEF Overflow
<1>3. TypeOK' /\ InputTypes' /\ IsFiniteSet(visited)'
  BY DEF IInv, TypeOK, InputTypes, input
<1>4. EntriesDeclared' /\ EdgesReached' /\ VersionsDeclared'
  BY <1>1, SameEdges DEF IInv, EntriesDeclared, input
<1>5. EdgesRecorded'
  BY <1>1, <1>2 DEF IInv, EdgesRecorded, Direct, input
<1>6. ReadInv'
  BY <1>2, SameEdges DEF IInv, ReadInv, input
<1>7. ExpandInv' /\ EndInv'
  BY <1>1, <1>2, NothingWaits DEF IInv, ExpandInv, EndInv
<1>. QED BY <1>3, <1>4, <1>5, <1>6, <1>7 DEF IInv

LEMMA SeedStep ==
  ASSUME IInv, NEW c \in Coord, SeedDirect(c)
  PROVE  IInv'
<1>. DEFINE new == [parent |-> Root, child |-> c, version |-> Declares(direct[c])]
<1>1. /\ phase = "seed" /\ phase' = "seed"
      /\ c \in Direct
      /\ worklist' = Append(worklist, <<c, direct[c]>>)
      /\ edges' = edges \cup {new}
      /\ UNCHANGED <<input, current, todo, visited, discovered, pin>>
  BY DEF SeedDirect
<1>2. direct[c] \in Version \cup {NoVersion}
  BY <1>1 DEF IInv, InputTypes, Direct
<1>3. /\ new \in Edge /\ new.parent = Root /\ new.child = c
      /\ new.version = Declares(direct[c])
  BY <1>2, SanitisedAssumption DEF Edge, Declares
<1>. HIDE DEF new
<1>4. TypeOK' /\ InputTypes' /\ IsFiniteSet(visited)'
  BY <1>1, <1>2, <1>3, AppendProperties DEF IInv, TypeOK, InputTypes, input
<1>5. Waiting' = Waiting \cup {<<c, direct[c]>>}
  BY <1>1, Pushed DEF IInv, TypeOK
<1>6. \A p, v : DeclaredAt(p, v) => DeclaredAt(p, v)'
  BY <1>1 DEF DeclaredAt
<1>7. EntriesDeclared'
  <2>1. \A v : v = direct[c] => DeclaredAt(c, v)'
    BY <1>1, <1>3 DEF DeclaredAt
  <2>2. \A x \in Waiting : DeclaredAt(x[1], x[2])'
    BY <1>6 DEF IInv, EntriesDeclared
  <2>3. ASSUME NEW x \in Waiting' PROVE DeclaredAt(x[1], x[2])'
    <3>1. CASE x = <<c, direct[c]>>
      <4>1. x[1] = c /\ x[2] = direct[c]
        BY <3>1
      <4>. QED BY <2>1, <4>1
    <3>. QED BY <1>5, <2>2, <3>1
  <2>. QED BY <2>3 DEF EntriesDeclared
<1>8. EdgesRecorded'
  <2>1. Direct' = Direct /\ discovered' = discovered /\ visited' = visited
        /\ (Overflow' <=> Overflow)
    BY <1>1 DEF Direct, Overflow, input
  <2>2. \E x \in Waiting' : x[1] = c
    <3>1. <<c, direct[c]>>[1] = c
      OBVIOUS
    <3>. QED BY <1>5, <3>1
  <2>3. \A e \in edges' : e \in edges \/ e = new
    BY <1>1
  <2>. QED BY <1>1, <1>3, <1>5, <2>1, <2>2, <2>3 DEF IInv, EdgesRecorded
<1>9. EdgesReached'
  <2>. SUFFICES ASSUME NEW T \in SUBSET Coord, Children(Root)' \subseteq T,
                       \A e \in edges' : e.parent \in T => e.child \in T,
                       NEW e \in edges'
                PROVE  e.child \in T
    BY DEF EdgesReached
  <2>1. Children(Root) \subseteq Children(Root)' /\ c \in Children(Root)'
    BY <1>1, <1>3 DEF Children
  <2>. QED BY <1>1, <1>3, <2>1 DEF IInv, EdgesReached
<1>10. ReadInv'
  <2>1. \A p \in Coord : Found(p)' = Found(p)
    BY <1>1, <1>3, MarksAssumption DEF Found
  <2>2. \A p \in Coord : ReadFrom(p) => ReadFrom(p)'
    BY <1>1, <1>6, <2>1 DEF ReadFrom, Below, Declares, input
  <2>3. \A p \in Coord : Unreadable(p) => Unreadable(p)'
    BY <1>1, <1>6 DEF Unreadable, input
  <2>. QED BY <1>1, <2>1, <2>2, <2>3 DEF IInv, ReadInv, Overflow
<1>11. ExpandInv' /\ EndInv' /\ VersionsDeclared'
  BY <1>1 DEF IInv, ExpandInv, EndInv, VersionsDeclared
<1>. QED BY <1>4, <1>7, <1>8, <1>9, <1>10, <1>11 DEF IInv

LEMMA SkipStep ==
  ASSUME IInv, SkipVisited
  PROVE  IInv'
<1>1. /\ phase = "walk" /\ phase' = "walk" /\ Top[1] \in visited
      /\ worklist # <<>> /\ worklist' = Popped
      /\ UNCHANGED <<input, current, todo, visited, edges, discovered, pin>>
  BY DEF SkipVisited
<1>2. /\ worklist' \in Seq(Coord \X (Version \cup {NoVersion}))
      /\ Waiting' \subseteq Waiting
      /\ Waiting \subseteq Waiting' \cup {Top}
  BY <1>1, PoppedTop DEF IInv, TypeOK
<1>3. TypeOK' /\ InputTypes' /\ IsFiniteSet(visited)'
  BY <1>1, <1>2 DEF IInv, TypeOK, InputTypes, input
<1>4. EntriesDeclared' /\ EdgesReached' /\ VersionsDeclared'
  BY <1>1, <1>2, SameEdges DEF IInv, EntriesDeclared, input
<1>5. EdgesRecorded'
  BY <1>1, <1>2 DEF IInv, EdgesRecorded, Direct, Overflow, input
<1>6. ReadInv'
  BY <1>1, SameEdges DEF IInv, ReadInv, Overflow, input
<1>7. ExpandInv' /\ EndInv'
  BY <1>1 DEF ExpandInv, EndInv
<1>. QED BY <1>3, <1>4, <1>5, <1>6, <1>7 DEF IInv

LEMMA VisitStep ==
  ASSUME IInv, Visit
  PROVE  IInv'
<1>. DEFINE p == Top[1]
<1>1. /\ phase = "walk" /\ worklist # <<>> /\ worklist' = Popped
      /\ p \notin visited /\ visited' = visited \cup {p}
      /\ UNCHANGED <<input, edges, discovered, pin>>
  BY DEF Visit
<1>2. \/ Cardinality(visited') > MaxNodes /\ phase' = "pins" /\ UNCHANGED <<current, todo>>
      \/ Top[2] = NoVersion /\ UNCHANGED <<phase, current, todo>>
      \/ poms[Top] = NoPom /\ UNCHANGED <<phase, current, todo>>
      \/ /\ Top[2] # NoVersion /\ poms[Top] # NoPom
         /\ phase' = "expand" /\ current' = p /\ todo' = poms[Top]
  BY DEF Visit
<1>3. /\ Top \in Waiting /\ Top \in Coord \X (Version \cup {NoVersion})
      /\ worklist' \in Seq(Coord \X (Version \cup {NoVersion}))
      /\ Waiting' \subseteq Waiting
      /\ Waiting \subseteq Waiting' \cup {Top}
  BY <1>1, PoppedTop DEF IInv, TypeOK
<1>4. /\ p \in Coord /\ Top = <<p, Top[2]>> /\ Top[2] \in Version \cup {NoVersion}
      /\ DeclaredAt(p, Top[2])
  BY <1>3 DEF IInv, EntriesDeclared
<1>5. Top[2] # NoVersion /\ poms[Top] # NoPom => Top[2] \in Version /\ poms[Top] \subseteq Child
  <2>. SUFFICES ASSUME Top[2] # NoVersion, poms[Top] # NoPom
                PROVE  Top[2] \in Version /\ poms[Top] \subseteq Child
    OBVIOUS
  <2>1. Top[2] \in Version /\ Top \in Coord \X Version
    BY <1>3, <1>4
  <2>. QED BY <2>1 DEF IInv, InputTypes
<1>. HIDE DEF p
<1>6. IsFiniteSet(visited')
  BY <1>1, FS_AddElement DEF IInv
<1>7. TypeOK' /\ InputTypes'
  <2>1. /\ phase' \in {"walk", "expand", "pins"}
        /\ current' \in Coord \cup {Root} /\ todo' \subseteq Child
    BY <1>1, <1>2, <1>4, <1>5 DEF IInv, TypeOK
  <2>2. visited' \subseteq Coord
    BY <1>1, <1>4 DEF IInv, TypeOK
  <2>. QED BY <1>1, <1>3, <2>1, <2>2 DEF IInv, TypeOK, InputTypes, input
<1>8. EntriesDeclared' /\ EdgesReached' /\ VersionsDeclared'
  BY <1>1, <1>3, SameEdges DEF IInv, EntriesDeclared, input
<1>9. Overflow => Overflow'
  BY <1>1 DEF Overflow
<1>10. EdgesRecorded'
  <2>1. Direct' = Direct /\ discovered' = discovered /\ edges' = edges
    BY <1>1 DEF Direct, input
  <2>2. \A x \in Waiting : x \in Waiting' \/ x[1] \in visited'
    BY <1>1, <1>3 DEF p
  <2>3. visited \subseteq visited'
    BY <1>1
  <2>. QED BY <1>9, <2>1, <2>2, <2>3 DEF IInv, EdgesRecorded
<1>11. Found(p) = {}
  BY <1>1, <1>4 DEF IInv, ReadInv
<1>12. ExpandInv'
  <2>. SUFFICES ASSUME phase' = "expand"
                PROVE  /\ current' \in visited'
                       /\ \E v \in Version :
                            /\ DeclaredAt(current, v)'
                            /\ poms'[<<current', v>>] # NoPom
                            /\ todo' \subseteq poms'[<<current', v>>]
                            /\ Found(current)' = Below(current', poms'[<<current', v>>] \ todo')
    BY DEF ExpandInv, Below, Declares
  <2>1. /\ Top[2] # NoVersion /\ poms[Top] # NoPom
        /\ current' = p /\ todo' = poms[Top]
    BY <1>1, <1>2
  <2>2. Top[2] \in Version
    BY <1>5, <2>1
  <2>3. poms' = poms /\ edges' = edges
    BY <1>1 DEF input
  <2>4. \A v : v = Top[2] => DeclaredAt(current, v)'
    BY <1>4, <2>1, <2>3 DEF DeclaredAt
  <2>5. Found(current)' = {}
    BY <1>11, <2>1, <2>3 DEF Found
  <2>6. Below(current', poms'[<<current', Top[2]>>] \ todo') = {}
    BY <1>4, <2>1, <2>3 DEF Below
  <2>. QED BY <1>1, <1>4, <2>1, <2>2, <2>3, <2>4, <2>5, <2>6
<1>13. ReadInv'
  <2>1. ASSUME NEW q \in Coord
        PROVE  /\ q \notin visited' => Found(q)' = {}
               /\ q \in visited' /\ ~ (phase' = "expand" /\ current' = q) =>
                    ReadFrom(q)' \/ (Found(q)' = {} /\ (Unreadable(q)' \/ Overflow'))
    <3>1. Found(q)' = Found(q) /\ (ReadFrom(q)' <=> ReadFrom(q))
          /\ (Unreadable(q)' <=> Unreadable(q))
      BY <1>1, SameEdges DEF input
    <3>2. CASE q # p
      BY <1>1, <1>9, <3>1, <3>2 DEF IInv, ReadInv
    <3>3. CASE q = p
      <4>1. ASSUME ~ (phase' = "expand" /\ current' = p) PROVE Unreadable(p) \/ Overflow'
        <5>1. CASE Cardinality(visited') > MaxNodes /\ phase' = "pins"
          BY <5>1 DEF Overflow
        <5>2. CASE Top[2] = NoVersion \/ poms[Top] = NoPom
          BY <1>4, <5>2 DEF Unreadable
        <5>. QED BY <1>2, <4>1, <5>1, <5>2
      <4>. QED BY <1>1, <1>11, <3>1, <3>3, <4>1
    <3>. QED BY <3>2, <3>3
  <2>. QED BY <2>1 DEF ReadInv
<1>14. EndInv'
  BY <1>1, <1>2 DEF EndInv, Overflow
<1>. QED BY <1>6, <1>7, <1>8, <1>10, <1>12, <1>13, <1>14 DEF IInv

LEMMA ExpandStep ==
  ASSUME IInv, NEW ch \in Child, ExpandChild(ch)
  PROVE  IInv'
<1>. DEFINE new == [parent |-> current, child |-> ch.coord, version |-> Declares(ch.version)]
<1>1. /\ phase = "expand" /\ phase' = "expand" /\ ch \in todo /\ todo' = todo \ {ch}
      /\ edges' = edges \cup {new}
      /\ discovered' = [discovered EXCEPT ![ch.coord] =
                          IF @ \in {None, NoVersion} THEN Declares(ch.version) ELSE @]
      /\ UNCHANGED <<input, current, visited, pin>>
  BY DEF ExpandChild
<1>2. \/ worklist' = worklist /\ (ch.version = Broken \/ ch.coord \in visited)
      \/ worklist' = Append(worklist, <<ch.coord, ch.version>>) /\ ch.version # Broken
  BY DEF ExpandChild
<1>3. PICK v \in Version : /\ current \in visited
                           /\ DeclaredAt(current, v)
                           /\ poms[<<current, v>>] # NoPom
                           /\ todo \subseteq poms[<<current, v>>]
                           /\ Found(current) = Below(current, poms[<<current, v>>] \ todo)
  BY <1>1 DEF IInv, ExpandInv
<1>4. current \in Coord
  BY <1>3 DEF IInv, TypeOK
<1>5. /\ ch.coord \in Coord
      /\ ch.version \in Version \cup {NoVersion, Broken}
      /\ Declares(ch.version) \in Version \cup {NoVersion}
  BY SanitisedAssumption DEF Child, Declares
<1>6. /\ new \in Edge /\ new.parent = current /\ new.child = ch.coord
      /\ new.version = Declares(ch.version)
  BY <1>4, <1>5 DEF Edge
<1>. HIDE DEF new
<1>7. Declares(ch.version) # None
  BY <1>5, MarksAssumption
<1>8. /\ Waiting \subseteq Waiting'
      /\ \A x \in Waiting' : x \in Waiting \/ (x = <<ch.coord, ch.version>> /\ ch.version # Broken)
      /\ ch.coord \in visited \/ ch.version = Broken \/ \E x \in Waiting' : x[1] = ch.coord
      /\ worklist' \in Seq(Coord \X (Version \cup {NoVersion}))
  <2>1. CASE worklist' = worklist /\ (ch.version = Broken \/ ch.coord \in visited)
    <3>1. Waiting' = Waiting
      BY <2>1 DEF Waiting
    <3>. QED BY <2>1, <3>1 DEF IInv, TypeOK
  <2>2. CASE worklist' = Append(worklist, <<ch.coord, ch.version>>) /\ ch.version # Broken
    <3>1. Waiting' = Waiting \cup {<<ch.coord, ch.version>>}
      BY <2>2, Pushed DEF IInv, TypeOK
    <3>2. <<ch.coord, ch.version>> \in Coord \X (Version \cup {NoVersion})
      BY <1>5, <2>2
    <3>3. worklist' \in Seq(Coord \X (Version \cup {NoVersion}))
      BY <2>2, <3>2, AppendProperties DEF IInv, TypeOK
    <3>. QED BY <2>2, <3>1, <3>3
  <2>. QED BY <1>2, <2>1, <2>2
<1>9. /\ discovered' \in [Coord -> Version \cup {NoVersion, None}]
      /\ discovered'[ch.coord] # None
      /\ Declares(ch.version) # NoVersion => discovered'[ch.coord] \in Version
      /\ \A c \in Coord : /\ discovered[c] # None => discovered'[c] # None
                          /\ discovered[c] \in Version => discovered'[c] \in Version
  BY <1>1, <1>5, <1>7, MarksAssumption DEF IInv, TypeOK
<1>10. TypeOK' /\ InputTypes' /\ IsFiniteSet(visited)'
  BY <1>1, <1>6, <1>8, <1>9 DEF IInv, TypeOK, InputTypes, input
<1>11. \A q, w : DeclaredAt(q, w) => DeclaredAt(q, w)'
  BY <1>1 DEF DeclaredAt
<1>12. EntriesDeclared'
  <2>1. ch.version # Broken => DeclaredAt(ch.coord, ch.version)'
    BY <1>1, <1>5, <1>6 DEF DeclaredAt
  <2>2. \A x \in Waiting : DeclaredAt(x[1], x[2])'
    BY <1>11 DEF IInv, EntriesDeclared
  <2>3. ASSUME NEW x \in Waiting' PROVE DeclaredAt(x[1], x[2])'
    <3>1. CASE x \in Waiting
      BY <2>2, <3>1
    <3>2. CASE x = <<ch.coord, ch.version>> /\ ch.version # Broken
      <4>1. x[1] = ch.coord /\ x[2] = ch.version
        BY <3>2
      <4>. QED BY <2>1, <3>2, <4>1
    <3>. QED BY <1>8, <3>1, <3>2
  <2>. QED BY <2>3 DEF EntriesDeclared
<1>13. EdgesRecorded'
  <2>1. Direct' = Direct /\ visited' = visited /\ ~ Overflow
    BY <1>1 DEF Direct, input, Overflow
  <2>2. ASSUME NEW e \in edges
        PROVE  /\ e.parent = Root => e.child \in Direct
               /\ e.parent # Root => /\ discovered'[e.child] # None
                                     /\ e.version # NoVersion => discovered'[e.child] \in Version
               /\ \/ e.child \in visited
                  \/ \E x \in Waiting' : x[1] = e.child
                  \/ e.version = NoVersion
    <3>1. e.child \in Coord
      BY DEF IInv, TypeOK, Edge
    <3>. QED BY <1>8, <1>9, <2>1, <3>1 DEF IInv, EdgesRecorded
  <2>3. /\ new.parent # Root
        /\ discovered'[new.child] # None
        /\ new.version # NoVersion => discovered'[new.child] \in Version
        /\ \/ new.child \in visited
           \/ \E x \in Waiting' : x[1] = new.child
           \/ new.version = NoVersion
    <3>1. ch.version = Broken => Declares(ch.version) = NoVersion
      BY MarksAssumption DEF Declares
    <3>. QED BY <1>4, <1>6, <1>8, <1>9, <3>1, MarksAssumption
  <2>4. \A e \in edges' : e \in edges \/ e = new
    BY <1>1
  <2>. QED BY <2>1, <2>2, <2>3, <2>4 DEF EdgesRecorded
<1>14. EdgesReached'
  <2>. SUFFICES ASSUME NEW T \in SUBSET Coord, Children(Root)' \subseteq T,
                       \A e \in edges' : e.parent \in T => e.child \in T,
                       NEW e \in edges'
                PROVE  e.child \in T
    BY DEF EdgesReached
  <2>1. Children(Root) \subseteq Children(Root)'
    BY <1>1 DEF Children
  <2>2. \A f \in edges : f.child \in T
    BY <1>1, <2>1 DEF IInv, EdgesReached
  <2>3. current \in T
    BY <1>3, <2>2 DEF DeclaredAt
  <2>4. new \in edges' /\ new.parent \in T
    BY <1>1, <1>6, <2>3
  <2>. QED BY <1>1, <2>2, <2>4
<1>15. \A q \in Coord \ {current} : Found(q)' = Found(q)
  BY <1>1, <1>6 DEF Found
<1>16. ReadInv'
  <2>1. ASSUME NEW q \in Coord \ {current}
        PROVE  /\ ReadFrom(q) => ReadFrom(q)'
               /\ Unreadable(q) => Unreadable(q)'
    <3>1. ReadFrom(q) => ReadFrom(q)'
      BY <1>1, <1>11, <1>15 DEF ReadFrom, Below, Declares, input
    <3>2. Unreadable(q) => Unreadable(q)'
      BY <1>1, <1>11 DEF Unreadable, input
    <3>. QED BY <3>1, <3>2
  <2>2. ~ Overflow /\ phase' = "expand" /\ current' = current /\ visited' = visited
    BY <1>1 DEF Overflow
  <2>. QED BY <1>1, <1>3, <1>15, <2>1, <2>2 DEF IInv, ReadInv
<1>17. ExpandInv'
  <2>1. poms' = poms /\ current' = current
    BY <1>1 DEF input
  <2>2. Found(current)' = Found(current) \cup {new}
    BY <1>1, <1>6 DEF Found
  <2>3. Below(current, poms[<<current, v>>] \ todo') =
          Below(current, poms[<<current, v>>] \ todo) \cup {new}
    <3>1. poms[<<current, v>>] \ todo' = (poms[<<current, v>>] \ todo) \cup {ch}
      BY <1>1, <1>3
    <3>. QED BY <3>1 DEF Below, new
  <2>4. Found(current)' = Below(current, poms[<<current, v>>] \ todo')
    BY <1>3, <2>2, <2>3
  <2>5. DeclaredAt(current, v)'
    BY <1>3, <1>11, <2>1 DEF DeclaredAt
  <2>6. todo' \subseteq poms[<<current, v>>] /\ current \in visited'
    BY <1>1, <1>3
  <2>. QED BY <1>3, <2>1, <2>4, <2>5, <2>6 DEF ExpandInv, Below, Declares
<1>18. EndInv'
  BY <1>1 DEF EndInv
<1>19. VersionsDeclared'
  <2>. SUFFICES ASSUME NEW c \in Coord, discovered'[c] # None
                PROVE  \E g \in edges' : g.child = c /\ g.version = discovered'[c]
    BY DEF VersionsDeclared
  <2>1. CASE discovered'[c] = discovered[c]
    BY <1>1, <2>1 DEF IInv, VersionsDeclared
  <2>2. CASE discovered'[c] # discovered[c]
    <3>1. c = ch.coord /\ discovered'[c] = Declares(ch.version)
      BY <1>1, <1>5, <2>2 DEF IInv, TypeOK
    <3>. QED BY <1>1, <1>6, <3>1
  <2>. QED BY <2>1, <2>2
<1>. QED BY <1>10, <1>12, <1>13, <1>14, <1>16, <1>17, <1>18, <1>19 DEF IInv

LEMMA ExpandedStep ==
  ASSUME IInv, Expanded
  PROVE  IInv'
<1>1. /\ phase = "expand" /\ phase' = "walk" /\ todo = {}
      /\ UNCHANGED <<input, worklist, current, todo, visited, edges, discovered, pin>>
  BY DEF Expanded
<1>2. Waiting' = Waiting
  BY <1>1 DEF Waiting
<1>3. TypeOK' /\ InputTypes' /\ IsFiniteSet(visited)'
  BY <1>1 DEF IInv, TypeOK, InputTypes, input
<1>4. EntriesDeclared' /\ EdgesReached' /\ VersionsDeclared'
  BY <1>1, <1>2, SameEdges DEF IInv, EntriesDeclared, input
<1>5. EdgesRecorded'
  BY <1>1, <1>2 DEF IInv, EdgesRecorded, Direct, Overflow, input
<1>6. ReadFrom(current)
  <2>1. PICK v \in Version : /\ DeclaredAt(current, v)
                             /\ poms[<<current, v>>] # NoPom
                             /\ Found(current) = Below(current, poms[<<current, v>>] \ todo)
    BY <1>1 DEF IInv, ExpandInv
  <2>2. poms[<<current, v>>] \ todo = poms[<<current, v>>]
    BY <1>1
  <2>. QED BY <2>1, <2>2 DEF ReadFrom
<1>7. ReadInv'
  <2>1. ~ Overflow
    BY <1>1 DEF Overflow
  <2>. QED BY <1>1, <1>6, <2>1, SameEdges DEF IInv, ReadInv, input
<1>8. ExpandInv' /\ EndInv'
  BY <1>1 DEF ExpandInv, EndInv
<1>. QED BY <1>3, <1>4, <1>5, <1>7, <1>8 DEF IInv

LEMMA PinTypes ==
  ASSUME NEW c \in Coord
  PROVE  PinKind(c) \in {"EXCLUSION", "DEPENDENCY_MANAGEMENT", None}
BY DEF PinKind

\* The walk keeps its inductive invariant, and with it its types.
THEOREM WalkInvariant == Spec => []IInv
<1>1. IInv /\ [Next]_vars => IInv'
  <2>. SUFFICES ASSUME IInv, [Next]_vars PROVE IInv'
    OBVIOUS
  <2>1. ASSUME NEW c \in Coord, SeedDirect(c) PROVE IInv'
    BY <2>1, SeedStep
  <2>2. CASE SkipVisited
    BY <2>2, SkipStep
  <2>3. CASE Visit
    BY <2>3, VisitStep
  <2>4. ASSUME NEW ch \in Child, ExpandChild(ch) PROVE IInv'
    BY <2>4, ExpandStep
  <2>5. CASE Expanded
    BY <2>5, ExpandedStep
  <2>6. CASE Seeded \/ Walked
    <3>1. pin \in [Coord -> {"EXCLUSION", "DEPENDENCY_MANAGEMENT", None}]
      BY DEF IInv, TypeOK
    <3>. QED BY <2>6, <3>1, TurnStep DEF Seeded, Walked
  <2>7. CASE DetectPinOverrides
    <3>1. pin' \in [Coord -> {"EXCLUSION", "DEPENDENCY_MANAGEMENT", None}]
      BY <2>7, PinTypes DEF DetectPinOverrides
    <3>. QED BY <2>7, <3>1, TurnStep DEF DetectPinOverrides
  <2>8. CASE UNCHANGED vars
    <3>1. /\ UNCHANGED <<input, worklist, current, todo, visited, edges, discovered>>
          /\ phase' = phase /\ pin' = pin
      BY <2>8 DEF vars, input
    <3>2. Waiting' = Waiting /\ Overflow' = Overflow /\ Direct' = Direct
      BY <3>1 DEF Waiting, Overflow, Direct, input
    <3>3. TypeOK' /\ InputTypes' /\ IsFiniteSet(visited)'
      BY <3>1 DEF IInv, TypeOK, InputTypes, input
    <3>4. EntriesDeclared' /\ EdgesReached' /\ VersionsDeclared'
      BY <3>1, <3>2, SameEdges DEF IInv, EntriesDeclared, input
    <3>5. EdgesRecorded' /\ EndInv'
      BY <3>1, <3>2 DEF IInv, EdgesRecorded, EndInv
    <3>6. ReadInv'
      BY <3>1, <3>2, SameEdges DEF IInv, ReadInv, input
    <3>7. ExpandInv'
      <4>1. ASSUME phase = "expand"
            PROVE  /\ current \in visited
                   /\ \E v \in Version :
                        /\ DeclaredAt(current, v)
                        /\ poms[<<current, v>>] # NoPom
                        /\ todo \subseteq poms[<<current, v>>]
                        /\ Found(current) = Below(current, poms[<<current, v>>] \ todo)
        BY <4>1 DEF IInv, ExpandInv
      <4>2. /\ phase' = phase /\ current' = current /\ visited' = visited
            /\ todo' = todo /\ poms' = poms /\ edges' = edges
        BY <3>1 DEF input
      <4>. QED BY <4>1, <4>2 DEF ExpandInv, DeclaredAt, Found, Below
    <3>. QED BY <3>3, <3>4, <3>5, <3>6, <3>7 DEF IInv
  <2>. QED BY <2>1, <2>2, <2>3, <2>4, <2>5, <2>6, <2>7, <2>8 DEF Next, Step, Returned
<1>. QED BY Initially, <1>1, PTL DEF Spec
-----------------------------------------------------------------------------
\* The edges below a coordinate are those of one POM, of a version that an edge
\* declares for it (maven.py, _build_transitive_graph).
THEOREM EdgesAreOfOnePom == Spec => []EdgesOfOnePom
<1>1. IInv => EdgesOfOnePom
  <2>. SUFFICES ASSUME IInv, NEW p \in Coord, Children(p) # {}
                PROVE  \E v \in Version :
                         /\ DeclaredAt(p, v)
                         /\ poms[<<p, v>>] # NoPom
                         /\ IF phase = "expand" /\ current = p
                            THEN Found(p) \subseteq Below(p, poms[<<p, v>>])
                            ELSE Found(p) = Below(p, poms[<<p, v>>])
    BY DEF EdgesOfOnePom, Found, Below, DeclaredAt
  <2>1. Found(p) # {}
    BY DEF Children, Found
  <2>2. CASE phase = "expand" /\ current = p
    <3>1. PICK v \in Version : /\ DeclaredAt(p, v)
                               /\ poms[<<p, v>>] # NoPom
                               /\ Found(p) = Below(p, poms[<<p, v>>] \ todo)
      BY <2>2 DEF IInv, ExpandInv
    <3>2. Found(p) \subseteq Below(p, poms[<<p, v>>])
      BY <3>1 DEF Below
    <3>. QED BY <2>2, <3>1, <3>2
  <2>3. CASE ~ (phase = "expand" /\ current = p)
    <3>1. ReadFrom(p)
      BY <2>1, <2>3 DEF IInv, ReadInv
    <3>. QED BY <2>3, <3>1 DEF ReadFrom
  <2>. QED BY <2>2, <2>3
<1>. QED BY <1>1, WalkInvariant, PTL

\* What an edge names is reported and reached from the root; one that only the
\* walk brings has the version of an edge, and has one when any edge gives one
\* (maven.py, the synthesised transitives of analyse).
THEOREM EdgesAreReported == Spec => []EveryEdgeIsReported
<1>1. IInv => EveryEdgeIsReported
  <2>. SUFFICES ASSUME IInv, NEW e \in edges
                PROVE  /\ e.child \in Dependencies
                       /\ e.child \in ReachableFrom(Children(Root))
                       /\ e.child \notin Direct =>
                            /\ \E g \in edges : /\ g.child = e.child
                                                /\ g.version = ReportedVersion(e.child)
                            /\ e.version # NoVersion => ReportedVersion(e.child) # NoVersion
    BY DEF EveryEdgeIsReported
  <2>1. e.child \in Coord
    BY DEF IInv, TypeOK, Edge
  <2>2. e.child \in Dependencies
    BY <2>1 DEF IInv, EdgesRecorded, Dependencies
  <2>3. e.child \in ReachableFrom(Children(Root))
    BY <2>1 DEF IInv, EdgesReached, ReachableFrom
  <2>4. ASSUME e.child \notin Direct
        PROVE  /\ \E g \in edges : g.child = e.child /\ g.version = ReportedVersion(e.child)
               /\ e.version # NoVersion => ReportedVersion(e.child) # NoVersion
    <3>1. ReportedVersion(e.child) = discovered[e.child]
      BY <2>4 DEF ReportedVersion
    <3>2. /\ discovered[e.child] # None
          /\ e.version # NoVersion => discovered[e.child] \in Version
      BY <2>4 DEF IInv, EdgesRecorded
    <3>. QED BY <2>1, <3>1, <3>2, MarksAssumption DEF IInv, VersionsDeclared
  <2>. QED BY <2>2, <2>3, <2>4
<1>. QED BY <1>1, WalkInvariant, PTL

\* A POM that every edge to its coordinate agrees on is read, whatever the order
\* of the walk, below the node cap (maven.py, the visited set).
THEOREM AgreedPomsAreRead == Spec => []AgreedPomIsRead
<1>1. IInv => AgreedPomIsRead
  <2>. SUFFICES ASSUME IInv, phase = "done", Cardinality(visited) <= MaxNodes,
                       NEW f \in edges, NEW v \in Version,
                       f.version = Declares(v), f.version # NoVersion,
                       \A w \in Version : Declares(w) = f.version => w = v,
                       poms[<<f.child, v>>] # NoPom,
                       \A g \in edges : g.child = f.child => g.version = f.version
                PROVE  Children(f.child) = {ch.coord : ch \in poms[<<f.child, v>>]}
    BY DEF AgreedPomIsRead
  <2>1. ~ Overflow
    <3>1. Cardinality(visited) \in Nat
      BY FS_CardinalityType DEF IInv
    <3>. QED BY <3>1, MaxNodesAssumption DEF Overflow
  <2>2. Waiting = {}
    BY <2>1 DEF IInv, EndInv
  <2>3. f.child \in visited /\ f.child \in Coord
    BY <2>1, <2>2 DEF IInv, EdgesRecorded, TypeOK, Edge
  <2>4. \A w \in Version \cup {NoVersion} : DeclaredAt(f.child, w) => w = v
    <3>1. Declares(NoVersion) = NoVersion
      BY MarksAssumption DEF Declares
    <3>. QED BY <3>1 DEF DeclaredAt
  <2>5. ~ Unreadable(f.child)
    BY <2>4, MarksAssumption DEF Unreadable
  <2>6. ReadFrom(f.child)
    BY <2>1, <2>3, <2>5 DEF IInv, ReadInv
  <2>7. Found(f.child) = Below(f.child, poms[<<f.child, v>>])
    BY <2>4, <2>6 DEF ReadFrom
  <2>8. Children(f.child) = {e.child : e \in Found(f.child)}
    BY DEF Children, Found
  <2>. DEFINE S == poms[<<f.child, v>>]
              rec(ch) == [parent |-> f.child, child |-> ch.coord, version |-> Declares(ch.version)]
  <2>9. \A ch \in S : rec(ch).child = ch.coord
    OBVIOUS
  <2>10. Children(f.child) = {e.child : e \in {rec(ch) : ch \in S}}
    BY <2>7, <2>8 DEF Below
  <2>. HIDE DEF rec, S
  <2>11. {e.child : e \in {rec(ch) : ch \in S}} = {ch.coord : ch \in S}
    BY <2>9
  <2>. QED BY <2>10, <2>11 DEF S
<1>. QED BY <1>1, WalkInvariant, PTL
=============================================================================
