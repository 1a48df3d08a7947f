-------------------------- MODULE CacheStoreProofs --------------------------
(***************************************************************************)
(* For every set of workers and artefacts, every number of calls and every *)
(* cap: the files implement the atomic cache, apart from the artefacts     *)
(* that two workers wrote at once, and they end under the cap.             *)
(***************************************************************************)
EXTENDS CacheStore, FiniteSetTheorems, TLAPS

Writing(w) == pc[w] \in {"write", "replace"}

Types ==
  /\ link \in [Path -> Inode \cup {NoInode}]
  /\ content \in [Inode -> Bytes \cup {Empty}]
  /\ pc = [w \in Worker |-> pc[w]]
  /\ art \in [Worker -> Art]
  /\ handle \in [Worker -> Inode \cup {NoInode}]

\* A name has an inode of its own, and what is under the name of an artefact
\* that was never contended is whole.
LinkInv ==
  /\ \A p, q \in Path : p # q /\ Exists(p) => link[p] # link[q]
  /\ \A a \in Art \ contended : Exists(Jar(a)) => content[link[Jar(a)]] \in Bytes

\* What is open for writing is nobody's but the artefact's.
HandleInv ==
  \A w \in Worker :
    IF pc[w] = "write"
    THEN /\ handle[w] \in Inode
         /\ \A p \in Path : link[p] = handle[w] => p[1] = art[w]
         /\ \A v \in Worker : handle[v] = handle[w] => art[v] = art[w]
    ELSE handle[w] = NoInode

\* Who writes an artefact that was never contended is alone, has at most the
\* .part file open, and renames a whole one.
Alone(w) ==
  /\ \A v \in Worker : Writing(v) /\ art[v] = art[w] => v = w
  /\ pc[w] = "write" => /\ link[Jar(art[w])] # handle[w]
                        /\ Exists(Part(art[w])) => link[Part(art[w])] = handle[w]
  /\ pc[w] = "replace" /\ Exists(Part(art[w])) => content[link[Part(art[w])]] \in Bytes

WriterInv == \A w \in Worker : Writing(w) /\ art[w] \notin contended => Alone(w)

IInv == Types /\ LinkInv /\ HandleInv /\ WriterInv
-----------------------------------------------------------------------------
\* Jar and Part name different paths, each for one artefact.
LEMMA Names ==
  /\ \A a \in Art : /\ Jar(a) \in Path /\ Part(a) \in Path
                    /\ Jar(a)[1] = a /\ Part(a)[1] = a
  /\ \A a, b \in Art : /\ Jar(a) # Part(b)
                       /\ Jar(a) = Jar(b) => a = b
                       /\ Part(a) = Part(b) => a = b
  /\ \A p \in Path : p = Jar(p[1]) \/ p = Part(p[1])
BY DEF Jar, Part, Path

LEMMA Inodes == NoInode \notin Inode
BY DEF Inode, NoInode

\* There are two names for each artefact.
LEMMA PathsAreFinite ==
  /\ IsFiniteSet(Path) /\ Cardinality(Path) = 2 * Cardinality(Art)
  /\ Cardinality(Art) \in Nat /\ Cardinality(Worker) \in Nat
<1>1. IsFiniteSet({"jar"}) /\ Cardinality({"jar"}) = 1
  BY FS_Singleton
<1>2. "part" \notin {"jar"} /\ {"jar", "part"} = {"jar"} \cup {"part"}
  OBVIOUS
<1>3. IsFiniteSet({"jar", "part"}) /\ Cardinality({"jar", "part"}) = 2
  <2>1. /\ IsFiniteSet({"jar"} \cup {"part"})
        /\ Cardinality({"jar"} \cup {"part"}) = Cardinality({"jar"}) + 1
    BY <1>1, <1>2, FS_AddElement
  <2>. QED BY <1>1, <1>2, <2>1
<1>4. /\ IsFiniteSet(Art) /\ Cardinality(Art) \in Nat /\ Cardinality(Worker) \in Nat
  BY StoreAssumption, FS_CardinalityType
<1>5. /\ IsFiniteSet(Art \X {"jar", "part"})
      /\ Cardinality(Art \X {"jar", "part"}) = Cardinality(Art) * Cardinality({"jar", "part"})
  BY <1>3, <1>4, FS_Product
<1>. QED BY <1>3, <1>4, <1>5 DEF Path

\* A part of a finite set is no larger than it.
LEMMA Smaller ==
  ASSUME NEW S, NEW T, IsFiniteSet(S), T \subseteq S
  PROVE  /\ IsFiniteSet(T) /\ Cardinality(T) \in Nat /\ Cardinality(S) \in Nat
         /\ Cardinality(T) <= Cardinality(S)
BY FS_Subset, FS_CardinalityType

\* A function takes no more values than it has arguments.
LEMMA ValuesAreFewer ==
  ASSUME NEW S, IsFiniteSet(S), NEW f, DOMAIN f = S
  PROVE  /\ IsFiniteSet({f[x] : x \in S})
         /\ Cardinality({f[x] : x \in S}) <= Cardinality(S)
<1>. DEFINE T == {f[x] : x \in S}
            g == [x \in S |-> f[x]]
<1>1. g \in Surjection(S, T)
  BY DEF Surjection
<1>2. IsFiniteSet(T) /\ Cardinality(T) <= Cardinality(S)
  BY <1>1, FS_Surjection
<1>. QED BY <1>2

\* An inode is left for a name that has none.
LEMMA SomeInodeIsLeft ==
  ASSUME Types, NEW p \in Path, ~ Exists(p)
  PROVE  Unused # {}
<1>. DEFINE D == Path \ {p}
            K == {link[q] : q \in D}
            H == {handle[v] : v \in Worker}
            m == 2 * Cardinality(Art) + Cardinality(Worker)
<1>. SUFFICES ASSUME Unused = {} PROVE FALSE
  OBVIOUS
<1>1. IsFiniteSet(D) /\ Cardinality(D) = 2 * Cardinality(Art) - 1
  BY PathsAreFinite, FS_RemoveElement
<1>2. IsFiniteSet(K) /\ Cardinality(K) <= Cardinality(D)
  <2>. DEFINE g == [q \in D |-> link[q]]
  <2>1. DOMAIN g = D /\ K = {g[q] : q \in D}
    OBVIOUS
  <2>. HIDE DEF g, K, D
  <2>2. IsFiniteSet({g[q] : q \in D}) /\ Cardinality({g[q] : q \in D}) <= Cardinality(D)
    BY <1>1, <2>1, ValuesAreFewer
  <2>. QED BY <2>1, <2>2
<1>3. IsFiniteSet(H) /\ Cardinality(H) <= Cardinality(Worker)
  <2>1. DOMAIN handle = Worker /\ IsFiniteSet(Worker)
    BY StoreAssumption DEF Types
  <2>. QED BY <2>1, ValuesAreFewer
<1>4. Inode \subseteq K \cup H
  <2>1. ASSUME NEW i \in Inode PROVE i \in K \cup H
    <3>1. i \in Range(link) \cup Range(handle) /\ i # NoInode
      BY Inodes DEF Unused
    <3>2. CASE i \in Range(link)
      <4>1. PICK q \in Path : link[q] = i
        BY <3>2 DEF Range, Types
      <4>2. q \in D
        BY <3>1, <4>1 DEF Exists
      <4>. QED BY <4>1, <4>2
    <3>3. CASE i \in Range(handle)
      BY <3>3 DEF Range, Types
    <3>. QED BY <3>1, <3>2, <3>3
  <2>. QED BY <2>1
<1>5. m \in Nat /\ IsFiniteSet(Inode) /\ Cardinality(Inode) = m
  <2>1. m \in Nat /\ Inode = 1 .. m
    BY PathsAreFinite DEF Inode
  <2>. HIDE DEF m
  <2>2. IsFiniteSet(1 .. m) /\ Cardinality(1 .. m) = IF 1 > m THEN 0 ELSE m - 1 + 1
    BY <2>1, FS_Interval
  <2>3. Cardinality(1 .. m) = m
    BY <2>1, <2>2
  <2>. QED BY <2>1, <2>2, <2>3
<1>. HIDE DEF K, H, D
<1>6. /\ Cardinality(K) \in Nat /\ Cardinality(H) \in Nat
      /\ IsFiniteSet(K \cup H) /\ Cardinality(K \cup H) \in Nat
      /\ Cardinality(K \cup H) <= Cardinality(K) + Cardinality(H)
  <2>1. /\ IsFiniteSet(K \cup H)
        /\ Cardinality(K \cup H) = Cardinality(K) + Cardinality(H) - Cardinality(K \cap H)
    BY <1>2, <1>3, FS_Union
  <2>2. IsFiniteSet(K \cap H)
    BY <1>2, FS_Intersection
  <2>3. /\ Cardinality(K) \in Nat /\ Cardinality(H) \in Nat /\ Cardinality(K \cap H) \in Nat
        /\ Cardinality(K \cup H) \in Nat
    BY <1>2, <1>3, <2>1, <2>2, FS_CardinalityType
  <2>. QED BY <2>1, <2>3
<1>7. m <= Cardinality(K \cup H)
  BY <1>4, <1>5, <1>6, Smaller
<1>. QED BY <1>1, <1>2, <1>3, <1>5, <1>6, <1>7, PathsAreFinite
-----------------------------------------------------------------------------
\* Earlier runs left whole files, each with its inode.
LEMMA Initially == Init => IInv /\ Store!Init
<1>. SUFFICES ASSUME Init PROVE IInv /\ Store!Init
  OBVIOUS
<1>1. PICK S \in SUBSET {Jar(a) : a \in Art} : Inits(S)
  BY DEF Init
<1>. DEFINE order == SetToSeq(S)
            n == Cardinality(S)
<1>2. /\ IsFiniteSet(S) /\ n \in Nat /\ n <= Cardinality(Art)
      /\ \A p \in S : p \in Path /\ p[1] \in Art /\ p = Jar(p[1])
  <2>1. \A p \in S : p \in Path /\ p[1] \in Art /\ p = Jar(p[1])
    BY DEF Jar, Path
  <2>. DEFINE g == [p \in S |-> p[1]]
  <2>2. g \in Injection(S, Art)
    <3>1. g \in [S -> Art]
      BY <2>1
    <3>2. \A p, q \in S : g[p] = g[q] => p = q
      BY <2>1
    <3>. QED BY <3>1, <3>2 DEF Injection, IsInjective
  <2>. HIDE DEF g
  <2>3. IsFiniteSet(S) /\ Cardinality(S) <= Cardinality(Art)
    BY <2>2, StoreAssumption, FS_Injection
  <2>. QED BY <2>1, <2>3, FS_CardinalityType
<1>3. /\ order \in [1 .. n -> S]
      /\ \A p \in S : \E i \in 1 .. n : order[i] = p
  <2>1. PICK h : h \in Bijection(1 .. n, S)
    BY <1>2, FS_CardinalityType DEF ExistsBijection
  <2>2. h \in [1 .. n -> S] /\ IsInjective(h)
    BY <2>1 DEF Bijection, Injection
  <2>3. order \in [1 .. n -> S] /\ IsInjective(order)
    BY <2>2 DEF SetToSeq
  <2>. HIDE DEF order
  <2>4. order \in Injection(1 .. n, S)
    BY <2>3 DEF Injection
  <2>5. IsFiniteSet(1 .. n) /\ Cardinality(1 .. n) = Cardinality(S)
    <3>. HIDE DEF n
    <3>1. n \in Nat
      BY <1>2
    <3>2. IsFiniteSet(1 .. n) /\ Cardinality(1 .. n) = IF 1 > n THEN 0 ELSE n - 1 + 1
      BY <3>1, FS_Interval
    <3>3. Cardinality(1 .. n) = n
      BY <3>1, <3>2
    <3>. QED BY <3>2, <3>3 DEF n
  <2>6. order \in Surjection(1 .. n, S)
    BY <1>2, <2>4, <2>5, FS_Injection
  <2>. QED BY <2>3, <2>6 DEF Surjection, IsInjective
<1>4. /\ \A p \in Path : link[p] = IF p \in S THEN CHOOSE i \in DOMAIN order : order[i] = p
                                   ELSE NoInode
      /\ link = [p \in Path |-> link[p]]
  BY <1>1 DEF Inits
<1>. HIDE DEF order
<1>5. \A p \in S : link[p] \in 1 .. n /\ order[link[p]] = p
  BY <1>2, <1>3, <1>4
<1>6. 1 .. n \subseteq Inode
  <2>. DEFINE top == 2 * Cardinality(Art) + Cardinality(Worker)
  <2>1. Inode = 1 .. top /\ n <= top /\ top \in Nat /\ n \in Nat
    BY <1>2, PathsAreFinite DEF Inode
  <2>. HIDE DEF top, n
  <2>. QED BY <2>1
<1>. HIDE DEF n
<1>7. Types
  <2>1. link \in [Path -> Inode \cup {NoInode}]
    BY <1>4, <1>5, <1>6
  <2>2. content \in [Inode -> Bytes \cup {Empty}] /\ art \in [Worker -> Art]
    BY DEF Init
  <2>. QED BY <2>1, <2>2 DEF Init, Types
<1>8. \A p \in Path : Exists(p) => p \in S /\ link[p] \in Inode
  BY <1>4, <1>5, <1>6 DEF Exists
<1>9. LinkInv
  <2>1. \A i \in Inode : content[i] \in Bytes
    BY DEF Init
  <2>2. \A p, q \in Path : p # q /\ Exists(p) => link[p] # link[q]
    <3>1. \A p, q \in S : link[p] = link[q] => p = q
      BY <1>5
    <3>2. \A p \in Path \ S : link[p] = NoInode
      BY <1>4
    <3>. QED BY <1>8, <3>1, <3>2 DEF Exists
  <2>3. \A a \in Art : Exists(Jar(a)) => content[link[Jar(a)]] \in Bytes
    BY <1>8, <2>1, Names
  <2>. QED BY <2>2, <2>3 DEF LinkInv
<1>10. HandleInv /\ WriterInv
  BY DEF Init, HandleInv, WriterInv, Writing
<1>11. Store!Init
  <2>1. \A a \in Art : Shown[a] \in Bytes \cup {Absent}
    BY <1>9 DEF Shown, View, LinkInv
  <2>2. Shown = [a \in Art |-> Shown[a]]
    BY DEF Shown
  <2>. HIDE DEF Shown
  <2>. QED BY <2>1, <2>2 DEF Store!Init
<1>. QED BY <1>7, <1>9, <1>10, <1>11 DEF IInv

\* A step of one worker that opens, writes and renames nothing: names may go,
\* and readers see artefacts disappear, or nothing.
LEMMA ShrinkStep ==
  ASSUME IInv, NEW w \in Worker, NEW to, to \notin {"write", "replace"},
         link' \in [Path -> Inode \cup {NoInode}],
         \A p \in Path : link'[p] \in {link[p], NoInode},
         content' = content, contended' = contended,
         handle' \in [Worker -> Inode \cup {NoInode}], handle'[w] = NoInode,
         pc' = [pc EXCEPT ![w] = to],
         art' \in [Worker -> Art],
         \A v \in Worker : v # w => art'[v] = art[v] /\ handle'[v] = handle[v]
  PROVE  IInv' /\ \E S \in SUBSET Art : Store!Evict(S)
<1>1. pc' = [v \in Worker |-> pc'[v]] /\ pc'[w] = to
      /\ \A v \in Worker : v # w => pc'[v] = pc[v]
  BY DEF IInv, Types
<1>2. Types'
  BY <1>1 DEF IInv, Types
<1>3. \A p \in Path : link'[p] # NoInode => link'[p] = link[p] /\ Exists(p)
  BY DEF Exists
<1>4. LinkInv'
  <2>1. \A p, q \in Path : p # q /\ link'[p] # NoInode => link'[p] # link'[q]
    BY <1>3 DEF IInv, LinkInv
  <2>2. \A a \in Art \ contended : link'[Jar(a)] # NoInode => content'[link'[Jar(a)]] \in Bytes
    BY <1>3, Names DEF IInv, LinkInv
  <2>. QED BY <2>1, <2>2 DEF LinkInv, Exists
<1>5. HandleInv'
  <2>1. ASSUME NEW v \in Worker, pc'[v] = "write"
        PROVE  /\ v # w /\ handle'[v] \in Inode
               /\ \A p \in Path : link'[p] = handle'[v] => p[1] = art'[v]
               /\ \A u \in Worker : handle'[u] = handle'[v] => art'[u] = art'[v]
    <3>1. v # w /\ pc[v] = "write" /\ art'[v] = art[v] /\ handle'[v] = handle[v]
      BY <1>1, <2>1
    <3>2. /\ handle[v] \in Inode /\ handle[v] # NoInode
          /\ \A p \in Path : link[p] = handle[v] => p[1] = art[v]
          /\ \A u \in Worker : handle[u] = handle[v] => art[u] = art[v]
      BY <3>1, Inodes DEF IInv, HandleInv
    <3>. QED BY <3>1, <3>2
  <2>2. ASSUME NEW v \in Worker, pc'[v] # "write" PROVE handle'[v] = NoInode
    BY <1>1, <2>2 DEF IInv, HandleInv
  <2>. QED BY <2>1, <2>2 DEF HandleInv
<1>6. WriterInv'
  <2>. SUFFICES ASSUME NEW v \in Worker, Writing(v)', art'[v] \notin contended'
                PROVE  Alone(v)'
    BY DEF WriterInv
  <2>1. \A u \in Worker : Writing(u)' => /\ u # w /\ Writing(u) /\ pc'[u] = pc[u]
                                         /\ art'[u] = art[u] /\ handle'[u] = handle[u]
    BY <1>1 DEF Writing
  <2>2. Alone(v)
    BY <2>1 DEF IInv, WriterInv
  <2>3. \A u \in Worker : Writing(u)' /\ art'[u] = art'[v] => u = v
    BY <2>1, <2>2 DEF Alone
  <2>4. Jar(art[v]) \in Path /\ Part(art[v]) \in Path /\ art'[v] = art[v]
    BY <2>1, Names DEF IInv, Types
  <2>5. pc'[v] = "write" =>
          /\ link'[Jar(art[v])] # handle'[v]
          /\ link'[Part(art[v])] # NoInode => link'[Part(art[v])] = handle'[v]
    <3>1. pc[v] = "write" => handle[v] # NoInode
      BY Inodes DEF IInv, HandleInv
    <3>. QED BY <1>3, <2>1, <2>2, <2>4, <3>1 DEF Alone, Exists
  <2>6. pc'[v] = "replace" /\ link'[Part(art[v])] # NoInode => content'[link'[Part(art[v])]] \in Bytes
    BY <1>3, <2>1, <2>2, <2>4 DEF Alone, Exists
  <2>. QED BY <2>3, <2>4, <2>5, <2>6 DEF Alone, Exists
<1>7. \E S \in SUBSET Art : Store!Evict(S)
  <2>. DEFINE S == {a \in Art : link'[Jar(a)] = NoInode}
  <2>1. \A a \in Art \ S : link'[Jar(a)] = link[Jar(a)] /\ link[Jar(a)] # NoInode
    BY Names
  <2>2. View' = [a \in Art |-> IF a \in S THEN Absent ELSE View[a]]
    BY <2>1 DEF View, Exists
  <2>3. Shown' = [a \in Art |-> IF a \in S THEN Absent ELSE Shown[a]]
    BY <2>2 DEF Shown
  <2>. QED BY <2>3 DEF Store!Evict
<1>. QED BY <1>2, <1>4, <1>5, <1>6, <1>7 DEF IInv

\* The .part file is created, or emptied.  Another writer of the artefact makes
\* it contended.
LEMMA OpenStep ==
  ASSUME IInv, NEW w \in Worker, Open(w)
  PROVE  IInv' /\ \E S \in SUBSET Art : Store!Evict(S)
<1>. DEFINE a == art[w]
            p == Part(a)
            i == IF Exists(p) THEN link[p] ELSE CHOOSE j \in Unused : TRUE
<1>1. /\ pc[w] = "fetch"
      /\ link' = [link EXCEPT ![p] = i]
      /\ content' = [content EXCEPT ![i] = Empty]
      /\ handle' = [handle EXCEPT ![w] = i]
      /\ pc' = [pc EXCEPT ![w] = "write"]
      /\ contended' = contended \cup (IF Writers(a) = {} THEN {} ELSE {a})
      /\ art' = art
  BY DEF Open, OpenFile, GoTo
<1>2. a \in Art /\ p \in Path /\ p[1] = a
  BY Names DEF IInv, Types
<1>3. ~ Exists(p) => i \in Unused
  BY <1>2, SomeInodeIsLeft DEF IInv
<1>4. i \in Inode /\ i # NoInode
  <2>1. CASE Exists(p)
    BY <1>2, <2>1 DEF IInv, Types, Exists
  <2>2. CASE ~ Exists(p)
    BY <1>3, <2>2, Inodes DEF Unused
  <2>. QED BY <2>1, <2>2
<1>5. \A q \in Path : q # p => link[q] # i
  <2>1. CASE Exists(p)
    BY <1>2, <2>1 DEF IInv, LinkInv
  <2>2. CASE ~ Exists(p)
    <3>1. i \notin Range(link)
      BY <1>3, <2>2 DEF Unused
    <3>. HIDE DEF i, p
    <3>. QED BY <3>1 DEF Range, IInv, Types
  <2>. QED BY <2>1, <2>2
<1>6. \A v \in Worker : handle[v] = i => art[v] = a
  <2>1. CASE Exists(p)
    <3>1. ASSUME NEW v \in Worker, handle[v] = i PROVE art[v] = a
      <4>1. pc[v] = "write" /\ link[p] = handle[v]
        BY <1>4, <2>1, <3>1 DEF IInv, HandleInv
      <4>. QED BY <1>2, <4>1 DEF IInv, HandleInv
    <3>. QED BY <3>1
  <2>2. CASE ~ Exists(p)
    <3>1. i \notin Range(handle)
      BY <1>3, <2>2 DEF Unused
    <3>. HIDE DEF i
    <3>. QED BY <3>1 DEF Range, IInv, Types
  <2>. QED BY <2>1, <2>2
<1>. HIDE DEF i, p
<1>7. /\ link' \in [Path -> Inode \cup {NoInode}]
      /\ link'[p] = i /\ \A q \in Path : q # p => link'[q] = link[q]
      /\ content' \in [Inode -> Bytes \cup {Empty}]
      /\ \A j \in Inode : j # i => content'[j] = content[j]
      /\ handle' \in [Worker -> Inode \cup {NoInode}]
      /\ handle'[w] = i /\ \A v \in Worker : v # w => handle'[v] = handle[v]
      /\ pc' = [v \in Worker |-> pc'[v]]
      /\ pc'[w] = "write" /\ \A v \in Worker : v # w => pc'[v] = pc[v]
  BY <1>1, <1>2, <1>4 DEF IInv, Types
<1>8. Types'
  BY <1>1, <1>7 DEF IInv, Types
<1>9. \A q \in Path : q # p => /\ link'[q] = link[q] /\ link[q] # i
                               /\ link[q] # NoInode => content'[link[q]] = content[link[q]]
  BY <1>5, <1>7 DEF IInv, Types
<1>10. \A c \in Art : Jar(c) \in Path /\ Jar(c) # p
  BY <1>2, Names DEF p
<1>11. contended \subseteq contended'
  BY <1>1
<1>12. LinkInv'
  <2>1. \A q, r \in Path : q # r /\ link'[q] # NoInode => link'[q] # link'[r]
    BY <1>4, <1>7, <1>9 DEF IInv, LinkInv, Exists
  <2>2. \A c \in Art \ contended' : link'[Jar(c)] # NoInode => content'[link'[Jar(c)]] \in Bytes
    BY <1>9, <1>10, <1>11 DEF IInv, LinkInv, Exists
  <2>. QED BY <2>1, <2>2 DEF LinkInv, Exists
<1>13. HandleInv'
  <2>1. ASSUME NEW v \in Worker, pc'[v] = "write"
        PROVE  /\ handle'[v] \in Inode
               /\ \A q \in Path : link'[q] = handle'[v] => q[1] = art[v]
               /\ \A u \in Worker : handle'[u] = handle'[v] => art[u] = art[v]
    <3>1. CASE v = w
      BY <1>2, <1>4, <1>5, <1>6, <1>7, <3>1
    <3>2. CASE v # w
      <4>1. /\ handle'[v] = handle[v] /\ handle[v] \in Inode
            /\ \A q \in Path : link[q] = handle[v] => q[1] = art[v]
            /\ \A u \in Worker : handle[u] = handle[v] => art[u] = art[v]
        BY <1>7, <2>1, <3>2 DEF IInv, HandleInv
      <4>2. \A q \in Path : link'[q] = handle[v] => q[1] = art[v]
        BY <1>2, <1>6, <1>7, <4>1
      <4>3. \A u \in Worker : handle'[u] = handle[v] => art[u] = art[v]
        BY <1>6, <1>7, <4>1
      <4>. QED BY <4>1, <4>2, <4>3
    <3>. QED BY <3>1, <3>2
  <2>2. ASSUME NEW v \in Worker, pc'[v] # "write" PROVE handle'[v] = NoInode
    BY <1>7, <2>2 DEF IInv, HandleInv
  <2>. QED BY <1>1, <2>1, <2>2 DEF HandleInv
<1>14. WriterInv'
  <2>. SUFFICES ASSUME NEW v \in Worker, Writing(v)', art[v] \notin contended'
                PROVE  /\ \A u \in Worker : Writing(u)' /\ art[u] = art[v] => u = v
                       /\ pc'[v] = "write" =>
                            /\ link'[Jar(art[v])] # handle'[v]
                            /\ link'[Part(art[v])] # NoInode => link'[Part(art[v])] = handle'[v]
                       /\ pc'[v] = "replace" /\ link'[Part(art[v])] # NoInode
                            => content'[link'[Part(art[v])]] \in Bytes
    BY <1>1 DEF WriterInv, Alone, Exists
  <2>1. \A u \in Worker : u # w => (Writing(u)' <=> Writing(u))
    BY <1>7 DEF Writing
  <2>2. art[v] = a => \A u \in Worker : u # w /\ Writing(u) => art[u] # a
    <3>1. art[v] = a => Writers(a) = {}
      BY <1>1
    <3>. QED BY <3>1 DEF Writers, Writing
  <2>3. CASE v = w
    <3>1. Jar(a) \in Path /\ Jar(a) # p
      BY <1>2, <1>10
    <3>. QED BY <1>7, <1>9, <2>1, <2>2, <2>3, <3>1 DEF p
  <2>4. CASE v # w
    <3>1. art[v] # a /\ art[v] \notin contended /\ Writing(v)
      BY <1>11, <2>1, <2>2, <2>4
    <3>2. Alone(v)
      BY <3>1 DEF IInv, WriterInv
    <3>3. /\ Part(art[v]) \in Path /\ Part(art[v]) # p
          /\ Jar(art[v]) \in Path /\ Jar(art[v]) # p
      BY <1>2, <1>10, <3>1, Names DEF p, IInv, Types
    <3>. QED BY <1>7, <1>9, <2>1, <2>4, <3>1, <3>2, <3>3 DEF Alone, Exists
  <2>. QED BY <2>3, <2>4
<1>15. Store!Evict(contended' \cap Art)
  <2>1. \A c \in Art : View'[c] = View[c]
    BY <1>9, <1>10 DEF View, Exists
  <2>2. Shown' = [c \in Art |-> IF c \in contended' \cap Art THEN Absent ELSE Shown[c]]
    BY <1>11, <2>1 DEF Shown
  <2>. QED BY <2>2 DEF Store!Evict
<1>. QED BY <1>8, <1>12, <1>13, <1>14, <1>15 DEF IInv

\* The body goes to an inode under no artefact's name, or to that of a contended
\* one.
LEMMA WriteStep ==
  ASSUME IInv, NEW w \in Worker, NEW b \in Bytes, WriteBody(w, b)
  PROVE  IInv' /\ Shown' = Shown
<1>. DEFINE h == handle[w]
<1>1. /\ pc[w] = "write" /\ pc' = [pc EXCEPT ![w] = "replace"]
      /\ content' = [content EXCEPT ![h] = b]
      /\ handle' = [handle EXCEPT ![w] = NoInode]
      /\ UNCHANGED <<link, art, contended>>
  BY DEF WriteBody, GoTo, history
<1>2. /\ h \in Inode /\ h # NoInode
      /\ \A q \in Path : link[q] = h => q[1] = art[w]
  BY <1>1, Inodes DEF IInv, HandleInv
<1>. HIDE DEF h
<1>3. /\ content' \in [Inode -> Bytes \cup {Empty}]
      /\ content'[h] = b /\ \A j \in Inode : j # h => content'[j] = content[j]
      /\ handle' \in [Worker -> Inode \cup {NoInode}]
      /\ handle'[w] = NoInode /\ \A v \in Worker : v # w => handle'[v] = handle[v]
      /\ pc' = [v \in Worker |-> pc'[v]]
      /\ pc'[w] = "replace" /\ \A v \in Worker : v # w => pc'[v] = pc[v]
  BY <1>1, <1>2 DEF IInv, Types
<1>4. Types'
  BY <1>1, <1>3 DEF IInv, Types
<1>5. \A v \in Worker : Writing(v)' <=> Writing(v)
  BY <1>1, <1>3 DEF Writing
<1>6. \A a \in Art \ contended : /\ Jar(a) \in Path /\ link[Jar(a)] # h
                                 /\ link[Jar(a)] \in Inode \cup {NoInode}
  <2>1. ASSUME NEW a \in Art, link[Jar(a)] = h PROVE a \in contended
    <3>1. a = art[w]
      BY <1>2, <2>1, Names
    <3>2. Alone(w) => link[Jar(a)] # h
      BY <1>1, <3>1 DEF Alone, h
    <3>. QED BY <1>1, <2>1, <3>1, <3>2 DEF IInv, WriterInv, Writing
  <2>. QED BY <2>1, Names DEF IInv, Types
<1>7. LinkInv'
  <2>1. \A a \in Art \ contended : link[Jar(a)] # NoInode => content'[link[Jar(a)]] \in Bytes
    BY <1>3, <1>6 DEF IInv, LinkInv, Exists
  <2>. QED BY <1>1, <2>1 DEF IInv, LinkInv, Exists
<1>8. HandleInv'
  <2>1. ASSUME NEW v \in Worker, pc'[v] = "write"
        PROVE  /\ handle'[v] \in Inode
               /\ \A q \in Path : link[q] = handle'[v] => q[1] = art[v]
               /\ \A u \in Worker : handle'[u] = handle'[v] => art[u] = art[v]
    <3>1. /\ v # w /\ handle'[v] = handle[v] /\ handle[v] \in Inode
          /\ \A q \in Path : link[q] = handle[v] => q[1] = art[v]
          /\ \A u \in Worker : handle[u] = handle[v] => art[u] = art[v]
      BY <1>3, <2>1 DEF IInv, HandleInv
    <3>. QED BY <1>3, <3>1, Inodes
  <2>2. ASSUME NEW v \in Worker, pc'[v] # "write" PROVE handle'[v] = NoInode
    BY <1>3, <2>2 DEF IInv, HandleInv
  <2>. QED BY <1>1, <2>1, <2>2 DEF HandleInv
<1>9. WriterInv'
  <2>. SUFFICES ASSUME NEW v \in Worker, Writing(v)', art[v] \notin contended
                PROVE  /\ \A u \in Worker : Writing(u)' /\ art[u] = art[v] => u = v
                       /\ pc'[v] = "write" =>
                            /\ link[Jar(art[v])] # handle'[v]
                            /\ link[Part(art[v])] # NoInode => link[Part(art[v])] = handle'[v]
                       /\ pc'[v] = "replace" /\ link[Part(art[v])] # NoInode
                            => content'[link[Part(art[v])]] \in Bytes
    BY <1>1 DEF WriterInv, Alone, Exists
  <2>1. Writing(v) /\ Alone(v)
    BY <1>5 DEF IInv, WriterInv
  <2>2. Part(art[v]) \in Path
    BY Names DEF IInv, Types
  <2>3. CASE v = w
    <3>1. link[Part(art[w])] # NoInode => link[Part(art[w])] = h
      BY <1>1, <2>1, <2>3 DEF Alone, Exists, h
    <3>. QED BY <1>3, <1>5, <2>1, <2>3, <3>1 DEF Alone
  <2>4. CASE v # w
    <3>1. /\ pc'[v] = pc[v] /\ handle'[v] = handle[v]
          /\ link[Part(art[v])] \in Inode \cup {NoInode}
      BY <1>3, <2>2, <2>4 DEF IInv, Types
    <3>2. pc[v] = "replace" /\ link[Part(art[v])] # NoInode
            => content'[link[Part(art[v])]] \in Bytes
      BY <1>3, <2>1, <3>1 DEF Alone, Exists
    <3>. QED BY <1>5, <2>1, <3>1, <3>2 DEF Alone, Exists
  <2>. QED BY <2>3, <2>4
<1>10. Shown' = Shown
  <2>1. \A a \in Art \ contended : View'[a] = View[a]
    BY <1>1, <1>3, <1>6 DEF View, Exists
  <2>. QED BY <1>1, <2>1 DEF Shown
<1>. QED BY <1>4, <1>7, <1>8, <1>9, <1>10 DEF IInv

\* The rename publishes the whole body, unless the artefact is contended.
LEMMA RenameStep ==
  ASSUME IInv, NEW w \in Worker, Replace(w), Exists(Part(art[w]))
  PROVE  IInv' /\ (Shown' = Shown \/ \E b \in Bytes : Store!Put(art[w], b))
<1>. DEFINE a == art[w]
            p == Part(a)
            q == Jar(a)
            h == link[p]
<1>1. /\ pc[w] = "replace" /\ pc' = [pc EXCEPT ![w] = "walk"]
      /\ link' = [link EXCEPT ![q] = h, ![p] = NoInode]
      /\ UNCHANGED <<content, art, handle, contended>>
  BY DEF Replace, GoTo
<1>2. /\ a \in Art /\ p \in Path /\ q \in Path /\ p # q /\ q[1] = a /\ p[1] = a
      /\ h \in Inode /\ h # NoInode
  BY Names DEF IInv, Types, Exists
<1>3. a \notin contended => Alone(w) /\ content[h] \in Bytes
  BY <1>1 DEF IInv, WriterInv, Writing, Alone
<1>. HIDE DEF h, p, q
<1>4. /\ link'[q] = h /\ link'[p] = NoInode
      /\ \A r \in Path : r # p /\ r # q => link'[r] = link[r]
      /\ link' \in [Path -> Inode \cup {NoInode}]
      /\ pc' = [v \in Worker |-> pc'[v]]
      /\ pc'[w] = "walk" /\ \A v \in Worker : v # w => pc'[v] = pc[v]
  BY <1>1, <1>2 DEF IInv, Types
<1>5. Types'
  BY <1>1, <1>4 DEF IInv, Types
<1>6. \A r \in Path : r # p => link[r] # h
  BY <1>2 DEF IInv, LinkInv, Exists, h
<1>7. \A c \in Art : c # a => /\ Jar(c) \in Path /\ Jar(c) # p /\ Jar(c) # q
                              /\ Part(c) \in Path /\ Part(c) # p /\ Part(c) # q
  BY <1>2, Names DEF p, q
<1>8. LinkInv'
  <2>1. ASSUME NEW r \in Path, NEW s \in Path, r # s, link'[r] # NoInode, link'[r] = link'[s]
        PROVE  FALSE
    <3>1. r # p /\ s # p
      BY <1>4, <2>1
    <3>. QED BY <1>4, <1>6, <2>1, <3>1 DEF IInv, LinkInv, Exists
  <2>2. \A c \in Art \ contended : link'[Jar(c)] # NoInode => content[link'[Jar(c)]] \in Bytes
    <3>1. a \notin contended => content[link'[Jar(a)]] \in Bytes
      BY <1>3, <1>4 DEF q
    <3>. QED BY <1>4, <1>7, <3>1 DEF IInv, LinkInv, Exists
  <2>. QED BY <1>1, <2>1, <2>2 DEF LinkInv, Exists
<1>9. HandleInv'
  <2>1. ASSUME NEW v \in Worker, pc'[v] = "write"
        PROVE  /\ handle[v] \in Inode
               /\ \A r \in Path : link'[r] = handle[v] => r[1] = art[v]
               /\ \A u \in Worker : handle[u] = handle[v] => art[u] = art[v]
    <3>1. /\ v # w /\ pc[v] = "write"
      BY <1>4, <2>1
    <3>2. /\ handle[v] \in Inode /\ handle[v] # NoInode
          /\ \A r \in Path : link[r] = handle[v] => r[1] = art[v]
          /\ \A u \in Worker : handle[u] = handle[v] => art[u] = art[v]
      BY <3>1, Inodes DEF IInv, HandleInv
    <3>3. h = handle[v] => a = art[v]
      BY <1>2, <3>2 DEF h
    <3>. QED BY <1>2, <1>4, <3>2, <3>3
  <2>2. ASSUME NEW v \in Worker, pc'[v] # "write" PROVE handle[v] = NoInode
    BY <1>1, <1>4, <2>2 DEF IInv, HandleInv
  <2>3. handle' = handle /\ art' = art
    BY <1>1
  <2>. HIDE DEF a
  <2>. QED BY <2>1, <2>2, <2>3 DEF HandleInv
<1>10. WriterInv'
  <2>. SUFFICES ASSUME NEW v \in Worker, Writing(v)', art[v] \notin contended
                PROVE  /\ \A u \in Worker : Writing(u)' /\ art[u] = art[v] => u = v
                       /\ pc'[v] = "write" =>
                            /\ link'[Jar(art[v])] # handle[v]
                            /\ link'[Part(art[v])] # NoInode => link'[Part(art[v])] = handle[v]
                       /\ pc'[v] = "replace" /\ link'[Part(art[v])] # NoInode
                            => content[link'[Part(art[v])]] \in Bytes
    BY <1>1 DEF WriterInv, Alone, Exists
  <2>1. \A u \in Worker : Writing(u)' => u # w /\ Writing(u) /\ pc'[u] = pc[u]
    BY <1>4 DEF Writing
  <2>2. Alone(v)
    BY <2>1 DEF IInv, WriterInv
  <2>3. art[v] # a
    <3>1. Writing(w)
      BY <1>1 DEF Writing
    <3>. QED BY <1>3, <2>1, <3>1 DEF Alone
  <2>4. link'[Jar(art[v])] = link[Jar(art[v])] /\ link'[Part(art[v])] = link[Part(art[v])]
    <3>1. art[v] \in Art
      BY DEF IInv, Types
    <3>. QED BY <1>4, <1>7, <2>3, <3>1
  <2>. QED BY <2>1, <2>2, <2>4 DEF Alone, Exists
<1>11. Shown' = Shown \/ \E b \in Bytes : Store!Put(a, b)
  <2>1. \A c \in Art : c # a => View'[c] = View[c]
    BY <1>1, <1>4, <1>7 DEF View, Exists
  <2>2. View'[a] = content[h]
    BY <1>1, <1>2, <1>4 DEF View, Exists, q
  <2>3. CASE a \in contended
    <3>1. Shown' = Shown
      BY <1>1, <2>1, <2>3 DEF Shown
    <3>. QED BY <3>1
  <2>4. CASE a \notin contended
    <3>1. \A c \in Art : Shown'[c] = IF c = a THEN content[h] ELSE Shown[c]
      BY <1>1, <2>1, <2>2, <2>4 DEF Shown
    <3>. DEFINE new == Shown'
    <3>2. new = [c \in Art |-> new[c]] /\ Shown = [c \in Art |-> Shown[c]]
      BY DEF Shown
    <3>. HIDE DEF new
    <3>3. \A c \in Art : new[c] = IF c = a THEN content[h] ELSE Shown[c]
      BY <3>1 DEF new
    <3>4. new = [Shown EXCEPT ![a] = content[h]]
      BY <1>2, <3>2, <3>3
    <3>5. Store!Put(a, content[h])
      BY <3>4 DEF Store!Put, new
    <3>. QED BY <1>3, <2>4, <3>5
  <2>. QED BY <2>3, <2>4
<1>. QED BY <1>5, <1>8, <1>9, <1>10, <1>11 DEF IInv

\* Every step keeps the invariant and is a step of the atomic cache, or none.
LEMMA EveryStep ==
  ASSUME IInv, [Next]_vars
  PROVE  IInv' /\ [Store!Next]_Shown
<1>. DEFINE Good == IInv' /\ [Store!Next]_Shown
            Shrinks(w, to) == /\ pc' = [pc EXCEPT ![w] = to]
                              /\ to \notin {"write", "replace"}
                              /\ handle' \in [Worker -> Inode \cup {NoInode}]
                              /\ handle'[w] = NoInode
                              /\ art' \in [Worker -> Art]
                              /\ \A v \in Worker : v # w => /\ art'[v] = art[v]
                                                            /\ handle'[v] = handle[v]
<1>1. ASSUME NEW w \in Worker, NEW to, Shrinks(w, to),
             content' = content, contended' = contended,
             link' = link \/ \E p \in Path : link' = [link EXCEPT ![p] = NoInode]
      PROVE  Good
  <2>1. /\ link' \in [Path -> Inode \cup {NoInode}]
        /\ \A p \in Path : link'[p] \in {link[p], NoInode}
    BY <1>1 DEF IInv, Types
  <2>2. IInv' /\ \E S \in SUBSET Art : Store!Evict(S)
    BY <1>1, <2>1, ShrinkStep
  <2>. QED BY <2>2 DEF Store!Next
<1>2. ASSUME NEW w \in Worker, pc[w] # "write", handle' = handle
      PROVE  /\ handle' \in [Worker -> Inode \cup {NoInode}] /\ handle'[w] = NoInode
  BY <1>2 DEF IInv, Types, HandleInv
<1>3. ASSUME NEW w \in Worker, handle' = [handle EXCEPT ![w] = NoInode]
      PROVE  /\ handle' \in [Worker -> Inode \cup {NoInode}] /\ handle'[w] = NoInode
             /\ \A v \in Worker : v # w => handle'[v] = handle[v]
  BY <1>3 DEF IInv, Types
<1>4. pc = [v \in Worker |-> pc[v]] /\ art \in [Worker -> Art]
  BY DEF IInv, Types
<1>5. ASSUME NEW w \in Worker, NEW a \in Art, Call(w, a) PROVE Good
  <2>1. Shrinks(w, "lookup")
    BY <1>2, <1>4, <1>5 DEF Call, GoTo
  <2>. QED BY <1>1, <1>5, <2>1 DEF Call, tree, history
<1>6. ASSUME NEW w \in Worker, Lookup(w) PROVE Good
  <2>1. Shrinks(w, "stat") \/ Shrinks(w, "fetch")
    BY <1>2, <1>4, <1>6 DEF Lookup, GoTo
  <2>. QED BY <1>1, <1>6, <2>1 DEF Lookup, tree, history
<1>7. ASSUME NEW w \in Worker, Stat(w) PROVE Good
  <2>. DEFINE to == CASE ~ Exists(Jar(art[w])) -> "raised"
                      [] Jar(art[w]) \in expired -> "fetch"
                      [] OTHER -> "touch"
  <2>1. pc' = [pc EXCEPT ![w] = to]
    BY <1>7 DEF Stat, GoTo
  <2>2. to \notin {"write", "replace"}
    OBVIOUS
  <2>. HIDE DEF to
  <2>3. Shrinks(w, to)
    BY <1>2, <1>4, <1>7, <2>1, <2>2 DEF Stat
  <2>. QED BY <1>1, <1>7, <2>3 DEF Stat, tree, history
<1>8. ASSUME NEW w \in Worker, Touch(w) PROVE Good
  <2>1. Shrinks(w, "holding")
    BY <1>2, <1>4, <1>8 DEF Touch, GoTo
  <2>. QED BY <1>1, <1>8, <2>1 DEF Touch, history
<1>9. ASSUME NEW w \in Worker, FetchFails(w) \/ Release(w) PROVE Good
  <2>1. Shrinks(w, "idle")
    BY <1>2, <1>4, <1>9 DEF FetchFails, Release, GoTo
  <2>. QED BY <1>1, <1>9, <2>1 DEF FetchFails, Release, tree, history
<1>10. ASSUME NEW w \in Worker, Open(w) PROVE Good
  BY <1>10, OpenStep DEF Store!Next
<1>11. ASSUME NEW w \in Worker, NEW b \in Bytes, WriteBody(w, b) PROVE Good
  BY <1>11, WriteStep
<1>12. ASSUME NEW w \in Worker, WriteFails(w) PROVE Good
  <2>1. Shrinks(w, "idle")
    BY <1>3, <1>4, <1>12 DEF WriteFails, GoTo
  <2>. QED BY <1>1, <1>12, <2>1 DEF WriteFails, tree, history
<1>13. ASSUME NEW w \in Worker, Replace(w) PROVE Good
  <2>1. CASE Exists(Part(art[w]))
    <3>1. art[w] \in Art
      BY DEF IInv, Types
    <3>. QED BY <1>13, <2>1, <3>1, RenameStep DEF Store!Next
  <2>2. CASE ~ Exists(Part(art[w]))
    <3>1. Shrinks(w, "idle")
      BY <1>2, <1>4, <1>13, <2>2 DEF Replace, GoTo
    <3>. QED BY <1>1, <1>13, <2>2, <3>1 DEF Replace
  <2>. QED BY <2>1, <2>2
<1>14. ASSUME NEW w \in Worker, NEW p \in Path, Look(w, p) \/ UnlinkStale(w, p) PROVE Good
  <2>1. pc[w] = "walk" /\ pc' = pc /\ art' = art /\ handle' = handle
    BY <1>14 DEF Look, UnlinkStale
  <2>2. pc' = [pc EXCEPT ![w] = "walk"]
    BY <1>4, <2>1
  <2>3. Shrinks(w, "walk")
    BY <1>2, <1>4, <2>1, <2>2
  <2>. QED BY <1>1, <1>14, <2>3 DEF Look, UnlinkStale, IsUnlinked, IsRefused, tree, history
<1>15. ASSUME NEW w \in Worker, EndWalk(w) PROVE Good
  <2>1. pc[w] = "walk" /\ art' = art /\ handle' = handle
        /\ (pc' = [pc EXCEPT ![w] = "holding"] \/ pc' = [pc EXCEPT ![w] = "unlink"])
    BY <1>15 DEF EndWalk, GoTo
  <2>2. Shrinks(w, "holding") \/ Shrinks(w, "unlink")
    BY <1>2, <1>4, <2>1
  <2>. QED BY <1>1, <1>15, <2>2 DEF EndWalk, tree, history
<1>16. ASSUME NEW w \in Worker, NEW p \in Path, Unlink(w, p) PROVE Good
  <2>1. pc[w] = "unlink" /\ art' = art /\ handle' = handle
        /\ (pc' = [pc EXCEPT ![w] = "holding"] \/ pc' = [pc EXCEPT ![w] = "unlink"])
    BY <1>16 DEF Unlink, GoTo
  <2>2. Shrinks(w, "holding") \/ Shrinks(w, "unlink")
    BY <1>2, <1>4, <2>1
  <2>3. content' = content /\ contended' = contended
        /\ (link' = link \/ link' = [link EXCEPT ![p] = NoInode])
    BY <1>16 DEF Unlink, IsUnlinked, IsRefused, tree
  <2>. QED BY <1>1, <2>2, <2>3
<1>17. ASSUME NEW w \in Worker, Crash(w) PROVE Good
  <2>1. Shrinks(w, "crashed")
    BY <1>3, <1>4, <1>17 DEF Crash, GoTo
  <2>. QED BY <1>1, <1>17, <2>1 DEF Crash, tree, history
<1>18. CASE UNCHANGED vars
  <2>1. UNCHANGED <<link, content, pc, art, handle, contended>>
    BY <1>18 DEF vars, tree, history
  <2>2. Shown' = Shown
    BY <2>1 DEF Shown, View, Exists
  <2>3. Types' /\ LinkInv' /\ HandleInv' /\ WriterInv'
    BY <2>1 DEF IInv, Types, LinkInv, HandleInv, WriterInv, Alone, Writing, Exists
  <2>. QED BY <2>2, <2>3 DEF IInv
<1>19. CASE Finished
  BY <1>18, <1>19 DEF Finished
<1>. QED BY <1>5, <1>6, <1>7, <1>8, <1>9, <1>10, <1>11, <1>12, <1>13, <1>14, <1>15, <1>16,
            <1>17, <1>18, <1>19 DEF Next
-----------------------------------------------------------------------------
\* The cache's files implement the atomic cache, through crashes, write errors
\* and evictions (fetcher.py, _write_cache and _enforce_cache_cap); an artefact
\* that two workers wrote at once is left out.
THEOREM FilesAreAtomic == Spec => ImplementsAtomicCache
<1>1. Init => IInv /\ Store!Init
  BY Initially
<1>2. IInv /\ [Next]_vars => IInv' /\ [Store!Next]_Shown
  BY EveryStep
<1>. QED BY <1>1, <1>2, PTL DEF Spec, ImplementsAtomicCache, Store!Spec

\* The comment in _write_cache ("a partial write isn't visible"), as far as the
\* code goes: who finds a partial write finds it in an artefact that two workers
\* wrote at once.  Without the exception it is false, as the run "cache_partial"
\* shows.
THEOREM NoPartialWrite == Spec => [](\A a \in Art : View[a] = Empty => a \in contended)
<1>. DEFINE Whole == \A a \in Art : View[a] = Empty => a \in contended
<1>1. IInv => Whole
  <2>1. Empty \notin Bytes /\ Absent # Empty
    BY StoreAssumption
  <2>. QED BY <2>1 DEF IInv, LinkInv, View
<1>2. Init => IInv
  BY Initially
<1>3. IInv /\ [Next]_vars => IInv'
  BY EveryStep
<1>. QED BY <1>1, <1>2, <1>3, PTL DEF Spec
-----------------------------------------------------------------------------
(* The cap.  What is over it is always somebody's to evict. *)

\* The names of artefacts that no unlink failed on.
Kept == {p \in Path : p[2] = "jar" /\ Exists(p) /\ p \notin refused}

Shapes ==
  /\ link = [p \in Path |-> link[p]]
  /\ pc = [w \in Worker |-> pc[w]] /\ art \in [Worker -> Art]
  /\ due = [w \in Worker |-> due[w]] /\ stale = [w \in Worker |-> stale[w]]
  /\ listed \in [Worker -> SUBSET Path] /\ excess = [w \in Worker |-> excess[w]]

\* The walk of w has them all, or comes to them.
Walks(w) ==
  /\ pc[w] = "walk"
  /\ Kept \subseteq due[w] \cup stale[w] \cup listed[w]

\* The pass of w, when it ends, leaves no more than the cap.
Evicts(w) ==
  /\ pc[w] = "unlink" /\ excess[w] \in Nat \ {0}
  /\ Kept \subseteq listed[w]
  /\ Cardinality(listed[w]) <= CacheSize + excess[w]

\* Or nobody needs to evict: the names are within the cap, or a worker died.
Settled == (\E w \in Worker : pc[w] = "crashed") \/ Cardinality(Kept) <= CacheSize

CapInv == Shapes /\ (Settled \/ \E w \in Worker : Walks(w) \/ Evicts(w))

Same(v) == /\ pc'[v] = pc[v] /\ due'[v] = due[v] /\ stale'[v] = stale[v]
           /\ listed'[v] = listed[v] /\ excess'[v] = excess[v]

\* What a worker has in hand is not disturbed by what the others remove.
LEMMA OthersGoOn ==
  ASSUME CapInv, NEW w \in Worker, Kept' \subseteq Kept, pc[w] # "crashed",
         \A v \in Worker : v # w => Same(v),
         Walks(w) \/ Evicts(w) => Settled' \/ Walks(w)' \/ Evicts(w)'
  PROVE  Settled' \/ \E v \in Worker : Walks(v)' \/ Evicts(v)'
<1>1. CASE \E v \in Worker : pc[v] = "crashed"
  BY <1>1 DEF Settled, Same
<1>2. CASE Cardinality(Kept) <= CacheSize
  <2>1. /\ Cardinality(Kept') <= Cardinality(Kept)
        /\ Cardinality(Kept') \in Nat /\ Cardinality(Kept) \in Nat
    <3>1. IsFiniteSet(Kept)
      BY PathsAreFinite, Smaller DEF Kept
    <3>. QED BY <3>1, Smaller
  <2>2. Cardinality(Kept') <= CacheSize
    BY <1>2, <2>1, StoreAssumption
  <2>. QED BY <2>2 DEF Settled
<1>3. CASE \E v \in Worker : v # w /\ (Walks(v) \/ Evicts(v))
  <2>1. PICK v \in Worker : v # w /\ (Walks(v) \/ Evicts(v))
    BY <1>3
  <2>2. Walks(v)' \/ Evicts(v)'
    BY <2>1 DEF Same, Walks, Evicts
  <2>. QED BY <2>2
<1>. QED BY <1>1, <1>2, <1>3 DEF CapInv, Settled

\* A step that leaves the names and the passes alone.
LEMMA NoPassStep ==
  ASSUME CapInv, NEW w \in Worker, NEW l, pc[w] \notin {"walk", "unlink", "crashed"},
         pc' = [pc EXCEPT ![w] = l], art' \in [Worker -> Art],
         link' = [p \in Path |-> link'[p]],
         \A p \in Path : p[2] = "jar" => link'[p] = link[p],
         UNCHANGED <<due, stale, listed, excess, refused>>
  PROVE  CapInv'
<1>1. Shapes' /\ \A v \in Worker : v # w => Same(v)
  BY DEF CapInv, Shapes, Same
<1>2. Kept' \subseteq Kept
  BY DEF Kept, Exists
<1>3. ~ Walks(w) /\ ~ Evicts(w) /\ pc[w] # "crashed"
  BY DEF Walks, Evicts
<1>4. Settled' \/ \E v \in Worker : Walks(v)' \/ Evicts(v)'
  BY <1>1, <1>2, <1>3, OthersGoOn
<1>. QED BY <1>1, <1>4 DEF CapInv

\* Unlinking a name, or failing to, leaves one name less to count.
LEMMA UnlinkStep ==
  ASSUME Shapes, NEW p \in Path, IsUnlinked(p) \/ IsRefused(p)
  PROVE  /\ Kept' \subseteq Kept \ {p}
         /\ link' = [q \in Path |-> link'[q]]
         /\ UNCHANGED content
<1>1. CASE IsUnlinked(p)
  <2>1. /\ link' = [link EXCEPT ![p] = NoInode]
        /\ refused' = refused \ {p} /\ content' = content
    BY <1>1 DEF IsUnlinked
  <2>2. /\ link'[p] = NoInode /\ \A q \in Path : q # p => link'[q] = link[q]
        /\ link' = [q \in Path |-> link'[q]]
    BY <2>1 DEF Shapes
  <2>. QED BY <2>1, <2>2 DEF Kept, Exists
<1>2. CASE IsRefused(p)
  <2>1. link' = link /\ refused' = refused \cup {p} /\ content' = content
    BY <1>2 DEF IsRefused, tree
  <2>. QED BY <2>1 DEF Kept, Exists, Shapes
<1>. QED BY <1>1, <1>2

\* A walk that has come to a name has listed it, or is about to unlink it.
LEMMA LookKeeps ==
  ASSUME CapInv, NEW w \in Worker, NEW p \in Path, Look(w, p)
  PROVE  CapInv'
<1>1. /\ pc[w] = "walk" /\ stale[w] = {}
      /\ due' = [due EXCEPT ![w] = @ \ {p}]
      /\ stale' = [stale EXCEPT ![w] = {p} \cap expired]
      /\ listed' = [listed EXCEPT ![w] = @ \cup ({p} \cap (Files \ expired))]
      /\ UNCHANGED <<link, refused, pc, art, excess>>
  BY DEF Look, tree, history
<1>2. Shapes' /\ \A v \in Worker : v # w => Same(v)
  BY <1>1 DEF CapInv, Shapes, Same, Files
<1>3. Kept' = Kept
  BY <1>1 DEF Kept, Exists
<1>4. Walks(w) => Walks(w)'
  <2>1. /\ pc'[w] = "walk" /\ due'[w] = due[w] \ {p} /\ stale'[w] = {p} \cap expired
        /\ listed'[w] = listed[w] \cup ({p} \cap (Files \ expired))
    BY <1>1 DEF CapInv, Shapes
  <2>2. Kept \subseteq Files
    BY DEF Kept, Files
  <2>. QED BY <1>1, <1>3, <2>1, <2>2 DEF Walks
<1>5. ~ Evicts(w) /\ pc[w] # "crashed"
  BY <1>1 DEF Evicts
<1>6. Settled' \/ \E v \in Worker : Walks(v)' \/ Evicts(v)'
  BY <1>2, <1>3, <1>4, <1>5, OthersGoOn
<1>. QED BY <1>2, <1>6 DEF CapInv

\* A stale name goes, or is refused.
LEMMA StaleKeeps ==
  ASSUME CapInv, NEW w \in Worker, NEW p \in Path, UnlinkStale(w, p)
  PROVE  CapInv'
<1>1. /\ pc[w] = "walk" /\ stale' = [stale EXCEPT ![w] = @ \ {p}]
      /\ IsUnlinked(p) \/ IsRefused(p)
      /\ UNCHANGED <<pc, art, due, listed, excess>>
  BY DEF UnlinkStale
<1>2. Kept' \subseteq Kept \ {p} /\ link' = [q \in Path |-> link'[q]]
  BY <1>1, UnlinkStep DEF CapInv
<1>3. Shapes' /\ \A v \in Worker : v # w => Same(v)
  BY <1>1, <1>2 DEF CapInv, Shapes, Same
<1>4. Walks(w) => Walks(w)'
  <2>1. stale'[w] = stale[w] \ {p}
    BY <1>1 DEF CapInv, Shapes
  <2>. QED BY <1>1, <1>2, <2>1 DEF Walks
<1>5. ~ Evicts(w) /\ pc[w] # "crashed"
  BY <1>1 DEF Evicts
<1>6. Settled' \/ \E v \in Worker : Walks(v)' \/ Evicts(v)'
  BY <1>2, <1>3, <1>4, <1>5, OthersGoOn
<1>. QED BY <1>3, <1>6 DEF CapInv

\* A walk ends with all the names listed.
LEMMA EndKeeps ==
  ASSUME CapInv, NEW w \in Worker, EndWalk(w)
  PROVE  CapInv'
<1>. DEFINE L == listed[w]
<1>1. /\ pc[w] = "walk" /\ stale[w] = {} /\ due[w] = {}
      /\ UNCHANGED <<link, refused, art, due, stale>>
  BY DEF EndWalk, tree, history
<1>2. \/ /\ Cardinality(L) <= CacheSize
         /\ listed' = [listed EXCEPT ![w] = {}] /\ excess' = excess
         /\ pc' = [pc EXCEPT ![w] = "holding"]
      \/ /\ ~ (Cardinality(L) <= CacheSize)
         /\ excess' = [excess EXCEPT ![w] = Cardinality(L) - CacheSize]
         /\ listed' = listed
         /\ pc' = [pc EXCEPT ![w] = "unlink"]
  BY DEF EndWalk, GoTo
<1>3. /\ L \subseteq Path /\ IsFiniteSet(L) /\ Cardinality(L) \in Nat /\ CacheSize \in Nat
  <2>1. L \subseteq Path
    BY DEF CapInv, Shapes
  <2>. QED BY <2>1, PathsAreFinite, Smaller, StoreAssumption
<1>. HIDE DEF L
<1>4. Shapes' /\ \A v \in Worker : v # w => Same(v)
  BY <1>1, <1>2 DEF CapInv, Shapes, Same
<1>5. Kept' = Kept
  BY <1>1 DEF Kept, Exists
<1>6. Walks(w) => Settled' \/ Evicts(w)'
  <2>. SUFFICES ASSUME Walks(w) PROVE Settled' \/ Evicts(w)'
    OBVIOUS
  <2>1. Kept \subseteq L
    BY <1>1 DEF Walks, L
  <2>2. CASE Cardinality(L) <= CacheSize
    <3>1. Cardinality(Kept) <= Cardinality(L) /\ Cardinality(Kept) \in Nat
      BY <1>3, <2>1, Smaller
    <3>2. Cardinality(Kept) <= CacheSize
      BY <1>3, <2>2, <3>1
    <3>. QED BY <1>5, <3>2 DEF Settled
  <2>3. CASE ~ (Cardinality(L) <= CacheSize)
    <3>1. pc'[w] = "unlink" /\ listed'[w] = L /\ excess'[w] = Cardinality(L) - CacheSize
      BY <1>2, <2>3 DEF CapInv, Shapes, L
    <3>2. Cardinality(L) - CacheSize \in Nat \ {0}
          /\ Cardinality(L) <= CacheSize + (Cardinality(L) - CacheSize)
      BY <1>3, <2>3
    <3>. QED BY <1>5, <2>1, <3>1, <3>2 DEF Evicts
  <2>. QED BY <2>2, <2>3
<1>7. ~ Evicts(w) /\ pc[w] # "crashed"
  BY <1>1 DEF Evicts
<1>8. Settled' \/ \E v \in Worker : Walks(v)' \/ Evicts(v)'
  BY <1>4, <1>5, <1>6, <1>7, OthersGoOn
<1>. QED BY <1>4, <1>8 DEF CapInv

\* A pass goes on, or ends within the cap.
LEMMA UnlinkKeeps ==
  ASSUME CapInv, NEW w \in Worker, NEW p \in Path, Unlink(w, p)
  PROVE  CapInv'
<1>. DEFINE L == listed[w]
            e == excess[w]
            left == IF Exists(p) /\ link'[p] = NoInode THEN e - 1 ELSE e
            over == left = 0 \/ L = {p}
<1>1. /\ pc[w] = "unlink" /\ p \in L
      /\ IsUnlinked(p) \/ IsRefused(p)
      /\ listed' = [listed EXCEPT ![w] = IF over THEN {} ELSE L \ {p}]
      /\ excess' = [excess EXCEPT ![w] = IF over THEN 0 ELSE left]
      /\ pc' = [pc EXCEPT ![w] = IF over THEN "holding" ELSE "unlink"]
      /\ UNCHANGED <<art, due, stale>>
  BY DEF Unlink, GoTo
<1>2. Kept' \subseteq Kept \ {p} /\ link' = [q \in Path |-> link'[q]]
  BY <1>1, UnlinkStep DEF CapInv
<1>3. /\ L \subseteq Path /\ IsFiniteSet(L) /\ Cardinality(L) \in Nat /\ CacheSize \in Nat
      /\ IsFiniteSet(L \ {p}) /\ Cardinality(L \ {p}) = Cardinality(L) - 1
  <2>1. L \subseteq Path /\ p \in L
    BY <1>1 DEF CapInv, Shapes
  <2>2. IsFiniteSet(L) /\ Cardinality(L) \in Nat /\ CacheSize \in Nat
    BY <2>1, PathsAreFinite, Smaller, StoreAssumption
  <2>. QED BY <2>1, <2>2, FS_RemoveElement
<1>. HIDE DEF L, left, over
<1>4. Shapes' /\ \A v \in Worker : v # w => Same(v)
  BY <1>1, <1>2, <1>3 DEF CapInv, Shapes, Same
<1>5. Evicts(w) => Settled' \/ Evicts(w)'
  <2>. SUFFICES ASSUME Evicts(w) PROVE Settled' \/ Evicts(w)'
    OBVIOUS
  <2>1. /\ e \in Nat \ {0} /\ Kept' \subseteq L \ {p}
        /\ Cardinality(L) <= CacheSize + e
    BY <1>2 DEF Evicts, L
  <2>2. left \in Nat /\ Cardinality(L \ {p}) <= CacheSize + left
    BY <1>3, <2>1 DEF left
  <2>3. Cardinality(Kept') <= Cardinality(L \ {p}) /\ Cardinality(Kept') \in Nat
    BY <1>3, <2>1, Smaller
  <2>4. CASE left = 0
    <3>1. Cardinality(Kept') <= CacheSize
      BY <1>3, <2>2, <2>3, <2>4
    <3>. QED BY <3>1 DEF Settled
  <2>5. CASE L = {p}
    <3>1. Kept' = {}
      BY <2>1, <2>5
    <3>2. Cardinality(Kept') <= CacheSize
      BY <1>3, <3>1, FS_EmptySet
    <3>. QED BY <3>2 DEF Settled
  <2>6. CASE ~ over
    <3>1. listed'[w] = L \ {p} /\ excess'[w] = left /\ pc'[w] = "unlink"
      BY <1>1, <2>6 DEF CapInv, Shapes
    <3>2. left \in Nat \ {0}
      BY <2>2, <2>6 DEF over
    <3>. QED BY <2>1, <2>2, <3>1, <3>2 DEF Evicts
  <2>. QED BY <2>4, <2>5, <2>6 DEF over
<1>6. ~ Walks(w) /\ pc[w] # "crashed"
  BY <1>1 DEF Walks
<1>7. Settled' \/ \E v \in Worker : Walks(v)' \/ Evicts(v)'
  BY <1>2, <1>4, <1>5, <1>6, OthersGoOn
<1>. QED BY <1>4, <1>7 DEF CapInv

\* Who gives an artefact its name walks the tree next.
LEMMA ReplaceKeeps ==
  ASSUME CapInv, NEW w \in Worker, Replace(w)
  PROVE  CapInv'
<1>1. CASE Exists(Part(art[w]))
  <2>. DEFINE p == Part(art[w])
              q == Jar(art[w])
              D == (Files \cup {q}) \ {p}
  <2>1. /\ link' = [link EXCEPT ![q] = link[p], ![p] = NoInode]
        /\ pc' = [pc EXCEPT ![w] = "walk"]
        /\ due' = [due EXCEPT ![w] = D]
        /\ UNCHANGED <<art, stale, listed, excess>>
    BY <1>1 DEF Replace, GoTo
  <2>2. p[2] = "part"
    BY DEF Part
  <2>. HIDE DEF p, q
  <2>3. Shapes'
    BY <2>1 DEF CapInv, Shapes
  <2>4. \A r \in Path : r # q /\ r # p => link'[r] = link[r]
    BY <2>1 DEF CapInv, Shapes
  <2>5. Kept' \subseteq D
    BY <2>2, <2>4 DEF Kept, Files, Exists
  <2>6. pc'[w] = "walk" /\ due'[w] = D
    BY <2>1 DEF CapInv, Shapes
  <2>7. Walks(w)'
    BY <2>5, <2>6 DEF Walks
  <2>. QED BY <2>3, <2>7 DEF CapInv
<1>2. CASE ~ Exists(Part(art[w]))
  <2>1. /\ pc[w] = "replace" /\ pc' = [pc EXCEPT ![w] = "idle"]
        /\ UNCHANGED <<link, refused, art, due, stale, listed, excess>>
    BY <1>2 DEF Replace, GoTo
  <2>2. link' = [p \in Path |-> link'[p]] /\ art' \in [Worker -> Art]
    BY <2>1 DEF CapInv, Shapes
  <2>. QED BY <2>1, <2>2, NoPassStep
<1>. QED BY <1>1, <1>2

LEMMA CrashKeeps ==
  ASSUME CapInv, NEW w \in Worker, Crash(w)
  PROVE  CapInv'
<1>1. /\ pc' = [pc EXCEPT ![w] = "crashed"]
      /\ due' = [due EXCEPT ![w] = {}] /\ stale' = [stale EXCEPT ![w] = {}]
      /\ listed' = [listed EXCEPT ![w] = {}] /\ excess' = [excess EXCEPT ![w] = 0]
      /\ UNCHANGED <<link, art>>
  BY DEF Crash, GoTo, tree
<1>2. Shapes' /\ pc'[w] = "crashed"
  BY <1>1 DEF CapInv, Shapes
<1>. QED BY <1>2 DEF CapInv, Settled

\* Earlier runs left no more than the cap.
LEMMA CapInitially == Init => CapInv
<1>. SUFFICES ASSUME Init PROVE CapInv
  OBVIOUS
<1>1. Shapes
  BY DEF Init, Inits, Shapes
<1>2. PICK S \in SUBSET {Jar(a) : a \in Art} : Cardinality(S) <= CacheSize /\ Inits(S)
  BY DEF Init
<1>3. S \subseteq Path
  BY <1>2, Names
<1>4. \A p \in Path : p \notin S => link[p] = NoInode
  BY <1>2 DEF Inits
<1>5. Kept \subseteq S
  BY <1>4 DEF Kept, Exists
<1>6. Cardinality(Kept) <= Cardinality(S) /\ Cardinality(Kept) \in Nat /\ Cardinality(S) \in Nat
  BY <1>3, <1>5, PathsAreFinite, Smaller
<1>7. Cardinality(Kept) <= CacheSize
  BY <1>2, <1>6, StoreAssumption
<1>. QED BY <1>1, <1>7 DEF CapInv, Settled

\* Every step keeps it.
LEMMA CapKept == CapInv /\ [Next]_vars => CapInv'
<1>. SUFFICES ASSUME CapInv, [Next]_vars PROVE CapInv'
  OBVIOUS
<1>0. art \in [Worker -> Art] /\ link = [p \in Path |-> link[p]]
  BY DEF CapInv, Shapes
<1>1. ASSUME NEW w \in Worker, NEW l, pc' = [pc EXCEPT ![w] = l],
             pc[w] \notin {"walk", "unlink", "crashed"},
             art' \in [Worker -> Art], link' = link,
             UNCHANGED <<due, stale, listed, excess, refused>>
      PROVE  CapInv'
  BY <1>0, <1>1, NoPassStep
<1>2. ASSUME NEW w \in Worker,
             \/ \E a \in Art : Call(w, a)
             \/ Lookup(w) \/ Stat(w) \/ Touch(w) \/ FetchFails(w)
             \/ \E b \in Bytes : WriteBody(w, b)
             \/ WriteFails(w) \/ Release(w)
      PROVE  CapInv'
  <2>1. /\ pc[w] \notin {"walk", "unlink", "crashed"} /\ link' = link
        /\ UNCHANGED <<due, stale, listed, excess, refused>>
    BY <1>2 DEF Call, Lookup, Stat, Touch, FetchFails, WriteBody, WriteFails, Release, tree,
                pass, history
  <2>2. \E l : pc' = [pc EXCEPT ![w] = l]
    <3>1. CASE Stat(w)
      BY <3>1 DEF Stat, GoTo
    <3>2. CASE Lookup(w)
      BY <3>2 DEF Lookup, GoTo
    <3>3. CASE ~ Stat(w) /\ ~ Lookup(w)
      BY <1>2, <3>3 DEF Call, Touch, FetchFails, WriteBody, WriteFails, Release, GoTo
    <3>. QED BY <3>1, <3>2, <3>3
  <2>3. art' \in [Worker -> Art]
    BY <1>0, <1>2 DEF Call, Lookup, Stat, Touch, FetchFails, WriteBody, WriteFails, Release
  <2>. QED BY <1>1, <2>1, <2>2, <2>3
<1>3. ASSUME NEW w \in Worker, Open(w) PROVE CapInv'
  <2>. DEFINE p == Part(art[w])
  <2>1. PICK i : link' = [link EXCEPT ![p] = i]
    BY <1>3 DEF Open, OpenFile
  <2>2. p[2] = "part"
    BY DEF Part
  <2>3. /\ pc[w] = "fetch" /\ pc' = [pc EXCEPT ![w] = "write"] /\ art' = art
        /\ UNCHANGED <<due, stale, listed, excess, refused>>
    BY <1>3 DEF Open, OpenFile, GoTo, pass
  <2>. HIDE DEF p
  <2>4. link' = [q \in Path |-> link'[q]] /\ \A q \in Path : q[2] = "jar" => link'[q] = link[q]
    BY <1>0, <2>1, <2>2
  <2>. QED BY <1>0, <2>3, <2>4, NoPassStep
<1>4. CASE UNCHANGED vars
  <2>1. UNCHANGED <<link, pc, art, due, stale, listed, excess, refused>>
    BY <1>4 DEF vars, tree, pass, history
  <2>2. Shapes' /\ Kept' = Kept
    BY <2>1 DEF CapInv, Shapes, Kept, Exists
  <2>. QED BY <2>1, <2>2 DEF CapInv, Settled, Walks, Evicts
<1>5. CASE Finished
  BY <1>4, <1>5 DEF Finished
<1>6. ASSUME NEW w \in Worker, NEW p \in Path, Look(w, p) \/ UnlinkStale(w, p) \/ Unlink(w, p)
      PROVE  CapInv'
  BY <1>6, LookKeeps, StaleKeeps, UnlinkKeeps
<1>7. ASSUME NEW w \in Worker, EndWalk(w) \/ Replace(w) \/ Crash(w) PROVE CapInv'
  BY <1>7, EndKeeps, ReplaceKeeps, CrashKeeps
<1>. QED BY <1>2, <1>3, <1>4, <1>5, <1>6, <1>7 DEF Next

\* Once no worker is between its write and the end of its pass, and none died
\* there, the artefacts that no unlink failed on are within the cap, whatever the
\* workers fetch and however their walks and passes overlap (fetcher.py,
\* _enforce_cache_cap).
THEOREM CacheStaysUnderCap == Spec => []CapAtRest
<1>1. CapInv => CapAtRest
  <2>. DEFINE S == {a \in Art : Exists(Jar(a)) /\ Jar(a) \notin refused}
              f == [a \in S |-> Jar(a)]
  <2>. SUFFICES ASSUME CapInv,
                       \A w \in Worker : pc[w] \notin {"write", "replace", "walk", "unlink", "crashed"}
                PROVE  Cardinality(S) <= CacheSize
    BY DEF CapAtRest
  <2>1. Cardinality(Kept) <= CacheSize
    BY DEF CapInv, Settled, Walks, Evicts
  <2>2. \A a \in S : Jar(a) \in Kept
    BY Names DEF Kept, Jar
  <2>3. \A a, b \in S : Jar(a) = Jar(b) => a = b
    BY Names
  <2>4. f \in Injection(S, Kept)
    BY <2>2, <2>3 DEF Injection, IsInjective
  <2>5. IsFiniteSet(Kept) /\ Cardinality(Kept) \in Nat
    BY PathsAreFinite, Smaller DEF Kept
  <2>. HIDE DEF S, f
  <2>6. IsFiniteSet(S) /\ Cardinality(S) <= Cardinality(Kept)
    BY <2>4, <2>5, FS_Injection
  <2>7. Cardinality(S) \in Nat
    BY <2>6, FS_CardinalityType
  <2>. QED BY <2>1, <2>5, <2>6, <2>7, StoreAssumption
<1>. QED BY <1>1, CapInitially, CapKept, PTL DEF Spec
=============================================================================
