----------------------------- MODULE CacheStore -----------------------------
(***************************************************************************)
(* The file operations of the quarantined cache (indexing/fetcher.py):     *)
(* _write_cache writes to <name>.part and renames it over <name>;          *)
(* _enforce_cache_cap walks the tree, unlinks what is past the TTL, and    *)
(* then unlinks files until the total is under the cap.  Nothing locks the *)
(* tree.  The workers are the threads of one run and the other scarno      *)
(* processes of the same user, which share ~/.cache/scarno.                *)
(*                                                                         *)
(* Names and inodes are kept apart, as an open file follows its inode when *)
(* the name is renamed or removed.  All files count as size 1.  Which file *)
(* an eviction takes first is left open: the code goes by access time,     *)
(* which a noatime mount does not keep.                                    *)
(***************************************************************************)
EXTENDS Naturals, FiniteSets, SequencesExt

CONSTANTS
  Worker,
  Art,
  Bytes,      \* what the body of an artefact may be
  CacheSize,  \* total_size_bytes, in files
  Calls,      \* bound on the calls each worker makes
  Absent,     \* no such file
  Empty       \* a file that was opened for writing and not written yet

ASSUME StoreAssumption ==
  /\ IsFiniteSet(Worker) /\ IsFiniteSet(Art)
  /\ CacheSize \in Nat \ {0} /\ Calls \in Nat
  /\ Absent \notin Bytes /\ Empty \notin Bytes /\ Absent # Empty

Jar(a) == <<a, "jar">>
Part(a) == <<a, "part">>
Path == Art \X {"jar", "part"}

\* As many as can be linked or open at once.
Inode == 1..(2 * Cardinality(Art) + Cardinality(Worker))
NoInode == 0

VARIABLES
  link,      \* the inode of each name, or NoInode
  content,   \* the bytes of each inode
  expired,   \* names that are past the TTL
  pc, art, calls,
  handle,    \* per worker: the inode it has open for writing, or NoInode
  due,       \* per worker: the names its walk must still come to
  stale,     \* per worker: the name it found past the TTL and unlinks next
  listed,    \* per worker: the files its walk has listed and not yet evicted
  excess,    \* per worker: how far its running total is over the cap
  refused,   \* history: the names whose last unlink failed
  contended  \* history: the artefacts that two workers wrote at once

tree == <<link, content, expired>>
pass == <<due, stale, listed, excess>>
history == <<refused, contended>>
vars == <<tree, pc, art, calls, handle, pass, history>>

Exists(p) == link[p] # NoInode
Files == {p \in Path : Exists(p)}
Unused == Inode \ (Range(link) \cup Range(handle))

GoTo(w, l) == pc' = [pc EXCEPT ![w] = l]
----------------------------------------------------------------------------
Inits(S) ==
  LET order == SetToSeq(S)
  IN  link = [p \in Path |-> IF p \in S THEN CHOOSE i \in DOMAIN order : order[i] = p
                             ELSE NoInode]

\* Earlier runs left whole files, no more than the cap.
Init ==
  /\ \E S \in SUBSET {Jar(a) : a \in Art} :
       /\ Cardinality(S) <= CacheSize
       /\ Inits(S)
       /\ expired \in SUBSET S
  /\ \E b \in Bytes : content = [i \in Inode |-> b]
  /\ pc = [w \in Worker |-> "idle"]
  /\ \E a \in Art : art = [w \in Worker |-> a]
  /\ calls = [w \in Worker |-> 0]
  /\ handle = [w \in Worker |-> NoInode]
  /\ due = [w \in Worker |-> {}]
  /\ stale = [w \in Worker |-> {}]
  /\ listed = [w \in Worker |-> {}]
  /\ excess = [w \in Worker |-> 0]
  /\ refused = {}
  /\ contended = {}

Call(w, a) ==
  /\ pc[w] = "idle"
  /\ calls[w] < Calls
  /\ art' = [art EXCEPT ![w] = a]
  /\ calls' = [calls EXCEPT ![w] = @ + 1]
  /\ GoTo(w, "lookup")
  /\ UNCHANGED <<tree, handle, pass, history>>

\* exists(), then stat() for the age, then os.utime.  Only the last is guarded:
\* a file that vanishes in between makes stat() raise out of fetch.
Lookup(w) ==
  /\ pc[w] = "lookup"
  /\ GoTo(w, IF Exists(Jar(art[w])) THEN "stat" ELSE "fetch")
  /\ UNCHANGED <<tree, art, calls, handle, pass, history>>

Stat(w) ==
  /\ pc[w] = "stat"
  /\ GoTo(w, CASE ~ Exists(Jar(art[w])) -> "raised"
               [] Jar(art[w]) \in expired -> "fetch"
               [] OTHER -> "touch")
  /\ UNCHANGED <<tree, art, calls, handle, pass, history>>

Touch(w) ==
  /\ pc[w] = "touch"
  /\ expired' = expired \ {Jar(art[w])}
  /\ GoTo(w, "holding")
  /\ UNCHANGED <<link, content, art, calls, handle, pass, history>>

\* The network part of the fetch fails; module Fetcher has it.
FetchFails(w) ==
  /\ pc[w] = "fetch"
  /\ GoTo(w, "idle")
  /\ UNCHANGED <<tree, art, calls, handle, pass, history>>

Writers(a) == {w \in Worker : art[w] = a /\ pc[w] \in {"write", "replace"}}

OpenFile(w, p) ==
  LET i == IF Exists(p) THEN link[p] ELSE CHOOSE j \in Unused : TRUE IN
  /\ link' = [link EXCEPT ![p] = i]
  /\ content' = [content EXCEPT ![i] = Empty]
  /\ handle' = [handle EXCEPT ![w] = i]
  /\ expired' = expired \ {p}

\* Mutant of Open: the artefact is written in place.
OpenInPlace(w) ==
  /\ pc[w] = "fetch"
  /\ OpenFile(w, Jar(art[w]))
  /\ contended' = contended \cup (IF Writers(art[w]) = {} THEN {} ELSE {art[w]})
  /\ GoTo(w, "write")
  /\ UNCHANGED <<art, calls, pass, refused>>

\* open(tmp, "wb") creates the file or empties the one that is there.
Open(w) ==
  /\ pc[w] = "fetch"
  /\ OpenFile(w, Part(art[w]))
  /\ contended' = contended \cup (IF Writers(art[w]) = {} THEN {} ELSE {art[w]})
  /\ GoTo(w, "write")
  /\ UNCHANGED <<art, calls, pass, refused>>

\* The body is written and the file closed.
WriteBody(w, b) ==
  /\ pc[w] = "write"
  /\ content' = [content EXCEPT ![handle[w]] = b]
  /\ handle' = [handle EXCEPT ![w] = NoInode]
  /\ GoTo(w, "replace")
  /\ UNCHANGED <<link, expired, art, calls, pass, history>>

\* fh.write (a full disk) or os.replace raises: the fetch returns None, and the
\* .part file stays.
WriteFails(w) ==
  /\ pc[w] \in {"write", "replace"}
  /\ handle' = [handle EXCEPT ![w] = NoInode]
  /\ GoTo(w, "idle")
  /\ UNCHANGED <<tree, art, calls, pass, history>>

\* os.replace raises when the .part file has gone: the fetch returns None.
\* Otherwise rglob sets out.  A name that is there from now on is looked at;
\* one that comes or goes meanwhile may be.
Replace(w) ==
  /\ pc[w] = "replace"
  /\ IF Exists(Part(art[w]))
     THEN /\ link' = [link EXCEPT ![Jar(art[w])] = link[Part(art[w])],
                                  ![Part(art[w])] = NoInode]
          /\ expired' = expired \ {Jar(art[w]), Part(art[w])}
          /\ refused' = refused \ {Jar(art[w]), Part(art[w])}
          /\ due' = [due EXCEPT ![w] = (Files \cup {Jar(art[w])}) \ {Part(art[w])}]
          /\ GoTo(w, "walk")
     ELSE UNCHANGED <<link, expired, refused, due>> /\ GoTo(w, "idle")
  /\ UNCHANGED <<content, art, calls, handle, stale, listed, excess, contended>>

\* is_file() and stat() of one name.
Look(w, p) ==
  /\ pc[w] = "walk"
  /\ stale[w] = {}
  /\ p \in (due[w] \cup Files) \ listed[w]
  /\ due' = [due EXCEPT ![w] = @ \ {p}]
  /\ stale' = [stale EXCEPT ![w] = {p} \cap expired]
  /\ listed' = [listed EXCEPT ![w] = @ \cup ({p} \cap (Files \ expired))]
  /\ UNCHANGED <<tree, pc, art, calls, handle, excess, history>>

\* unlink goes by name, whatever file is under it by now.
IsUnlinked(p) ==
  /\ link' = [link EXCEPT ![p] = NoInode]
  /\ expired' = expired \ {p}
  /\ refused' = refused \ {p}
  /\ UNCHANGED <<content, contended>>

\* ... and may fail (a read-only directory, a file that Windows has open).
IsRefused(p) ==
  /\ Exists(p)
  /\ refused' = refused \cup {p}
  /\ UNCHANGED <<tree, contended>>

UnlinkStale(w, p) ==
  /\ pc[w] = "walk"
  /\ p \in stale[w]
  /\ IsUnlinked(p) \/ IsRefused(p)
  /\ stale' = [stale EXCEPT ![w] = @ \ {p}]
  /\ UNCHANGED <<pc, art, calls, handle, due, listed, excess>>

\* Mutant of EndWalk: one file too many is left.
EndWalkLate(w) ==
  /\ pc[w] = "walk"
  /\ stale[w] = {} /\ due[w] = {}
  /\ IF Cardinality(listed[w]) <= CacheSize + 1
     THEN /\ listed' = [listed EXCEPT ![w] = {}]
          /\ GoTo(w, "holding")
          /\ UNCHANGED excess
     ELSE /\ excess' = [excess EXCEPT ![w] = Cardinality(listed[w]) - CacheSize - 1]
          /\ GoTo(w, "unlink")
          /\ UNCHANGED listed
  /\ UNCHANGED <<tree, art, calls, handle, due, stale, history>>

\* if total <= policy.total_size_bytes: return
EndWalk(w) ==
  /\ pc[w] = "walk"
  /\ stale[w] = {} /\ due[w] = {}
  /\ IF Cardinality(listed[w]) <= CacheSize
     THEN /\ listed' = [listed EXCEPT ![w] = {}]
          /\ GoTo(w, "holding")
          /\ UNCHANGED excess
     ELSE /\ excess' = [excess EXCEPT ![w] = Cardinality(listed[w]) - CacheSize]
          /\ GoTo(w, "unlink")
          /\ UNCHANGED listed
  /\ UNCHANGED <<tree, art, calls, handle, due, stale, history>>

\* A name that is gone, or that is refused, leaves the total as it is, and the
\* loop goes on to the next.
Unlink(w, p) ==
  /\ pc[w] = "unlink"
  /\ p \in listed[w]
  /\ \/ IsUnlinked(p)
     \/ IsRefused(p)
  /\ LET left == IF Exists(p) /\ link'[p] = NoInode THEN excess[w] - 1 ELSE excess[w]
         over == left = 0 \/ listed[w] = {p} IN
     /\ listed' = [listed EXCEPT ![w] = IF over THEN {} ELSE @ \ {p}]
     /\ excess' = [excess EXCEPT ![w] = IF over THEN 0 ELSE left]
     /\ GoTo(w, IF over THEN "holding" ELSE "unlink")
  /\ UNCHANGED <<art, calls, handle, due, stale>>

\* The caller has read the file.
Release(w) ==
  /\ pc[w] = "holding"
  /\ GoTo(w, "idle")
  /\ UNCHANGED <<tree, art, calls, handle, pass, history>>

\* The process dies while it writes or evicts; the .part file stays.
Crash(w) ==
  /\ pc[w] \in {"write", "replace", "walk", "unlink"}
  /\ handle' = [handle EXCEPT ![w] = NoInode]
  /\ due' = [due EXCEPT ![w] = {}]
  /\ stale' = [stale EXCEPT ![w] = {}]
  /\ listed' = [listed EXCEPT ![w] = {}]
  /\ excess' = [excess EXCEPT ![w] = 0]
  /\ GoTo(w, "crashed")
  /\ UNCHANGED <<tree, art, calls, history>>

Finished ==
  /\ \A w \in Worker : pc[w] \in {"crashed", "raised"} \/ (pc[w] = "idle" /\ calls[w] = Calls)
  /\ UNCHANGED vars

Next ==
  \/ \E w \in Worker :
       \/ \E a \in Art : Call(w, a)
       \/ Lookup(w) \/ Stat(w) \/ Touch(w) \/ FetchFails(w) \/ Open(w)
       \/ \E b \in Bytes : WriteBody(w, b)
       \/ WriteFails(w) \/ Replace(w)
       \/ \E p \in Path : Look(w, p) \/ UnlinkStale(w, p) \/ Unlink(w, p)
       \/ EndWalk(w) \/ Release(w) \/ Crash(w)
  \/ Finished

Spec == Init /\ [][Next]_vars
----------------------------------------------------------------------------
TypeOK ==
  /\ link \in [Path -> Inode \cup {NoInode}]
  /\ content \in [Inode -> Bytes \cup {Empty}]
  /\ expired \subseteq Files
  /\ pc \in [Worker -> {"idle", "lookup", "stat", "touch", "fetch", "write", "replace",
                        "walk", "unlink", "holding", "raised", "crashed"}]
  /\ art \in [Worker -> Art]
  /\ calls \in [Worker -> 0..Calls]
  /\ handle \in [Worker -> Inode \cup {NoInode}]
  /\ due \in [Worker -> SUBSET Path]
  /\ stale \in [Worker -> SUBSET Path]
  /\ listed \in [Worker -> SUBSET Path]
  /\ excess \in [Worker -> Nat]
  /\ refused \subseteq Files
  /\ contended \subseteq Art

\* What a reader of each artefact finds.
View == [a \in Art |-> IF Exists(Jar(a)) THEN content[link[Jar(a)]] ELSE Absent]

Shown == [a \in Art |-> IF a \in contended THEN Absent ELSE View[a]]

Store == INSTANCE AtomicCache WITH cache <- Shown

\* The files implement the atomic cache through crashes, failed writes, and
\* evictions at any point.  An artefact that two workers wrote at once, which
\* share one .part name, is left out from then on (see PartialWriteNotVisible):
\* the others keep the promise whatever happens to it.
ImplementsAtomicCache == Store!Spec

\* The comment in _write_cache: "tmp + atomic rename so a partial write isn't
\* visible".
PartialWriteNotVisible == \A a \in Art : View[a] # Empty

\* SEC-NEW-66 under concurrent eviction: when no worker is between its write
\* and the end of its pass, and none died there, the artefacts are within the
\* cap, apart from those that could not be unlinked.  (A .part file that a
\* failed write left behind comes on top, until the next pass counts it.)
CapAtRest ==
  (\A w \in Worker : pc[w] \notin {"write", "replace", "walk", "unlink", "crashed"})
    => Cardinality({a \in Art : Exists(Jar(a)) /\ Jar(a) \notin refused}) <= CacheSize
=============================================================================
