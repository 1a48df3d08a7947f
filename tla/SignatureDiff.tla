--------------------------- MODULE SignatureDiff ---------------------------
(***************************************************************************)
(* signature_diff of analysers/java/abi_diff.py: what was added, removed   *)
(* and changed between the signatures of a declared and of a resolved JAR. *)
(* Signatures are matched by member (class, kind and name), then by        *)
(* descriptor; shape is the rest of the record: modifiers and return type. *)
(***************************************************************************)
CONSTANTS Member, Descriptor, Shape

Sig == [member: Member, descriptor: Descriptor, shape: Shape]

\* The two levels of _group_by_identity.
Descriptors(S, m) == {s.descriptor : s \in {t \in S : t.member = m}}
Shapes(S, m, d) ==
  {s.shape : s \in {t \in S : t.member = m /\ t.descriptor = d}}

\* Mutant of Present: matched by member alone, so a sibling overload hides it.
PresentByName(s, S) == Descriptors(S, s.member) # {}

Present(s, S) == s.descriptor \in Descriptors(S, s.member)

\* FR-233: overloaded on neither side, and the one descriptor differs.
Retyped(D, R, m) ==
  \E d, e \in Descriptor : /\ d # e
                           /\ Descriptors(D, m) = {d}
                           /\ Descriptors(R, m) = {e}

Removed(D, R) == {s \in D : ~ Present(s, R) /\ ~ Retyped(D, R, s.member)}

\* Mutant of Added: a retyped member counts as added too.
AddedRetyped(D, R) == {s \in R : ~ Present(s, D)}

Added(D, R) == {s \in R : ~ Present(s, D) /\ ~ Retyped(D, R, s.member)}

\* Mutant of Changed: modifiers and return types are not compared.
ChangedDescriptors(D, R) == {s \in R : Retyped(D, R, s.member)}

Changed(D, R) ==
  {s \in R : \/ Retyped(D, R, s.member)
             \/ /\ Present(s, D)
                /\ Shapes(D, s.member, s.descriptor) # Shapes(R, s.member, s.descriptor)}

VARIABLES
  declared, resolved,  \* the two sets of signatures
  done,                \* the comparison has returned
  result               \* the AbiDiffResult

diffVars == <<declared, resolved, done, result>>

NoDifference == [added |-> {}, removed |-> {}, changed |-> {}]

DiffInit ==
  /\ declared \in SUBSET Sig
  /\ resolved \in SUBSET Sig
  /\ done = FALSE
  /\ result = NoDifference

Diff ==
  /\ ~ done
  /\ done' = TRUE
  /\ result' = [added   |-> Added(declared, resolved),
                removed |-> Removed(declared, resolved),
                changed |-> Changed(declared, resolved)]
  /\ UNCHANGED <<declared, resolved>>

DiffReturned == done /\ UNCHANGED diffVars

DiffNext == Diff \/ DiffReturned
DiffSpec == DiffInit /\ [][DiffNext]_diffVars
----------------------------------------------------------------------------
\* What linking against a JAR asks: is there a member with this descriptor?
Links(s, S) == \E t \in S : t.member = s.member /\ t.descriptor = s.descriptor

\* FR-272 and FR-273: a descriptor that the resolved JAR no longer has is
\* reported, as REMOVED or, for the one retyped overload, as a CHANGED
\* signature of the same member; a surviving sibling overload hides nothing.
NoLostRemoval ==
  done =>
    \A s \in declared :
      ~ Links(s, resolved) =>
        \/ s \in result.removed
        \/ \E c \in result.changed : /\ c.member = s.member
                                     /\ c.descriptor # s.descriptor

\* What is called REMOVED or ADDED really is missing from the other JAR, and
\* no descriptor of a member is reported in two ways.
NoFalseReport ==
  /\ \A s \in result.removed : s \in declared /\ ~ Links(s, resolved)
  /\ \A s \in result.added : s \in resolved /\ ~ Links(s, declared)
  /\ \A s \in result.removed, c \in result.changed \cup result.added :
       ~ (s.member = c.member /\ s.descriptor = c.descriptor)
  /\ \A s \in result.added, c \in result.changed :
       ~ (s.member = c.member /\ s.descriptor = c.descriptor)

\* Two different surfaces never compare as equal: return types and modifiers
\* count, also where a parse collision left two shapes for one descriptor.
NoSilentDifference == done => (result = NoDifference <=> declared = resolved)
=============================================================================
