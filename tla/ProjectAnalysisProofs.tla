----------------------- MODULE ProjectAnalysisProofs -----------------------
(***************************************************************************)
(* What the analysis promises for every project.  First the verdicts on a  *)
(* given scenario (Spec): every set of files, list of dependencies, graph, *)
(* table and mode.  Then the analysis that makes the scenario of the       *)
(* dependency files (ASpec): what each parser gives, what the merges keep, *)
(* the invariant AInv of the collection, and what follows from it.         *)
(***************************************************************************)
EXTENDS AnalysisInvariant, FiniteSetTheorems, SequenceTheorems, WellFoundedInduction, TLAPS

\* Every reading step adds the evidence of one file where that file counts.
LEMMA ReadAdds ==
  ASSUME Types, ScanStep
  PROVE  /\ pc = "scan" /\ k \in DOMAIN in.files
         /\ k' = k + 1
         /\ UNCHANGED <<in, pc, status, promoted, matched, undeclared>>
         /\ facts'.static = facts.static \cup
              (IF in.files[k].parses /\ Counts(in.files[k])
               THEN EvidenceOf(in.files[k]).static ELSE {})
         /\ facts'.literal = facts.literal \cup
              (IF in.files[k].parses /\ Counts(in.files[k])
               THEN EvidenceOf(in.files[k]).literal ELSE {})
         /\ weak'.static = weak.static \cup
              (IF in.files[k].parses /\ Weak(in.files[k])
               THEN EvidenceOf(in.files[k]).static ELSE {})
         /\ weak'.literal = weak.literal \cup
              (IF in.files[k].parses /\ Weak(in.files[k])
               THEN EvidenceOf(in.files[k]).literal ELSE {})
<1>1. in.files \in Seq(Range(in.files)) /\ k \in Nat \ {0}
  BY DEF Types, IsScenario
<1>2. pc = "scan" /\ k <= Len(in.files) /\ Scanning
  BY DEF ScanStep, ScanPython, ScanNpm, ScanGo, ScanCsharp, ScanNext
<1>3. k \in DOMAIN in.files
  BY <1>1, <1>2
<1> DEFINE f == in.files[k]
           e == EvidenceOf(f)
<1>4. ASSUME NEW n, n.static = e.static, n.literal = e.literal, NEW o \in BOOLEAN, o = Weak(f),
             Read(f, n, o)
      PROVE  /\ facts'.static = facts.static \cup (IF f.parses /\ Counts(f) THEN e.static ELSE {})
             /\ facts'.literal = facts.literal \cup (IF f.parses /\ Counts(f) THEN e.literal ELSE {})
             /\ weak'.static = weak.static \cup (IF f.parses /\ Weak(f) THEN e.static ELSE {})
             /\ weak'.literal = weak.literal \cup (IF f.parses /\ Weak(f) THEN e.literal ELSE {})
  BY <1>4 DEF Read, Plus
<1>5. CASE ScanPython
  <2>1. Read(f, FactsPython(f), OnlyIgnored(f)) /\ in.eco = "pypi"
    BY <1>5 DEF ScanPython, ScanNext
  <2>2. e = FactsPython(f) /\ OnlyIgnored(f) = Weak(f) /\ OnlyIgnored(f) \in BOOLEAN
    BY <2>1 DEF EvidenceOf, Weak, OnlyIgnored
  <2> QED BY <1>2, <1>3, <1>4, <2>1, <2>2 DEF Scanning
<1>6. CASE ScanNpm
  <2> DEFINE n == FactsNpm(f)
             named == [static  |-> {i \in n.static : NotLocal(i)} \cup Ambient(f),
                       literal |-> {i \in n.literal : NotLocal(i)},
                       dynamic |-> n.dynamic]
             seen  == [named EXCEPT !.static = {i \in @ : NotLocal(i)}]
             r == IF OnlyIgnored(f) THEN seen ELSE named
  <2>1. Read(f, r, OnlyIgnored(f)) /\ in.eco = "npm"
    BY <1>6 DEF ScanNpm, ScanNext
  <2>2. e = EvidenceNpm(f) /\ OnlyIgnored(f) = Weak(f) /\ OnlyIgnored(f) \in BOOLEAN
    BY <2>1 DEF EvidenceOf, Weak, OnlyIgnored
  <2>3. r.static = e.static /\ r.literal = e.literal
    BY <2>2 DEF EvidenceNpm, FactsNpm
  <2> HIDE DEF r
  <2> QED BY <1>2, <1>3, <1>4, <2>1, <2>2, <2>3 DEF Scanning
<1>7. CASE ScanGo
  <2>1. Read(f, FactsGo(f), OnlyIgnored(f)) /\ in.eco = "go"
    BY <1>7 DEF ScanGo, ScanNext
  <2>2. e = FactsGo(f) /\ OnlyIgnored(f) = Weak(f) /\ OnlyIgnored(f) \in BOOLEAN
    BY <2>1 DEF EvidenceOf, Weak, OnlyIgnored
  <2> QED BY <1>2, <1>3, <1>4, <2>1, <2>2 DEF Scanning
<1>8. CASE ScanCsharp
  <2>1. Read(f, FactsCsharp(f), OnlyIgnoredCsharp(f)) /\ in.eco = "nuget"
    BY <1>8 DEF ScanCsharp, ScanNext
  <2>2. e = FactsCsharp(f) /\ OnlyIgnoredCsharp(f) = Weak(f) /\ OnlyIgnoredCsharp(f) \in BOOLEAN
    BY <2>1 DEF EvidenceOf, Weak, OnlyIgnoredCsharp, OnlyIgnored
  <2> QED BY <1>2, <1>3, <1>4, <2>1, <2>2 DEF Scanning
<1> QED BY <1>5, <1>6, <1>7, <1>8 DEF ScanStep

\* What a file names depends on nothing that a step changes.
LEMMA SameFiles ==
  ASSUME in' = in
  PROVE  \A f : /\ Counts(f)' = Counts(f)
                /\ Weak(f)' = Weak(f)
                /\ EvidenceOf(f)' = EvidenceOf(f)
BY DEF Counts, Weak, OnlyIgnored, OnlyIgnoredCsharp, EvidenceOf, EvidenceNpm, NotLocal

LEMMA ReadInvStep ==
  ASSUME Types, ReadInv, SourceInv, ScanStep
  PROVE  ReadInv' /\ SourceInv'
<1>1. k \in Nat /\ k \in DOMAIN in.files /\ k' = k + 1 /\ in' = in /\ pc = "scan" /\ pc' = "scan"
  BY ReadAdds DEF Types
<1>2. DOMAIN in.files \subseteq Nat
  BY DEF Types, IsScenario
<1>3. ReadInv'
  <2> SUFFICES ASSUME NEW i \in DOMAIN in.files, i < k + 1, NEW f, f = in.files[i], f.parses
               PROVE  /\ Counts(f) => Covers(facts', EvidenceOf(f))
                      /\ Weak(f) => Covers(weak', EvidenceOf(f))
    BY <1>1, SameFiles DEF ReadInv
  <2>1. CASE i = k
    BY <2>1, ReadAdds DEF Covers
  <2>2. CASE i # k
    <3>1. i < k
      BY <1>1, <1>2, <2>2
    <3>2. /\ Counts(f) => Covers(facts, EvidenceOf(f))
          /\ Weak(f) => Covers(weak, EvidenceOf(f))
      BY <1>1, <3>1 DEF ReadInv
    <3> QED BY <3>2, ReadAdds DEF Covers
  <2> QED BY <2>1, <2>2
<1>4. SourceInv'
  <2> SUFFICES ASSUME NEW i \in facts'.static
               PROVE  \E f \in Range(in.files) : Counts(f) /\ i \in EvidenceOf(f).static
    BY <1>1, SameFiles DEF SourceInv
  <2>1. CASE i \in facts.static
    BY <2>1 DEF SourceInv
  <2>2. CASE i \notin facts.static
    <3>1. Counts(in.files[k]) /\ i \in EvidenceOf(in.files[k]).static
      BY <2>2, ReadAdds
    <3>2. in.files[k] \in Range(in.files)
      BY <1>1 DEF Range
    <3> QED BY <3>1, <3>2
  <2> QED BY <2>1, <2>2
<1> QED BY <1>3, <1>4

\* The other steps change neither the files nor what they have named.
LEMMA ReadInvRest ==
  ASSUME ReadInv, SourceInv, UNCHANGED <<in, facts, weak>>,
         \A i \in DOMAIN in.files : (pc' = "scan" => i < k') => (pc = "scan" => i < k)
  PROVE  ReadInv' /\ SourceInv'
<1>1. ReadInv'
  <2> SUFFICES ASSUME NEW i \in DOMAIN in.files, (pc' = "scan" => i < k'),
                      NEW f, f = in.files[i], f.parses
               PROVE  /\ Counts(f) => Covers(facts, EvidenceOf(f))
                      /\ Weak(f) => Covers(weak, EvidenceOf(f))
    BY SameFiles DEF ReadInv, Covers
  <2> QED BY DEF ReadInv
<1>2. SourceInv'
  BY SameFiles DEF SourceInv
<1> QED BY <1>1, <1>2

-----------------------------------------------------------------------------
(* Judging the dependencies. *)

LEMMA SameJudgement ==
  ASSUME UNCHANGED <<in, facts, weak>>
  PROVE  /\ \A d : Named(d)' <=> Named(d)
         /\ \A d : Hinted(d)' <=> Hinted(d)
         /\ \A n, i : Owns(n, i)' <=> Owns(n, i)
         /\ Hints' = Hints
BY DEF Named, Hinted, Owns, Hints, Imported, Direct, UsedIn

LEMMA JudgesPython ==
  ASSUME Types, ClassifyPython
  PROVE  Judges
<1>1. /\ pc = "classify" /\ k \in DOMAIN in.deps /\ k' = k + 1 /\ in.eco = "pypi"
      /\ UNCHANGED <<in, pc, facts, weak, undeclared>>
  BY DEF Types, IsScenario, ClassifyPython, ClassifyNext, Classified
<1> DEFINE d == in.deps[k]
           used == Found(d.name, facts.static) # {}
<1>2. d.status \in Status
  BY <1>1 DEF Types, IsScenario, IsDependency, Status, Range
<1>3. PICK m \in AMatch(d.name, facts.static), l \in AMatch(d.name, facts.literal) :
        IF d.stub \/ (d.transitive /\ ~ used)
        THEN Classified(d.status, {}) /\ UNCHANGED promoted
        ELSE IF d.transitive
        THEN Classified("IN_USE", m) /\ promoted' = promoted \cup {k}
        ELSE Classified(VerdictPython(d.name), m \cup l) /\ UNCHANGED promoted
  BY DEF ClassifyPython
<1>4. status \in [DOMAIN in.deps -> Status]
  BY DEF Types
<1>5. "classify" \notin Hints
  BY <1>1 DEF Hints
<1>6. Named(k) <=> \/ ~ d.stub /\ used
                   \/ ~ d.stub /\ ~ d.transitive /\ Found(d.name, facts.literal) # {}
  BY <1>1 DEF Named, Imported, Direct
<1>7. m \subseteq Found(d.name, facts.static) /\ l \subseteq Found(d.name, facts.literal)
  BY <1>3 DEF AMatch
<1>8. \A i \in m \cup l : Owns(d.name, i)
  BY <1>1, <1>7 DEF Found, Owns
<1>9. CASE d.stub \/ (d.transitive /\ ~ used)
  <2>1. Classified(d.status, {}) /\ UNCHANGED promoted
    BY <1>3, <1>9
  <2>2. ~ Named(k)
    BY <1>6, <1>9
  <2> QED BY <1>1, <1>2, <1>4, <1>5, <2>1, <2>2 DEF Judges, Classified
<1>10. CASE ~ (d.stub \/ (d.transitive /\ ~ used)) /\ d.transitive
  <2>1. Classified("IN_USE", m) /\ promoted' = promoted \cup {k}
    BY <1>3, <1>10
  <2> QED BY <1>1, <1>4, <1>5, <1>8, <1>10, <2>1 DEF Judges, Classified, Status
<1>11. CASE ~ d.stub /\ ~ d.transitive
  <2>1. Classified(VerdictPython(d.name), m \cup l) /\ UNCHANGED promoted
    BY <1>3, <1>11
  <2>2. VerdictPython(d.name) \in Status
    BY DEF VerdictPython, Status
  <2>3. Named(k) \/ m \cup l # {} => VerdictPython(d.name) = "IN_USE"
    BY <1>6, <1>7 DEF VerdictPython, Found
  <2> QED BY <1>1, <1>4, <1>5, <1>8, <1>11, <2>1, <2>2, <2>3 DEF Judges, Classified
<1> QED BY <1>9, <1>10, <1>11

LEMMA JudgesNpm ==
  ASSUME Types, ClassifyNpm
  PROVE  Judges
<1>1. /\ pc = "classify" /\ k \in DOMAIN in.deps /\ k' = k + 1 /\ in.eco = "npm"
      /\ UNCHANGED <<in, pc, facts, weak, undeclared, promoted>>
  BY DEF Types, IsScenario, ClassifyNpm, ClassifyNext, Classified
<1> DEFINE d == in.deps[k]
           v == VerdictNpm(d.name)
<1>2. IF d.stub
      THEN Classified(IF RuntimeInUse(d.runtime) THEN "IN_USE" ELSE "SAFE", {})
      ELSE Classified(v, IF v = "IN_USE" THEN {d.name} ELSE {})
  BY DEF ClassifyNpm
<1>3. status \in [DOMAIN in.deps -> Status]
  BY DEF Types
<1>4. "classify" \notin Hints
  BY <1>1 DEF Hints
<1>5. Named(k) <=> ~ d.stub /\ d.name \in facts.static \cup facts.literal
  BY <1>1 DEF Named
<1>6. v \in Status
  BY DEF VerdictNpm, Status
<1>7. d.name \in facts.static \cup facts.literal => v = "IN_USE"
  BY DEF VerdictNpm
<1>8. Owns(d.name, d.name)
  BY <1>1 DEF Owns
<1> HIDE DEF v
<1>9. CASE d.stub
  <2>1. PICK s \in Status : Classified(s, {})
    BY <1>2, <1>9 DEF Status
  <2> QED BY <1>1, <1>3, <1>4, <1>5, <1>9, <2>1 DEF Judges, Classified
<1>10. CASE ~ d.stub
  <2>1. Classified(v, IF v = "IN_USE" THEN {d.name} ELSE {})
    BY <1>2, <1>10
  <2> QED BY <1>1, <1>3, <1>4, <1>5, <1>6, <1>7, <1>8, <1>10, <2>1 DEF Judges, Classified
<1> QED BY <1>9, <1>10

LEMMA JudgesPath ==
  ASSUME Types, ClassifyGo \/ ClassifyCsharp
  PROVE  Judges
<1>1. /\ pc = "classify" /\ k \in DOMAIN in.deps /\ k' = k + 1 /\ in.eco \in {"go", "nuget"}
      /\ UNCHANGED <<in, pc, facts, weak, undeclared, promoted>>
  BY DEF Types, IsScenario, ClassifyGo, ClassifyCsharp, ClassifyNext, Classified
<1> DEFINE d == in.deps[k]
           v == VerdictPath(d.name)
<1>2. Classified(v, IF v = "IN_USE" THEN {d.name} ELSE {})
  BY DEF ClassifyGo, ClassifyCsharp
<1>3. status \in [DOMAIN in.deps -> Status]
  BY DEF Types
<1>4. Named(k) => v = "IN_USE"
  BY <1>1 DEF Named, VerdictPath
<1>5. Hinted(k) => v # "SAFE"
  BY <1>1 DEF Hinted, VerdictPath
<1>6. v \in Status
  BY DEF VerdictPath, Status
<1>7. Owns(d.name, d.name)
  BY <1>1 DEF Owns
<1> HIDE DEF v
<1> QED BY <1>1, <1>2, <1>3, <1>4, <1>5, <1>6, <1>7 DEF Judges, Classified

\* One more verdict leaves the earlier ones alone.
LEMMA JudgesKeeps ==
  ASSUME IInv, Judges
  PROVE  IInv'
<1>1. /\ pc = "classify" /\ pc' = "classify" /\ k \in DOMAIN in.deps /\ k' = k + 1
      /\ in' = in /\ facts' = facts /\ weak' = weak /\ undeclared' = undeclared
  BY DEF Judges
<1>2. k \in Nat \ {0} /\ DOMAIN in.deps \subseteq Nat /\ status \in [DOMAIN in.deps -> Status]
  BY DEF IInv, Types, IsScenario
<1>3. \A d \in DOMAIN in.deps : /\ d # k => status'[d] = status[d]
                                /\ Judged(d)' <=> Judged(d) \/ d = k
                                /\ Judged(d) => d # k
  BY <1>1, <1>2 DEF Judges, Judged
<1>4. Types'
  BY <1>1, <1>2 DEF IInv, Types, Judges
<1>5. ReadInv' /\ SourceInv'
  BY <1>1, ReadInvRest DEF IInv
<1>6. InUseInv'
  <2> SUFFICES ASSUME NEW d \in DOMAIN in.deps, Judged(d)', Named(d)
               PROVE  status'[d] = "IN_USE" /\ (in.deps[d].transitive /\ in.eco = "pypi" => d \in promoted')
    BY <1>1, SameJudgement DEF InUseInv
  <2> QED BY <1>3 DEF IInv, InUseInv, Judges
<1>7. HintInv'
  <2> SUFFICES ASSUME NEW d \in DOMAIN in.deps, pc \in Hints, Judged(d)', Hinted(d)
               PROVE  status'[d] # "SAFE"
    BY <1>1, SameJudgement DEF HintInv
  <2> QED BY <1>1, <1>3 DEF IInv, HintInv, Judges
<1>8. PromotedInv'
  <2> SUFFICES ASSUME NEW d \in promoted'
               PROVE  Judged(d)' /\ in.deps[d].transitive /\ status'[d] = "IN_USE"
    BY <1>1 DEF PromotedInv
  <2>1. CASE d \in promoted
    <3>1. d \in DOMAIN in.deps
      BY <2>1 DEF IInv, PromotedInv, Judged
    <3> QED BY <1>3, <2>1, <3>1 DEF IInv, PromotedInv
  <2>2. CASE d \notin promoted
    BY <1>1, <1>3, <2>2 DEF Judges
  <2> QED BY <2>1, <2>2
<1>9. MatchedInv'
  <2> SUFFICES ASSUME NEW m \in matched'
               PROVE  \E d \in DOMAIN in.deps :
                        /\ status'[d] = "IN_USE" /\ Owns(in.deps[d].name, m)
                        /\ Judged(d)'
                        /\ in.eco = "pypi" => d \in promoted' \/ ~ in.deps[d].transitive
    BY <1>1, SameJudgement DEF MatchedInv
  <2>1. CASE m \in matched
    <3>1. PICK d \in DOMAIN in.deps :
            /\ status[d] = "IN_USE" /\ Owns(in.deps[d].name, m)
            /\ Judged(d)
            /\ in.eco = "pypi" => d \in promoted \/ ~ in.deps[d].transitive
      BY <2>1 DEF IInv, MatchedInv
    <3> QED BY <1>3, <3>1 DEF Judges
  <2>2. CASE m \notin matched
    BY <1>1, <1>3, <2>2 DEF Judges
  <2> QED BY <2>1, <2>2
<1>10. ResolvedInv' /\ UndeclaredInv'
  BY <1>1 DEF ResolvedInv, UndeclaredInv
<1> QED BY <1>4, <1>5, <1>6, <1>7, <1>8, <1>9, <1>10 DEF IInv

LEMMA ScanKeeps ==
  ASSUME IInv, ScanStep
  PROVE  IInv'
<1>1. /\ pc = "scan" /\ pc' = "scan" /\ k' = k + 1 /\ in' = in /\ status' = status
      /\ promoted' = promoted /\ matched' = matched
  BY ReadAdds DEF IInv
<1>2. Types'
  BY <1>1 DEF IInv, Types
<1>3. ReadInv' /\ SourceInv'
  BY ReadInvStep DEF IInv
<1>4. \A d : ~ Judged(d) /\ ~ Judged(d)'
  BY <1>1 DEF Judged
<1>5. InUseInv' /\ HintInv'
  BY <1>4 DEF InUseInv, HintInv
<1>6. promoted = {} /\ matched = {}
  BY <1>4 DEF IInv, PromotedInv, MatchedInv
<1>7. PromotedInv' /\ MatchedInv'
  BY <1>1, <1>6 DEF PromotedInv, MatchedInv
<1>8. ResolvedInv' /\ UndeclaredInv'
  BY <1>1 DEF ResolvedInv, UndeclaredInv
<1> QED BY <1>2, <1>3, <1>5, <1>7, <1>8 DEF IInv

LEMMA ScannedKeeps ==
  ASSUME IInv, Scanned
  PROVE  IInv'
<1>1. /\ pc = "scan" /\ pc' = "classify" /\ k' = 1 /\ k > Len(in.files)
      /\ UNCHANGED <<in, facts, weak, status, promoted, matched, undeclared>>
  BY DEF Scanned
<1>2. Types'
  BY <1>1 DEF IInv, Types
<1>3. \A i \in DOMAIN in.files : i < k
  BY <1>1 DEF IInv, Types, IsScenario
<1>4. ReadInv' /\ SourceInv'
  BY <1>1, <1>3, ReadInvRest DEF IInv
<1>5. \A d : ~ Judged(d)
  BY <1>1 DEF Judged
<1>6. \A d : ~ Judged(d)'
  BY <1>1 DEF Judged, IInv, Types, IsScenario
<1>7. InUseInv' /\ HintInv'
  BY <1>6 DEF InUseInv, HintInv
<1>8. promoted = {} /\ matched = {}
  BY <1>5 DEF IInv, PromotedInv, MatchedInv
<1>9. PromotedInv' /\ MatchedInv'
  BY <1>1, <1>8 DEF PromotedInv, MatchedInv
<1>10. ResolvedInv' /\ UndeclaredInv'
  BY <1>1 DEF ResolvedInv, UndeclaredInv
<1> QED BY <1>2, <1>4, <1>7, <1>9, <1>10 DEF IInv

LEMMA PassesKeep ==
  ASSUME IInv, pc # "scan", \A d \in DOMAIN in.deps : Judged(d), Passes(status')
  PROVE  ReadInv' /\ SourceInv' /\ InUseInv' /\ HintInv' /\ PromotedInv' /\ MatchedInv'
<1>1. UNCHANGED <<in, k, facts, weak, promoted, matched>> /\ pc' # "scan" /\ pc' # "classify"
  BY DEF Passes
<1>2. \A d : Judged(d)' <=> d \in DOMAIN in.deps
  BY <1>1 DEF Judged
<1>3. ReadInv' /\ SourceInv'
  BY <1>1, ReadInvRest DEF IInv
<1>4. InUseInv'
  <2> SUFFICES ASSUME NEW d \in DOMAIN in.deps, Named(d)
               PROVE  status'[d] = "IN_USE" /\ (in.deps[d].transitive /\ in.eco = "pypi" => d \in promoted)
    BY <1>1, SameJudgement DEF InUseInv
  <2> QED BY DEF IInv, InUseInv, Passes
<1>5. HintInv'
  BY <1>1, SameJudgement DEF HintInv, Passes
<1>6. PromotedInv'
  <2> SUFFICES ASSUME NEW d \in promoted
               PROVE  d \in DOMAIN in.deps /\ in.deps[d].transitive /\ status'[d] = "IN_USE"
    BY <1>1, <1>2 DEF PromotedInv
  <2> QED BY DEF IInv, PromotedInv, Passes, Judged
<1>7. MatchedInv'
  <2> SUFFICES ASSUME NEW m \in matched
               PROVE  \E d \in DOMAIN in.deps :
                        /\ status'[d] = "IN_USE" /\ Owns(in.deps[d].name, m)
                        /\ in.eco = "pypi" => d \in promoted \/ ~ in.deps[d].transitive
    BY <1>1, <1>2, SameJudgement DEF MatchedInv
  <2> QED BY DEF IInv, MatchedInv, Passes
<1> QED BY <1>3, <1>4, <1>5, <1>6, <1>7

-----------------------------------------------------------------------------
(* What the lock file's graph decides. *)

\* A set of numbers that is not empty has a least element.
LEMMA LeastNumber ==
  ASSUME NEW S \in SUBSET Nat, S # {}
  PROVE  \E m \in S : \A n \in S : m <= n
<1>. DEFINE R == {ss \in Nat \X Nat : ss[1] < ss[2]}
<1>1. IsWellFoundedOn(R, Nat)
  BY NatLessThanWellFounded DEF OpToRel
<1>2. \A n, m \in Nat : <<n, m>> \in R <=> n < m OBVIOUS
<1>. HIDE DEF R
<1>3. PICK m \in S : \A n \in S : ~ (<<n, m>> \in R)
  BY <1>1, WFMin
<1>4. ASSUME NEW n \in S PROVE m <= n
  <2>1. n \in Nat /\ m \in Nat OBVIOUS
  <2>2. ~ (n < m)
    BY <2>1, <1>2, <1>3
  <2>. QED BY <2>1, <2>2
<1>. QED BY <1>4

\* Of some subsets of a finite set one has none of the others around it.
LEMMA Outermost ==
  ASSUME NEW V, IsFiniteSet(V), NEW Bunch \in SUBSET SUBSET V, Bunch # {}
  PROVE  \E X \in Bunch : \A Y \in SUBSET V : X \subseteq Y /\ Y # X => Y \notin Bunch
<1> DEFINE Sizes == {Cardinality(V \ X) : X \in Bunch}
<1>1. \A X \in SUBSET V : IsFiniteSet(V \ X) /\ Cardinality(V \ X) \in Nat
  BY FS_Subset, FS_CardinalityType
<1>2. Sizes \in SUBSET Nat /\ Sizes # {}
  BY <1>1
<1>3. PICK n \in Sizes : \A m \in Sizes : n <= m
  <2> HIDE DEF Sizes
  <2> QED BY <1>2, LeastNumber
<1>4. PICK X \in Bunch : Cardinality(V \ X) = n
  BY <1>3
<1>5. ASSUME NEW Y \in Bunch, X \subseteq Y, Y # X PROVE FALSE
  <2>1. X \in SUBSET V /\ Y \in SUBSET V OBVIOUS
  <2>2. PICK z \in Y : z \notin X
    BY <1>5
  <2>3. V \ Y \in SUBSET (V \ X) /\ z \in V \ X /\ z \notin V \ Y
    BY <1>5, <2>1, <2>2
  <2>4. Cardinality(V \ Y) < Cardinality(V \ X)
    <3>1. \A A, B : IsFiniteSet(A) /\ B \subseteq A /\ B # A
                    /\ Cardinality(A) \in Nat /\ Cardinality(B) \in Nat
                    => Cardinality(B) < Cardinality(A)
      BY FS_Subset
    <3>2. V \ Y \subseteq V \ X /\ V \ Y # V \ X
      BY <2>3
    <3>3. IsFiniteSet(V \ X) /\ Cardinality(V \ X) \in Nat /\ Cardinality(V \ Y) \in Nat
      BY <1>1, <2>1
    <3> QED BY <3>1, <3>2, <3>3
  <2>5. n <= Cardinality(V \ Y)
    BY <1>3
  <2>6. n \in Nat /\ Cardinality(V \ Y) \in Nat
    BY <1>1, <1>2
  <2> QED BY <1>4, <2>4, <2>5, <2>6
<1> QED BY <1>5

\* The closure is the least set of the graph that no edge leaves: the search for
\* it grows a finite set until it does not grow any more.
LEMMA BelowIsClosed ==
  ASSUME NEW g, IsFiniteSet(DOMAIN g), \A n \in DOMAIN g : g[n] \subseteq DOMAIN g,
         NEW S \in SUBSET DOMAIN g
  PROVE  /\ Below(g, S) \subseteq DOMAIN g
         /\ S \subseteq Below(g, S)
         /\ \A n \in Below(g, S) : g[n] \subseteq Below(g, S)
         /\ \A Z \in SUBSET DOMAIN g :
              S \subseteq Z /\ (\A n \in Z : g[n] \subseteq Z) => Below(g, S) \subseteq Z
<1> DEFINE V == DOMAIN g
           Grow(X) == X \cup UNION {g[n] : n \in X}
           Closed(X) == \A n \in X : g[n] \subseteq X
           Rec(f, X) == IF Grow(X) = X THEN X ELSE f[Grow(X)]
           least == [X \in SUBSET V |-> {v \in V : \A Z \in SUBSET V : X \subseteq Z /\ Closed(Z) => v \in Z}]
           reach == CHOOSE f : f = [X \in SUBSET V |-> Rec(f, X)]
<1>1. \A X \in SUBSET V : Grow(X) \in SUBSET V OBVIOUS
<1>2. \A X \in SUBSET V : Grow(X) = X => least[X] = X OBVIOUS
<1>3. \A X \in SUBSET V : \A Z : X \subseteq Z /\ Closed(Z) <=> Grow(X) \subseteq Z /\ Closed(Z)
  OBVIOUS
<1>4. \A X \in SUBSET V : least[X] = least[Grow(X)]
  <2> DEFINE Above(X) == {Z \in SUBSET V : X \subseteq Z /\ Closed(Z)}
             Meet(W) == {v \in V : \A Z \in W : v \in Z}
  <2>1. \A X \in SUBSET V : least[X] = Meet(Above(X)) OBVIOUS
  <2>2. \A X \in SUBSET V : Above(X) = Above(Grow(X))
    BY <1>3
  <2> HIDE DEF least, Above, Meet
  <2> QED BY <1>1, <2>1, <2>2
<1>5. least = [X \in SUBSET V |-> Rec(least, X)]
  <2>1. \A X \in SUBSET V : least[X] = Rec(least, X)
    BY <1>2, <1>4
  <2> QED BY <2>1
<1>6. reach = [X \in SUBSET V |-> Rec(reach, X)]
  <2> HIDE DEF Rec, least
  <2> QED BY <1>5
<1>7. Below(g, S) = reach[S]
  BY DEF Below
<1> HIDE DEF reach
<1> DEFINE Good(X) == /\ X \subseteq reach[X] /\ reach[X] \subseteq V /\ Closed(reach[X])
                      /\ \A Z \in SUBSET V : X \subseteq Z /\ Closed(Z) => reach[X] \subseteq Z
           Bad == {X \in SUBSET V : ~ Good(X)}
<1>8. \A X \in SUBSET V : Good(X)
  <2> SUFFICES ASSUME Bad # {} PROVE FALSE OBVIOUS
  <2>1. PICK X \in Bad : \A Y \in SUBSET V : X \subseteq Y /\ Y # X => Y \notin Bad
    <3>1. Bad \in SUBSET SUBSET V OBVIOUS
    <3> HIDE DEF Bad
    <3> QED BY <3>1, Outermost
  <2>2. X \in SUBSET V /\ ~ Good(X) OBVIOUS
  <2>3. Grow(X) \in SUBSET V /\ X \subseteq Grow(X)
    BY <1>1, <2>2
  <2>4. reach[X] = IF Grow(X) = X THEN X ELSE reach[Grow(X)]
    BY <1>6, <2>2
  <2>5. \A Z : X \subseteq Z /\ Closed(Z) => Grow(X) \subseteq Z
    BY <1>3, <2>2
  <2>6. Grow(X) = X => Closed(X) OBVIOUS
  <2> HIDE DEF Grow, Closed
  <2>7. CASE Grow(X) = X
    BY <2>2, <2>4, <2>6, <2>7
  <2>8. CASE Grow(X) # X
    <3>1. Good(Grow(X))
      <4>1. Grow(X) \notin Bad
        BY <2>1, <2>3, <2>8
      <4> QED BY <2>3, <4>1
    <3>2. reach[X] = reach[Grow(X)]
      BY <2>4, <2>8
    <3> QED BY <2>2, <2>3, <2>5, <3>1, <3>2
  <2> QED BY <2>7, <2>8
<1> QED BY <1>7, <1>8

LEMMA SameResolved ==
  ASSUME in' = in, \A d \in DOMAIN in.deps : Direct(d) => status'[d] = status[d]
  PROVE  \A d : Resolved(d)' = Resolved(d)
<1>1. \A d : Parents(d)' = Parents(d) /\ Parents(d) \subseteq {p \in DOMAIN in.deps : Direct(p)}
  BY DEF Parents, Direct
<1>2. \A d : \A p \in Parents(d) : status'[p] = status[p]
  BY <1>1
<1> QED BY <1>1, <1>2 DEF Resolved

LEMMA AllClassifiedKeeps ==
  ASSUME IInv, AllClassified
  PROVE  IInv'
<1>1. /\ pc = "classify" /\ pc' \in {"upgrade", "downgrade", "undeclared"}
      /\ pc' = (IF in.eco = "pypi" THEN "upgrade"
                ELSE IF in.eco = "npm" THEN "downgrade" ELSE "undeclared")
      /\ UNCHANGED <<in, k, facts, weak, status, promoted, matched, undeclared>>
  BY DEF AllClassified
<1>2. Types'
  BY <1>1 DEF IInv, Types
<1>3. \A d \in DOMAIN in.deps : Judged(d)
  BY <1>1 DEF AllClassified, Judged, IInv, Types, IsScenario
<1>4. Passes(status')
  <2> SUFFICES ASSUME NEW d \in DOMAIN in.deps, pc' \in Hints, Hinted(d) PROVE status[d] # "SAFE"
    BY <1>1 DEF Passes, IInv, Types
  <2>1. "classify" \in Hints
    BY <1>1 DEF Hints
  <2> QED BY <1>1, <1>3, <2>1 DEF IInv, HintInv
<1>5. ReadInv' /\ SourceInv' /\ InUseInv' /\ HintInv' /\ PromotedInv' /\ MatchedInv'
  BY <1>1, <1>3, <1>4, PassesKeep
<1>6. ResolvedInv' /\ UndeclaredInv'
  BY <1>1 DEF ResolvedInv, UndeclaredInv
<1> QED BY <1>2, <1>5, <1>6 DEF IInv

\* The passes that change a status: SAFE to something stronger, or what the
\* graph says of a transitive dependency.
LEMMA UpgradeKeeps ==
  ASSUME IInv, UpgradeCliTools
  PROVE  IInv'
<1>1. pc = "upgrade" /\ pc' = "downgrade" /\ Rest
  BY DEF UpgradeCliTools
<1>2. in.eco = "pypi" /\ status \in [DOMAIN in.deps -> Status]
  BY <1>1 DEF IInv, Types
<1>3. \A d \in DOMAIN in.deps : Judged(d)
  BY <1>1 DEF Judged
<1>4. Passes(status')
  BY <1>1, <1>2 DEF UpgradeCliTools, Passes, Rest, Hints, Status
<1>5. Types'
  BY <1>1, <1>2, <1>4 DEF IInv, Types, Passes, Rest
<1>6. ReadInv' /\ SourceInv' /\ InUseInv' /\ HintInv' /\ PromotedInv' /\ MatchedInv'
  BY <1>1, <1>3, <1>4, PassesKeep
<1>7. ResolvedInv' /\ UndeclaredInv'
  BY <1>1 DEF ResolvedInv, UndeclaredInv
<1> QED BY <1>5, <1>6, <1>7 DEF IInv

LEMMA DowngradePythonKeeps ==
  ASSUME IInv, DowngradePython
  PROVE  IInv'
<1>1. pc = "downgrade" /\ pc' = "resolve" /\ Rest /\ in.eco = "pypi"
  BY DEF DowngradePython
<1>2. status \in [DOMAIN in.deps -> Status]
  BY DEF IInv, Types
<1>3. \A d \in DOMAIN in.deps : Judged(d)
  BY <1>1 DEF Judged
<1>4. Passes(status')
  <2>1. \A d \in DOMAIN in.deps :
          Hinted(d) <=> /\ ~ in.deps[d].transitive /\ ~ in.deps[d].stub
                        /\ Found(in.deps[d].name, weak.static \cup weak.literal) # {}
    BY <1>1 DEF Hinted, Direct
  <2> QED BY <1>1, <1>2, <2>1 DEF DowngradePython, Passes, Rest, Status
<1>5. Types'
  BY <1>1, <1>2, <1>4 DEF IInv, Types, Passes, Rest
<1>6. ReadInv' /\ SourceInv' /\ InUseInv' /\ HintInv' /\ PromotedInv' /\ MatchedInv'
  BY <1>1, <1>3, <1>4, PassesKeep
<1>7. ResolvedInv' /\ UndeclaredInv'
  BY <1>1 DEF ResolvedInv, UndeclaredInv
<1> QED BY <1>5, <1>6, <1>7 DEF IInv

LEMMA DowngradeNpmKeeps ==
  ASSUME IInv, DowngradeNpm
  PROVE  IInv'
<1>1. pc = "downgrade" /\ pc' = "undeclared" /\ Rest /\ in.eco = "npm"
  BY DEF DowngradeNpm
<1>2. status \in [DOMAIN in.deps -> Status]
  BY DEF IInv, Types
<1>3. \A d \in DOMAIN in.deps : Judged(d)
  BY <1>1 DEF Judged
<1>4. Passes(status')
  <2>1. \A d \in DOMAIN in.deps :
          Hinted(d) <=> ~ in.deps[d].stub /\ in.deps[d].name \in weak.static \cup weak.literal
    BY <1>1 DEF Hinted
  <2> QED BY <1>1, <1>2, <2>1 DEF DowngradeNpm, Passes, Rest, Status
<1>5. Types'
  BY <1>1, <1>2, <1>4 DEF IInv, Types, Passes, Rest
<1>6. ReadInv' /\ SourceInv' /\ InUseInv' /\ HintInv' /\ PromotedInv' /\ MatchedInv'
  BY <1>1, <1>3, <1>4, PassesKeep
<1>7. ResolvedInv' /\ UndeclaredInv'
  BY <1>1, <1>2 DEF ResolvedInv, UndeclaredInv, Rest
<1> QED BY <1>5, <1>6, <1>7 DEF IInv

LEMMA ResolveKeeps ==
  ASSUME IInv, ResolveTransitives
  PROVE  IInv'
<1>1. pc = "resolve" /\ pc' = "undeclared" /\ Rest
  BY DEF ResolveTransitives
<1>2. in.eco = "pypi" /\ status \in [DOMAIN in.deps -> Status]
  BY <1>1 DEF IInv, Types
<1>3. \A d \in DOMAIN in.deps : Judged(d)
  BY <1>1 DEF Judged
<1>4. \A d : Resolved(d) \in Status
  BY DEF Resolved, Status
<1>5. Passes(status')
  <2>1. \A d \in DOMAIN in.deps : Hinted(d) => status[d] # "SAFE"
    BY <1>1, <1>2, <1>3 DEF IInv, HintInv, Hints
  <2>2. \A d \in DOMAIN in.deps : Hinted(d) => ~ in.deps[d].transitive
    BY <1>2 DEF Hinted, Direct
  <2> QED BY <1>1, <1>2, <1>4, <2>1, <2>2 DEF ResolveTransitives, Passes, Rest
<1>6. Types'
  BY <1>1, <1>2, <1>5 DEF IInv, Types, Passes, Rest
<1>7. ReadInv' /\ SourceInv' /\ InUseInv' /\ HintInv' /\ PromotedInv' /\ MatchedInv'
  BY <1>1, <1>3, <1>5, PassesKeep
<1>8. ResolvedInv'
  <2>1. in' = in /\ promoted' = promoted
    BY <1>1 DEF Rest
  <2>2. \A d \in DOMAIN in.deps : Direct(d) => status'[d] = status[d]
    BY DEF ResolveTransitives, Direct
  <2>3. \A d : Resolved(d)' = Resolved(d)
    BY <2>1, <2>2, SameResolved
  <2> QED BY <2>1, <2>3 DEF ResolvedInv, ResolveTransitives
<1>9. UndeclaredInv'
  BY <1>1 DEF UndeclaredInv
<1> QED BY <1>6, <1>7, <1>8, <1>9 DEF IInv

LEMMA ReportsKeep ==
  ASSUME IInv, NEW eco, Reports(eco), UndeclaredInv'
  PROVE  IInv'
<1>1. /\ pc = "undeclared" /\ pc' = "done" /\ in' = in /\ k' = k /\ status' = status
      /\ promoted' = promoted
  BY DEF Reports
<1>2. Types'
  BY <1>1 DEF IInv, Types
<1>3. \A d \in DOMAIN in.deps : Judged(d)
  BY <1>1 DEF Judged
<1>4. Passes(status')
  <2>1. "undeclared" \in Hints
    BY DEF Hints
  <2>2. \A d \in DOMAIN in.deps : Hinted(d) => status[d] # "SAFE"
    BY <1>1, <1>3, <2>1 DEF IInv, HintInv
  <2> QED BY <1>1, <2>2 DEF Reports, Passes, IInv, Types
<1>5. ReadInv' /\ SourceInv' /\ InUseInv' /\ HintInv' /\ PromotedInv' /\ MatchedInv'
  BY <1>1, <1>3, <1>4, PassesKeep
<1>6. ResolvedInv'
  <2>1. \A d : Resolved(d)' = Resolved(d)
    BY <1>1, SameResolved
  <2> QED BY <1>1, <2>1 DEF IInv, ResolvedInv
<1> QED BY <1>2, <1>5, <1>6 DEF IInv

LEMMA UndeclaredPythonKeeps ==
  ASSUME IInv, UndeclaredPython
  PROVE  IInv'
<1> DEFINE Cand == {i \in facts.static : /\ ~ IsBuiltin(Canon[i])
                                         /\ Canon[i] \notin {Canon[m] : m \in matched}
                                         /\ Canon[i] \notin Declared
                                         /\ Distribution(i) \notin Declared}
           Owed == {Distribution(i) : i \in Cand}
<1>1. PICK entries \in OnePer(Distribution, Cand) : ReportUndeclared("pypi", entries)
  BY DEF UndeclaredPython
<1>2. Reports("pypi") /\ undeclared' = entries
  BY <1>1 DEF ReportUndeclared, Reports
<1>3. PICK rep \in [Owed -> Cand] : /\ entries = {<<n, rep[n]>> : n \in Owed}
                                     /\ \A n \in Owed : Distribution(rep[n]) = n
  BY <1>1 DEF OnePer
<1>4. \A u \in undeclared' : u[2] \in facts.static
  BY <1>2, <1>3
<1>5. \A i \in facts.static :
        \/ IsBuiltin(Canon[i])
        \/ \E m \in matched : Canon[i] = Canon[m]
        \/ {Canon[i], Distribution(i)} \cap Declared # {}
        \/ \E u \in undeclared' : u[1] = Distribution(i)
  <2> SUFFICES ASSUME NEW i \in Cand PROVE \E u \in undeclared' : u[1] = Distribution(i) OBVIOUS
  <2>1. <<Distribution(i), rep[Distribution(i)]>> \in undeclared'
    BY <1>2, <1>3
  <2> QED BY <2>1
<1>6. /\ in' = in /\ facts' = facts /\ matched' = matched /\ in.eco = "pypi"
      /\ Declared' = Declared
  BY <1>2 DEF Reports, Declared
<1>7. \A i \in facts.static : Explained(i)'
  BY <1>5, <1>6 DEF Explained
<1>8. UndeclaredInv'
  BY <1>4, <1>6, <1>7 DEF UndeclaredInv
<1> QED BY <1>2, <1>8, ReportsKeep

LEMMA UndeclaredNpmKeeps ==
  ASSUME IInv, UndeclaredNpm
  PROVE  IInv'
<1>1. Reports("npm") /\ undeclared' = {<<i, i>> : i \in facts.static \ (matched \cup Declared)}
  BY DEF UndeclaredNpm, ReportUndeclared, Reports
<1>2. /\ \A u \in undeclared' : u[2] \in facts.static /\ u[1] \notin Declared
      /\ \A i \in facts.static : i \in matched \cup Declared \/ <<i, i>> \in undeclared'
  BY <1>1
<1>3. UndeclaredInv'
  BY <1>1, <1>2 DEF UndeclaredInv, Explained, Reports, Declared
<1> QED BY <1>1, <1>3, ReportsKeep

LEMMA UndeclaredGoKeeps ==
  ASSUME IInv, UndeclaredGo
  PROVE  IInv'
<1> DEFINE Cand == {x \in facts.static : /\ ModuleRoot(x) \notin matched \cup Declared
                                         /\ x \notin matched \cup Declared}
           Owed == {ModuleRoot(i) : i \in Cand}
<1>1. PICK entries \in OnePer(ModuleRoot, Cand) : ReportUndeclared("go", entries)
  BY DEF UndeclaredGo
<1>2. Reports("go") /\ undeclared' = entries
  BY <1>1 DEF ReportUndeclared, Reports
<1>3. PICK rep \in [Owed -> Cand] : entries = {<<n, rep[n]>> : n \in Owed}
  BY <1>1 DEF OnePer
<1>4. \A u \in undeclared' : u[2] \in facts.static
  BY <1>2, <1>3
<1>5. \A i \in facts.static :
        \/ {i, ModuleRoot(i)} \cap (matched \cup Declared) # {}
        \/ \E u \in undeclared' : u[1] = ModuleRoot(i)
  <2> SUFFICES ASSUME NEW i \in Cand PROVE \E u \in undeclared' : u[1] = ModuleRoot(i) OBVIOUS
  <2>1. <<ModuleRoot(i), rep[ModuleRoot(i)]>> \in undeclared'
    BY <1>2, <1>3
  <2> QED BY <2>1
<1> HIDE DEF Cand, Owed
<1>6. UndeclaredInv'
  <2>1. /\ in' = in /\ facts' = facts /\ matched' = matched /\ in.eco = "go"
        /\ Declared' = Declared
    BY <1>2 DEF Reports, Declared
  <2>2. \A i \in facts.static : Explained(i)'
    BY <1>5, <2>1 DEF Explained
  <2> QED BY <1>4, <2>1, <2>2 DEF UndeclaredInv
<1> QED BY <1>2, <1>6, ReportsKeep

LEMMA UndeclaredCsharpKeeps ==
  ASSUME IInv, UndeclaredCsharp
  PROVE  IInv'
<1>1. /\ Reports("nuget")
      /\ undeclared' = {<<i, i>> : i \in {x \in facts.static :
                                            /\ ~ IsBuiltin(x)
                                            /\ ~ \E n \in Declared : Under(n, x)}}
  BY DEF UndeclaredCsharp, ReportUndeclared, Reports
<1>2. /\ \A u \in undeclared' : u[2] \in facts.static /\ ~ \E n \in Declared : Under(n, u[1])
      /\ \A i \in facts.static : \/ IsBuiltin(i)
                                 \/ \E n \in Declared : Under(n, i)
                                 \/ <<i, i>> \in undeclared'
  BY <1>1
<1>3. UndeclaredInv'
  BY <1>1, <1>2 DEF UndeclaredInv, Explained, Reports, Declared
<1> QED BY <1>1, <1>3, ReportsKeep

LEMMA StutterKeeps ==
  ASSUME IInv, UNCHANGED vars
  PROVE  IInv'
<1>1. UNCHANGED <<in, pc, k, facts, weak, status, promoted, matched, undeclared>>
  BY DEF vars
<1>2. Types'
  BY <1>1 DEF IInv, Types
<1>3. ReadInv' /\ SourceInv'
  BY <1>1, ReadInvRest DEF IInv
<1>4. \A d : Judged(d)' <=> Judged(d)
  BY <1>1 DEF Judged
<1>5. InUseInv' /\ HintInv'
  BY <1>1, <1>4, SameJudgement DEF IInv, InUseInv, HintInv
<1>6. PromotedInv' /\ MatchedInv'
  BY <1>1, <1>4, SameJudgement DEF IInv, PromotedInv, MatchedInv
<1>7. ResolvedInv'
  <2>1. \A d : Resolved(d)' = Resolved(d)
    BY <1>1, SameResolved
  <2> QED BY <1>1, <2>1 DEF IInv, ResolvedInv
<1>8. UndeclaredInv'
  <2>1. Declared' = Declared
    BY <1>1 DEF Declared
  <2>2. \A i : Explained(i)' <=> Explained(i)
    <3> TAKE i
    <3>1. in' = in /\ matched' = matched /\ undeclared' = undeclared
      BY <1>1
    <3>2. (\E n \in Declared : Under(n, i))' <=> \E n \in Declared : Under(n, i)
      BY <2>1
    <3>3. (\E m \in matched : Canon[i] = Canon[m])' <=> \E m \in matched : Canon[i] = Canon[m]
      BY <3>1
    <3>4. (\E u \in undeclared : u[1] = Distribution(i))' <=> \E u \in undeclared : u[1] = Distribution(i)
      BY <3>1
    <3>5. (\E u \in undeclared : u[1] = ModuleRoot(i))' <=> \E u \in undeclared : u[1] = ModuleRoot(i)
      BY <3>1
    <3> QED BY <2>1, <3>1, <3>2, <3>3, <3>4, <3>5 DEF Explained
  <2> QED BY <1>1, <2>1, <2>2 DEF IInv, UndeclaredInv
<1> QED BY <1>2, <1>3, <1>5, <1>6, <1>7, <1>8 DEF IInv

LEMMA InitInv == Init => IInv
<1> SUFFICES ASSUME Init PROVE IInv OBVIOUS
<1>1. IsScenario(in) /\ pc = "scan" /\ k = 1 /\ promoted = {} /\ matched = {} /\ facts.static = {}
  BY ScenarioAssumption DEF Init, NoFacts
<1>2. status \in [DOMAIN in.deps -> Status]
  BY <1>1 DEF Init, IsScenario, IsDependency, Status, Range
<1>3. Types
  BY <1>1, <1>2 DEF Types
<1>4. \A i \in DOMAIN in.files : ~ i < k
  BY <1>1 DEF IsScenario
<1>5. ReadInv /\ SourceInv
  BY <1>1, <1>4 DEF ReadInv, SourceInv
<1>6. \A d : ~ Judged(d)
  BY <1>1 DEF Judged
<1>7. InUseInv /\ HintInv /\ PromotedInv /\ MatchedInv
  BY <1>1, <1>6 DEF InUseInv, HintInv, PromotedInv, MatchedInv
<1>8. ResolvedInv /\ UndeclaredInv
  BY <1>1 DEF ResolvedInv, UndeclaredInv
<1> QED BY <1>3, <1>5, <1>7, <1>8 DEF IInv

\* Every step of every analyser keeps the invariant.
LEMMA StepInv == IInv /\ [Next]_vars => IInv'
<1> SUFFICES ASSUME IInv, [Next]_vars PROVE IInv' OBVIOUS
<1>1. CASE Scan
  BY <1>1, ScanKeeps, ScannedKeeps DEF Scan, ScanStep
<1>2. CASE Classify
  <2>1. Types
    BY DEF IInv
  <2> QED
    BY <1>2, <2>1, JudgesPython, JudgesNpm, JudgesPath, JudgesKeeps, AllClassifiedKeeps DEF Classify
<1>3. CASE Finish
  BY <1>3, UpgradeKeeps, DowngradePythonKeeps, DowngradeNpmKeeps, ResolveKeeps,
     UndeclaredPythonKeeps, UndeclaredNpmKeeps, UndeclaredGoKeeps, UndeclaredCsharpKeeps
     DEF Finish
<1>4. CASE Returned \/ UNCHANGED vars
  BY <1>4, StutterKeeps DEF Returned
<1> QED BY <1>1, <1>2, <1>3, <1>4 DEF Next

LEMMA Invariant == Spec => []IInv
BY InitInv, StepInv, PTL DEF Spec

-----------------------------------------------------------------------------
(* What the report owes to the sources. *)

\* A use that a parser knows is among the evidence of its file.
LEMMA UseIsEvidence ==
  ASSUME Types, NEW f \in Range(in.files), NEW name, Uses(f, name)
  PROVE  /\ in.eco = "pypi" => Found(name, EvidenceOf(f).static \cup EvidenceOf(f).literal) # {}
         /\ in.eco = "npm" => name \in EvidenceOf(f).static \cup EvidenceOf(f).literal
         /\ in.eco \in {"go", "nuget"} => UsedIn(name, EvidenceOf(f))
<1>1. PICK s \in f.sites : s.form \notin Weightless /\ Plain(f, s) /\ Provides(s.path, name)
  BY DEF Uses
<1>2. s.form \in Forms(in.eco) /\ in.eco \in {"pypi", "npm", "go", "nuget"}
  BY DEF Types, IsScenario, IsFile
<1>3. CASE in.eco = "pypi"
  <2>1. s.form \in {"import", "wildcard", "import_module"}
    BY <1>1, <1>2, <1>3 DEF Forms, Weightless
  <2>2. s.path \in FactsPython(f).static \cup FactsPython(f).literal
    BY <2>1 DEF FactsPython, ImportsPython, CallsPython, Targets, Text
  <2>3. Matches(s.path, name)
    BY <1>1, <1>3 DEF Provides, Plain, Matches
  <2> QED BY <1>3, <2>2, <2>3 DEF EvidenceOf, Found
<1>4. CASE in.eco = "npm"
  <2>1. s.form \in {"import", "require", "declare module"}
    BY <1>1, <1>2, <1>4 DEF Forms, Weightless, Plain
  <2>2. name \in Package(s.path) /\ NotLocal(name)
    BY <1>1, <1>4 DEF Provides
  <2>3. name \in StaticImports(f) \cup Literals(f) \cup Ambient(f)
    BY <2>1, <2>2 DEF StaticImports, Literals, Ambient, Packages, Targets
  <2>4. name \in EvidenceNpm(f).static \cup EvidenceNpm(f).literal
    BY <2>2, <2>3 DEF EvidenceNpm
  <2> QED BY <1>4, <2>4 DEF EvidenceOf
<1>5. CASE in.eco = "go"
  <2>1. s.form \in {"import", "blank"}
    BY <1>2, <1>5 DEF Forms
  <2>2. ~ IsBuiltin(s.path) /\ Under(name, s.path)
    BY <1>1, <1>5 DEF Provides
  <2>3. s.path \in FactsGo(f).static
    BY <2>1, <2>2 DEF FactsGo, Targets
  <2> QED BY <1>5, <2>2, <2>3 DEF EvidenceOf, UsedIn
<1>6. CASE in.eco = "nuget"
  <2>1. s.form \in {"using", "using static", "using alias"} /\ (f.razor => s.form = "using")
    BY <1>1, <1>2, <1>6 DEF Forms, Plain
  <2>2. Under(name, s.path)
    BY <1>1, <1>6 DEF Provides
  <2>3. s.path \in FactsCsharp(f).static
    BY <2>1 DEF FactsCsharp, FactsRazor, FactsUsing, NoFacts, Targets
  <2> QED BY <1>6, <2>2, <2>3 DEF EvidenceOf, UsedIn
<1> QED BY <1>2, <1>3, <1>4, <1>5, <1>6

\* Nothing after the verdicts takes IN_USE back from what a file uses.
LEMMA UseIsJudged == IInv => UsedIsNotSafe
<1> SUFFICES ASSUME IInv, pc = "done", NEW d \in DOMAIN in.deps, Direct(d),
                    NEW f \in Range(in.files), Uses(f, in.deps[d].name)
             PROVE  /\ Counts(f) => status[d] = "IN_USE"
                    /\ Weak(f) => status[d] # "SAFE"
  BY DEF UsedIsNotSafe
<1> DEFINE name == in.deps[d].name
           e == EvidenceOf(f)
<1>1. Types
  BY DEF IInv
<1>2. /\ in.eco = "pypi" => Found(name, e.static \cup e.literal) # {}
      /\ in.eco = "npm" => name \in e.static \cup e.literal
      /\ in.eco \in {"go", "nuget"} => UsedIn(name, e)
  BY <1>1, UseIsEvidence
<1>3. in.eco \in {"pypi", "npm", "go", "nuget"}
  BY <1>1 DEF Types, IsScenario
<1>4. PICK i \in DOMAIN in.files : f = in.files[i]
  BY DEF Range
<1>5. f.parses
  BY DEF Uses
<1>6. Judged(d)
  BY DEF Judged
<1>7. Counts(f) => status[d] = "IN_USE"
  <2> SUFFICES ASSUME Counts(f) PROVE Named(d)
    BY <1>6 DEF IInv, InUseInv
  <2>1. Covers(facts, e)
    BY <1>4, <1>5 DEF IInv, ReadInv
  <2> HIDE DEF e
  <2> QED BY <1>2, <1>3, <2>1 DEF Named, Covers, Imported, Found, UsedIn, Direct
<1>8. Weak(f) => status[d] # "SAFE"
  <2> SUFFICES ASSUME Weak(f) PROVE Hinted(d)
    BY <1>6 DEF IInv, HintInv, Hints
  <2>1. Covers(weak, e)
    BY <1>4, <1>5 DEF IInv, ReadInv
  <2> HIDE DEF e
  <2> QED BY <1>2, <1>3, <2>1 DEF Hinted, Covers, Found, UsedIn, Direct
<1> QED BY <1>7, <1>8

\* No use is lost between the files and the report, and nothing after the
\* verdicts takes IN_USE back.
THEOREM NoUseIsLost == Spec => []UsedIsNotSafe
BY UseIsJudged, Invariant, PTL

\* A SAFE transitive is below nothing that may be in use, in the closure that the
\* code computes.
LEMMA OrphansAreJudged == IInv => OrphansAreUnreachable
<1> SUFFICES ASSUME IInv, pc = "done", in.eco = "pypi", in.locked,
                    NEW p \in DOMAIN in.deps, NEW d \in DOMAIN in.deps,
                    Direct(p), status[p] # "SAFE", in.deps[d].transitive,
                    in.deps[d].name # in.deps[p].name, Requires(p, d)
             PROVE  status[d] # "SAFE"
  BY DEF OrphansAreUnreachable
<1>1. IsGraph(in.graph, {x.name : x \in Range(in.deps)})
  BY DEF IInv, Types, IsScenario
<1>2. {in.deps[p].name} \in SUBSET DOMAIN in.graph
  BY <1>1 DEF IsGraph, Range
<1> DEFINE B == Below(in.graph, {in.deps[p].name})
<1>3. /\ B \in SUBSET DOMAIN in.graph /\ in.deps[p].name \in B
      /\ \A n \in B : in.graph[n] \subseteq B
  BY <1>1, <1>2, BelowIsClosed DEF IsGraph
<1>4. in.deps[d].name \in B
  BY <1>3 DEF Requires
<1>5. p \in Parents(d)
  BY <1>4 DEF Parents
<1>6. status[p] \in {"UNCERTAIN", "IN_USE"}
  BY DEF IInv, Types, Status
<1>7. CASE d \in promoted
  BY <1>7 DEF IInv, PromotedInv
<1>8. CASE d \notin promoted
  <2>1. status[d] = Resolved(d)
    BY <1>8 DEF IInv, ResolvedInv
  <2> QED BY <1>5, <1>6, <2>1 DEF Resolved
<1> QED BY <1>7, <1>8

\* What a direct dependency requires at any depth is below it in the closure
\* that the code computes, so a SAFE transitive is one that nothing in use needs.
THEOREM OrphansAreOrphans == Spec => []OrphansAreUnreachable
BY OrphansAreJudged, Invariant, PTL

LEMMA PrefixOfItself ==
  ASSUME NEW p \in Path
  PROVE  Under(p, p) /\ Under(ModuleRoot(p), p)
<1>1. Under(p, p)
  BY DEF Under, IsPrefix, Path
<1>2. CASE Len(p) >= 3
  <2> DEFINE q == SubSeq(p, 1, 3)
  <2>1. q \in Seq(STRING) /\ Len(q) = 3
    BY <1>2, SubSeqProperties DEF Path
  <2>2. SubSeq(q, 1, 3) = q
    BY <2>1, SubSeqFull
  <2>3. ModuleRoot(p) = q
    BY <1>2 DEF ModuleRoot
  <2> HIDE DEF q
  <2>4. Under(q, p) <=> SubSeq(q, 1, 3) = SubSeq(p, 1, 3)
    BY <1>2, <2>1 DEF Under, IsPrefix
  <2> QED BY <1>1, <2>2, <2>3, <2>4 DEF q
<1>3. CASE ~ Len(p) >= 3
  BY <1>1, <1>3 DEF ModuleRoot
<1> QED BY <1>2, <1>3

\* What is reported was read at a site of a file that counts.
LEMMA EntriesAreRead ==
  ASSUME IInv, pc = "done", NEW u \in undeclared
  PROVE  \E f \in Range(in.files) : Counts(f) /\ \E s \in f.sites : u[2] \in ReadAs(f, s)
<1>1. u[2] \in facts.static
  BY DEF IInv, UndeclaredInv
<1>2. PICK f \in Range(in.files) : Counts(f) /\ u[2] \in EvidenceOf(f).static
  BY <1>1 DEF IInv, SourceInv
<1>3. in.eco \in {"pypi", "npm", "go", "nuget"}
  BY DEF IInv, Types, IsScenario
<1>4. CASE in.eco = "pypi"
  BY <1>2, <1>4 DEF EvidenceOf, FactsPython, ImportsPython, Targets, Text, ReadAs
<1>5. CASE in.eco = "npm"
  <2>1. u[2] \in StaticImports(f) \cup Ambient(f)
    BY <1>2, <1>5 DEF EvidenceOf, EvidenceNpm
  <2> QED BY <1>2, <1>5, <2>1 DEF StaticImports, Ambient, Packages, Targets, ReadAs
<1>6. CASE in.eco = "go"
  BY <1>2, <1>6 DEF EvidenceOf, FactsGo, Targets, ReadAs
<1>7. CASE in.eco = "nuget"
  <2>1. CASE f.razor
    <3>1. \/ u[2] \in Targets(f, {"using"})
          \/ \E s \in f.sites : s.form # "using" /\ u[2] = Misread(s.form)
      BY <1>2, <1>7, <2>1 DEF EvidenceOf, FactsCsharp, FactsRazor, NoFacts
    <3> QED BY <1>2, <1>7, <2>1, <3>1 DEF Targets, ReadAs
  <2>2. CASE ~ f.razor
    BY <1>2, <1>7, <2>2 DEF EvidenceOf, FactsCsharp, FactsUsing, Targets, ReadAs
  <2> QED BY <2>1, <2>2
<1> QED BY <1>3, <1>4, <1>5, <1>6, <1>7

\* A dependency that is no stub and that a fact is an import of is in use.
LEMMA NamedIsClaimed ==
  ASSUME IInv, pc = "done", NEW d \in DOMAIN in.deps, Named(d), NEW i, Provides(i, in.deps[d].name)
  PROVE  Claimed(i)
<1>1. Judged(d)
  BY DEF Judged
<1>2. status[d] = "IN_USE"
  BY <1>1 DEF IInv, InUseInv
<1> QED BY <1>2 DEF Claimed

LEMMA AccountedPython ==
  ASSUME IInv, pc = "done", in.eco = "pypi", NEW i \in facts.static,
         Canon[i] = i, ~ IsBuiltin(i), NamesNoStub(i)
  PROVE  Claimed(i) \/ Reported(i)
<1>1. Explained(i)
  BY DEF IInv, UndeclaredInv
<1>2. ASSUME NEW d \in DOMAIN in.deps, Provides(i, in.deps[d].name)
      PROVE  Claimed(i)
  <2>1. ~ in.deps[d].stub
    BY <1>2 DEF NamesNoStub
  <2>2. Matches(i, in.deps[d].name)
    BY <1>2 DEF Provides, Matches
  <2>3. Named(d)
    BY <2>1, <2>2 DEF Named, Imported, Found
  <2> QED BY <1>2, <2>3, NamedIsClaimed
<1>3. ASSUME NEW m \in matched, Canon[i] = Canon[m]
      PROVE  Claimed(i)
  <2>1. PICK d \in DOMAIN in.deps : status[d] = "IN_USE" /\ Owns(in.deps[d].name, m)
    BY DEF IInv, MatchedInv
  <2>2. Provides(i, in.deps[d].name)
    BY <1>3, <2>1 DEF Owns, Matches, Provides
  <2> QED BY <2>1, <2>2 DEF Claimed
<1>4. ASSUME {Canon[i], Distribution(i)} \cap Declared # {}
      PROVE  Claimed(i)
  <2>1. PICK d \in DOMAIN in.deps : in.deps[d].name \in {i, Distribution(i)}
    BY <1>4 DEF Declared
  <2>2. CASE in.deps[d].name = i
    BY <1>2, <2>2 DEF Provides
  <2>3. CASE in.deps[d].name = Distribution(i)
    <3> DEFINE installed == {n \in DOMAIN Installed : i \in Installed[n]}
               aliased == {a[2] : a \in {x \in Aliases : x[1] = Canon[i]}}
    <3>1. CASE installed # {}
      <4>1. Distribution(i) \in installed
        BY <3>1 DEF Distribution
      <4>2. i \in Metadata(in.deps[d].name)
        BY <2>3, <4>1 DEF Metadata
      <4> QED BY <1>2, <4>2 DEF Provides
    <3>2. CASE installed = {} /\ aliased # {}
      <4>1. Distribution(i) \in aliased
        BY <3>2 DEF Distribution
      <4>2. <<i, in.deps[d].name>> \in Aliases
        BY <2>3, <4>1, AliasAssumption
      <4> QED BY <1>2, <4>2 DEF Provides
    <3>3. CASE installed = {} /\ aliased = {}
      BY <1>2, <2>3, <3>3 DEF Provides, Distribution
    <3> QED BY <3>1, <3>2, <3>3
  <2> QED BY <2>1, <2>2, <2>3
<1> QED BY <1>1, <1>3, <1>4 DEF Explained, Reported

LEMMA AccountedNpm ==
  ASSUME IInv, pc = "done", in.eco = "npm", NEW i, NEW p \in Package(i), NotLocal(p),
         p \in facts.static, NamesNoStub(i)
  PROVE  /\ Claimed(i) \/ Reported(i)
         /\ ~ (Claimed(i) /\ Reported(i))
<1>1. \A q \in Package(i) : q = p
  BY DEF Package
<1>2. ASSUME NEW d \in DOMAIN in.deps, in.deps[d].name = p
      PROVE  Claimed(i)
  <2>1. Provides(i, in.deps[d].name)
    BY <1>2 DEF Provides
  <2>2. Named(d)
    BY <1>2, <2>1 DEF NamesNoStub, Named
  <2> QED BY <2>1, <2>2, NamedIsClaimed
<1>3. ASSUME p \in matched PROVE Claimed(i)
  <2>1. PICK d \in DOMAIN in.deps : status[d] = "IN_USE" /\ Owns(in.deps[d].name, p)
    BY <1>3 DEF IInv, MatchedInv
  <2> QED BY <1>2, <2>1 DEF Owns
<1>4. Explained(p) /\ \A u \in undeclared : u[1] \notin Declared
  BY DEF IInv, UndeclaredInv
<1>5. Claimed(i) \/ Reported(i)
  <2>1. CASE p \in matched
    BY <1>3, <2>1
  <2>2. CASE p \in Declared
    BY <1>2, <2>2 DEF Declared
  <2>3. CASE <<p, p>> \in undeclared
    BY <2>3 DEF Reported
  <2> QED BY <1>4, <2>1, <2>2, <2>3 DEF Explained
<1>6. ~ (Claimed(i) /\ Reported(i))
  <2> SUFFICES ASSUME Claimed(i), Reported(i) PROVE FALSE OBVIOUS
  <2>1. PICK d \in DOMAIN in.deps : Provides(i, in.deps[d].name)
    BY DEF Claimed
  <2>2. in.deps[d].name = p
    BY <1>1, <2>1 DEF Provides
  <2>3. PICK u \in undeclared : u[1] = p
    BY <1>1 DEF Reported
  <2> QED BY <1>4, <2>2, <2>3 DEF Declared
<1> QED BY <1>5, <1>6

LEMMA AccountedGo ==
  ASSUME IInv, pc = "done", in.eco = "go", NEW i \in Path, i \in facts.static, ~ IsBuiltin(i)
  PROVE  Claimed(i) \/ Reported(i)
<1>1. Explained(i)
  BY DEF IInv, UndeclaredInv
<1>2. ASSUME NEW n \in {i, ModuleRoot(i)}, NEW d \in DOMAIN in.deps, in.deps[d].name = n
      PROVE  Claimed(i)
  <2>1. Under(n, i)
    BY PrefixOfItself
  <2>2. Provides(i, in.deps[d].name) /\ Named(d)
    BY <1>2, <2>1 DEF Provides, Named, UsedIn
  <2> QED BY <2>2, NamedIsClaimed
<1>3. ASSUME NEW n \in {i, ModuleRoot(i)}, n \in matched \cup Declared
      PROVE  Claimed(i)
  <2>1. CASE n \in matched
    <3>1. PICK d \in DOMAIN in.deps : Owns(in.deps[d].name, n)
      BY <2>1 DEF IInv, MatchedInv
    <3> QED BY <1>2, <3>1 DEF Owns
  <2>2. CASE n \in Declared
    BY <1>2, <2>2 DEF Declared
  <2> QED BY <1>3, <2>1, <2>2
<1> QED BY <1>1, <1>3 DEF Explained, Reported

LEMMA AccountedCsharp ==
  ASSUME IInv, pc = "done", in.eco = "nuget", NEW i \in facts.static, ~ IsBuiltin(i)
  PROVE  /\ Claimed(i) \/ Reported(i)
         /\ ~ (Claimed(i) /\ Reported(i))
<1>1. Explained(i) /\ \A u \in undeclared : ~ \E n \in Declared : Under(n, u[1])
  BY DEF IInv, UndeclaredInv
<1>2. ASSUME NEW d \in DOMAIN in.deps, Under(in.deps[d].name, i)
      PROVE  Claimed(i)
  <2>1. Provides(i, in.deps[d].name) /\ Named(d)
    BY <1>2 DEF Provides, Named, UsedIn
  <2> QED BY <2>1, NamedIsClaimed
<1>3. Claimed(i) \/ Reported(i)
  <2>1. CASE \E n \in Declared : Under(n, i)
    BY <1>2, <2>1 DEF Declared
  <2>2. CASE <<i, i>> \in undeclared
    BY <2>2 DEF Reported
  <2> QED BY <1>1, <2>1, <2>2 DEF Explained
<1>4. ~ (Claimed(i) /\ Reported(i))
  BY <1>1 DEF Claimed, Provides, Reported, Declared
<1> QED BY <1>3, <1>4

\* An import that counts has an owner in use or an entry.
LEMMA ImportsAreJudged == IInv => AccountedFor
<1> SUFFICES ASSUME IInv, pc = "done", NEW f \in Range(in.files), NEW s \in f.sites,
                    f.parses, Counts(f), s.form \in Static, Plain(f, s),
                    ~ IsBuiltin(s.path), NamesNoStub(s.path),
                    in.eco = "npm" => \E p \in Package(s.path) : NotLocal(p)
             PROVE  /\ Claimed(s.path) \/ Reported(s.path)
                    /\ in.eco \in {"npm", "nuget"} => ~ (Claimed(s.path) /\ Reported(s.path))
  BY EntriesAreRead DEF AccountedFor
<1>1. /\ s.path \in Path /\ s.form \in Forms(in.eco)
      /\ in.eco \in {"pypi", "npm", "go", "nuget"}
  BY DEF IInv, Types, IsScenario, IsFile
<1>2. EvidenceOf(f).static \subseteq facts.static
  BY DEF IInv, ReadInv, Range, Covers
<1>3. CASE in.eco = "pypi"
  <2>1. s.form \in {"import", "wildcard"}
    BY <1>1, <1>3 DEF Forms, Static
  <2>2. s.path \in EvidenceOf(f).static
    BY <1>3, <2>1 DEF EvidenceOf, FactsPython, ImportsPython, Targets, Text
  <2>3. Canon[s.path] = s.path
    BY <1>3 DEF Plain
  <2> QED BY <1>2, <1>3, <2>2, <2>3, AccountedPython
<1>4. CASE in.eco = "npm"
  <2>1. s.form = "import"
    BY <1>1, <1>4 DEF Forms, Static
  <2>2. PICK p \in Package(s.path) : NotLocal(p)
    BY <1>4
  <2>3. p \in EvidenceOf(f).static
    BY <1>4, <2>1, <2>2 DEF EvidenceOf, EvidenceNpm, StaticImports, Packages, Targets
  <2> QED BY <1>2, <1>4, <2>2, <2>3, AccountedNpm
<1>5. CASE in.eco = "go"
  <2>1. s.form \in {"import", "blank"}
    BY <1>1, <1>5 DEF Forms
  <2>2. s.path \in EvidenceOf(f).static
    BY <1>5, <2>1 DEF EvidenceOf, FactsGo, Targets
  <2> QED BY <1>1, <1>2, <1>5, <2>2, AccountedGo
<1>6. CASE in.eco = "nuget"
  <2>1. s.form \in {"using", "using static", "using alias"} /\ (f.razor => s.form = "using")
    BY <1>1, <1>6 DEF Forms, Plain
  <2>2. s.path \in EvidenceOf(f).static
    BY <1>6, <2>1 DEF EvidenceOf, FactsCsharp, FactsRazor, FactsUsing, NoFacts, Targets
  <2> QED BY <1>2, <1>6, <2>2, AccountedCsharp
<1> QED BY <1>1, <1>3, <1>4, <1>5, <1>6

\* Every static import that counts has an owner in use or an entry, and every
\* entry an import.
THEOREM ImportsAreAccountedFor == Spec => []AccountedFor
BY ImportsAreJudged, Invariant, PTL

-----------------------------------------------------------------------------
(* Folds. *)

\* Induction over the first numbers.
LEMMA UpTo ==
  ASSUME NEW n \in Nat, NEW S, 0 \in S, \A i \in 1..n : i - 1 \in S => i \in S
  PROVE  \A i \in 0..n : i \in S
<1> DEFINE Bad == {i \in 0..n : i \notin S}
<1> SUFFICES ASSUME Bad # {} PROVE FALSE OBVIOUS
<1>0. Bad \in SUBSET Nat OBVIOUS
<1>1. PICK i \in Bad : \A m \in Bad : i <= m
  <2> HIDE DEF Bad
  <2> QED BY <1>0, LeastNumber
<1>2. i \in 1..n /\ i - 1 \in 0..n /\ ~ i <= i - 1
  <2>1. i \in 0..n /\ i # 0 OBVIOUS
  <2> QED BY <2>1
<1>3. i - 1 \in S
  BY <1>1, <1>2
<1> QED BY <1>2, <1>3

\* The greatest number of a set of the first ones.
LEMMA GreatestUpTo ==
  ASSUME NEW n \in Nat, NEW s \in SUBSET (1..(n + 1)), n + 1 \in s
  PROVE  Max(s) = n + 1 /\ s \ {n + 1} \in SUBSET (1..n)
<1>1. \A x \in s : n + 1 >= x OBVIOUS
<1>2. \A x \in s : (\A y \in s : x >= y) => x = n + 1
  BY <1>1
<1>3. Max(s) = n + 1
  <2>1. \E x \in s : \A y \in s : x >= y
    BY <1>1
  <2>2. Max(s) \in s /\ \A y \in s : Max(s) >= y
    BY <2>1 DEF Max
  <2> QED BY <1>2, <2>2
<1> QED BY <1>3

LEMMA GreatestBelow ==
  ASSUME NEW n \in Nat, NEW s \in SUBSET (1..n), s # {}
  PROVE  Max(s) \in s
<1> DEFINE T == {n - x : x \in s}
<1>1. T \in SUBSET Nat
  <2>1. \A x \in s : n - x \in Nat OBVIOUS
  <2> QED BY <2>1
<1>2. PICK t \in T : \A m \in T : t <= m
  <2>1. T # {} OBVIOUS
  <2> HIDE DEF T
  <2> QED BY <1>1, <2>1, LeastNumber
<1>3. PICK x \in s : t = n - x
  BY <1>2
<1>4. \A y \in s : n - y \in T OBVIOUS
<1>5. \A y \in s : t <= n - y
  <2> HIDE DEF T
  <2> QED BY <1>2, <1>4
<1>6. \A y \in s : x >= y
  <2> SUFFICES ASSUME NEW y \in s PROVE x >= y OBVIOUS
  <2>1. x \in Nat /\ y \in Nat /\ n - x <= n - y
    BY <1>3, <1>5
  <2> QED BY <2>1
<1> QED BY <1>3, <1>6 DEF Max

\* A fold is well-defined: there is a function that satisfies its recursion.
LEMMA FoldExists ==
  ASSUME NEW kind, NEW base, NEW seq, NEW n \in Nat
  PROVE  \E it : IsFold(kind, base, seq, n, it)
<1> DEFINE Rec(f, s) == IF s = {} THEN base ELSE FoldStep(kind, f[s \ {Max(s)}], seq[Max(s)])
           Good(i, f) == f = [s \in SUBSET (1..i) |-> Rec(f, s)]
           S == {i \in Nat : \E f : Good(i, f)}
<1>1. 0 \in S
  <2> DEFINE f == [s \in SUBSET (1..0) |-> base]
  <2>1. \A s \in SUBSET (1..0) : s = {} OBVIOUS
  <2>2. Good(0, f)
    BY <2>1
  <2> QED BY <2>2
<1>2. ASSUME NEW i \in 1..n, i - 1 \in S
      PROVE  i \in S
  <2> DEFINE j == i - 1
  <2>1. j \in Nat /\ j + 1 = i OBVIOUS
  <2>2. PICK f : Good(j, f)
    BY <1>2
  <2> HIDE DEF j
  <2>3. \A s \in SUBSET (1..j) : f[s] = Rec(f, s)
    BY <2>2
  <2> HIDE DEF Good
  <2> DEFINE g == [s \in SUBSET (1..i) |->
                     IF i \in s THEN FoldStep(kind, f[s \ {i}], seq[i]) ELSE f[s]]
  <2>4. ASSUME NEW s \in SUBSET (1..i)
        PROVE  g[s] = Rec(g, s)
    <3>1. CASE i \in s
      <4>1. Max(s) = i /\ s \ {i} \in SUBSET (1..j) /\ s \ {i} \in SUBSET (1..i) /\ i \notin s \ {i}
        BY <2>1, <3>1, GreatestUpTo
      <4>2. g[s \ {i}] = f[s \ {i}] /\ s # {}
        BY <3>1, <4>1
      <4> HIDE DEF g
      <4>3. g[s] = FoldStep(kind, f[s \ {i}], seq[i])
        BY <3>1 DEF g
      <4> QED BY <4>1, <4>2, <4>3
    <3>2. CASE i \notin s
      <4>1. s \in SUBSET (1..j)
        BY <2>1, <3>2
      <4>2. s # {} => Max(s) \in s
        BY <2>1, <4>1, GreatestBelow
      <4>3. /\ s \ {Max(s)} \in SUBSET (1..i) /\ i \notin s \ {Max(s)}
        BY <3>2
      <4>4. g[s \ {Max(s)}] = f[s \ {Max(s)}] /\ g[s] = f[s]
        BY <3>2, <4>3
      <4> HIDE DEF g
      <4> QED BY <2>3, <4>1, <4>4
    <3> QED BY <3>1, <3>2
  <2>5. Good(i, g)
    <3> HIDE DEF Rec
    <3> QED BY <2>4 DEF Good
  <2> QED BY <2>1, <2>5
<1> HIDE DEF Good
<1>3. \A i \in 0..n : i \in S
  <2> HIDE DEF S
  <2> QED BY <1>1, <1>2, UpTo
<1>4. PICK f : Good(n, f)
  BY <1>3
<1>5. IsFold(kind, base, seq, n, f)
  BY <1>4 DEF Good, IsFold
<1> QED BY <1>5

\* A fold of a sequence goes through the sequence.
LEMMA FoldRuns ==
  ASSUME NEW kind, NEW base, NEW seq, NEW n \in Nat,
         NEW it, IsFold(kind, base, seq, n, it)
  PROVE  \E m : IsRun(kind, base, seq, n, m) /\ it[1..n] = m[n]
<1> DEFINE m == [i \in 0..n |-> it[1..i]]
<1>1. it[1..0] = base
  <2>1. 1..0 = {} /\ {} \in SUBSET (1..n) OBVIOUS
  <2>2. it[{}] = base
    BY <2>1 DEF IsFold
  <2> QED BY <2>1, <2>2
<1>2. ASSUME NEW i \in 1..n
      PROVE  it[1..i] = FoldStep(kind, it[1..(i - 1)], seq[i])
  <2>1. 1..i \in SUBSET (1..n) /\ 1..i # {} /\ (1..i) \ {i} = 1..(i - 1) /\ i - 1 \in Nat /\ (i - 1) + 1 = i
    OBVIOUS
  <2>2. Max(1..i) = i
    <3> DEFINE j == i - 1
    <3>1. j \in Nat /\ j + 1 = i /\ 1..i \in SUBSET (1..(j + 1)) /\ j + 1 \in 1..i
      BY <2>1
    <3> HIDE DEF j
    <3>2. Max(1..i) = j + 1
      BY <3>1, GreatestUpTo
    <3> QED BY <3>1, <3>2
  <2> QED BY <2>1, <2>2 DEF IsFold
<1>3. /\ 0 \in 0..n /\ n \in 0..n
      /\ \A i \in 1..n : i \in 0..n /\ i - 1 \in 0..n
  OBVIOUS
<1>4. m[0] = base /\ it[1..n] = m[n]
  BY <1>1, <1>3
<1>5. \A i \in 1..n : m[i] = FoldStep(kind, m[i - 1], seq[i])
  BY <1>2, <1>3
<1> QED BY <1>4, <1>5 DEF IsRun

\* Each of the folds, step by step: m[i] is made of the first i elements.
LEMMA FoldPython ==
  ASSUME NEW seq, seq \in Seq(Range(seq)), NEW base
  PROVE  \E m : /\ m[0] = base /\ \A i \in 1..Len(seq) : m[i] = MergePython(m[i - 1], seq[i])
                /\ FoldLeft(MergePython, base, seq) = m[Len(seq)]
<1> DEFINE n == Len(seq)
           Is(f) == f = [s \in SUBSET (1..n) |->
                          IF s = {} THEN base ELSE MergePython(f[s \ {Max(s)}], seq[Max(s)])]
           it == CHOOSE f : Is(f)
<1>1. n \in Nat /\ DOMAIN seq = 1..n OBVIOUS
<1>2. FoldLeft(MergePython, base, seq) = it[1..n]
  BY <1>1 DEF FoldLeft, MapThenFoldSet
<1>3. \E f : Is(f)
  <2>1. PICK f : IsFold("python", base, seq, n, f)
    <3> HIDE DEF n
    <3> QED BY <1>1, FoldExists
  <2>2. \A s \in SUBSET (1..n) :
          f[s] = IF s = {} THEN base ELSE MergePython(f[s \ {Max(s)}], seq[Max(s)])
    BY <2>1 DEF IsFold, FoldStep
  <2>3. Is(f)
    BY <2>1, <2>2 DEF IsFold
  <2> QED BY <2>3
<1>4. Is(it)
  <2> HIDE DEF Is
  <2> QED BY <1>3
<1> HIDE DEF it
<1>5. IsFold("python", base, seq, n, it)
  BY <1>4 DEF IsFold, FoldStep
<1>6. PICK m : IsRun("python", base, seq, n, m) /\ it[1..n] = m[n]
  <2> HIDE DEF n
  <2> QED BY <1>1, <1>5, FoldRuns
<1>7. m[0] = base /\ \A i \in 1..n : m[i] = MergePython(m[i - 1], seq[i])
  BY <1>6 DEF IsRun, FoldStep
<1> QED BY <1>2, <1>6, <1>7

\* The same for MergeNpm.
LEMMA FoldNpm ==
  ASSUME NEW seq, seq \in Seq(Range(seq)), NEW base
  PROVE  \E m : /\ m[0] = base /\ \A i \in 1..Len(seq) : m[i] = MergeNpm(m[i - 1], seq[i])
                /\ FoldLeft(MergeNpm, base, seq) = m[Len(seq)]
<1> DEFINE n == Len(seq)
           Is(f) == f = [s \in SUBSET (1..n) |->
                          IF s = {} THEN base ELSE MergeNpm(f[s \ {Max(s)}], seq[Max(s)])]
           it == CHOOSE f : Is(f)
<1>1. n \in Nat /\ DOMAIN seq = 1..n OBVIOUS
<1>2. FoldLeft(MergeNpm, base, seq) = it[1..n]
  BY <1>1 DEF FoldLeft, MapThenFoldSet
<1>3. \E f : Is(f)
  <2>1. PICK f : IsFold("npm", base, seq, n, f)
    <3> HIDE DEF n
    <3> QED BY <1>1, FoldExists
  <2>2. \A s \in SUBSET (1..n) :
          f[s] = IF s = {} THEN base ELSE MergeNpm(f[s \ {Max(s)}], seq[Max(s)])
    BY <2>1 DEF IsFold, FoldStep
  <2>3. Is(f)
    BY <2>1, <2>2 DEF IsFold
  <2> QED BY <2>3
<1>4. Is(it)
  <2> HIDE DEF Is
  <2> QED BY <1>3
<1> HIDE DEF it
<1>5. IsFold("npm", base, seq, n, it)
  BY <1>4 DEF IsFold, FoldStep
<1>6. PICK m : IsRun("npm", base, seq, n, m) /\ it[1..n] = m[n]
  <2> HIDE DEF n
  <2> QED BY <1>1, <1>5, FoldRuns
<1>7. m[0] = base /\ \A i \in 1..n : m[i] = MergeNpm(m[i - 1], seq[i])
  BY <1>6 DEF IsRun, FoldStep
<1> QED BY <1>2, <1>6, <1>7

\* The same for MergeGo.
LEMMA FoldGo ==
  ASSUME NEW seq, seq \in Seq(Range(seq)), NEW base
  PROVE  \E m : /\ m[0] = base /\ \A i \in 1..Len(seq) : m[i] = MergeGo(m[i - 1], seq[i])
                /\ FoldLeft(MergeGo, base, seq) = m[Len(seq)]
<1> DEFINE n == Len(seq)
           Is(f) == f = [s \in SUBSET (1..n) |->
                          IF s = {} THEN base ELSE MergeGo(f[s \ {Max(s)}], seq[Max(s)])]
           it == CHOOSE f : Is(f)
<1>1. n \in Nat /\ DOMAIN seq = 1..n OBVIOUS
<1>2. FoldLeft(MergeGo, base, seq) = it[1..n]
  BY <1>1 DEF FoldLeft, MapThenFoldSet
<1>3. \E f : Is(f)
  <2>1. PICK f : IsFold("go", base, seq, n, f)
    <3> HIDE DEF n
    <3> QED BY <1>1, FoldExists
  <2>2. \A s \in SUBSET (1..n) :
          f[s] = IF s = {} THEN base ELSE MergeGo(f[s \ {Max(s)}], seq[Max(s)])
    BY <2>1 DEF IsFold, FoldStep
  <2>3. Is(f)
    BY <2>1, <2>2 DEF IsFold
  <2> QED BY <2>3
<1>4. Is(it)
  <2> HIDE DEF Is
  <2> QED BY <1>3
<1> HIDE DEF it
<1>5. IsFold("go", base, seq, n, it)
  BY <1>4 DEF IsFold, FoldStep
<1>6. PICK m : IsRun("go", base, seq, n, m) /\ it[1..n] = m[n]
  <2> HIDE DEF n
  <2> QED BY <1>1, <1>5, FoldRuns
<1>7. m[0] = base /\ \A i \in 1..n : m[i] = MergeGo(m[i - 1], seq[i])
  BY <1>6 DEF IsRun, FoldStep
<1> QED BY <1>2, <1>6, <1>7

\* The same for GoModLine.
LEMMA FoldGoMod ==
  ASSUME NEW seq, seq \in Seq(Range(seq)), NEW base
  PROVE  \E m : /\ m[0] = base /\ \A i \in 1..Len(seq) : m[i] = GoModLine(m[i - 1], seq[i])
                /\ FoldLeft(GoModLine, base, seq) = m[Len(seq)]
<1> DEFINE n == Len(seq)
           Is(f) == f = [s \in SUBSET (1..n) |->
                          IF s = {} THEN base ELSE GoModLine(f[s \ {Max(s)}], seq[Max(s)])]
           it == CHOOSE f : Is(f)
<1>1. n \in Nat /\ DOMAIN seq = 1..n OBVIOUS
<1>2. FoldLeft(GoModLine, base, seq) = it[1..n]
  BY <1>1 DEF FoldLeft, MapThenFoldSet
<1>3. \E f : Is(f)
  <2>1. PICK f : IsFold("go.mod", base, seq, n, f)
    <3> HIDE DEF n
    <3> QED BY <1>1, FoldExists
  <2>2. \A s \in SUBSET (1..n) :
          f[s] = IF s = {} THEN base ELSE GoModLine(f[s \ {Max(s)}], seq[Max(s)])
    BY <2>1 DEF IsFold, FoldStep
  <2>3. Is(f)
    BY <2>1, <2>2 DEF IsFold
  <2> QED BY <2>3
<1>4. Is(it)
  <2> HIDE DEF Is
  <2> QED BY <1>3
<1> HIDE DEF it
<1>5. IsFold("go.mod", base, seq, n, it)
  BY <1>4 DEF IsFold, FoldStep
<1>6. PICK m : IsRun("go.mod", base, seq, n, m) /\ it[1..n] = m[n]
  <2> HIDE DEF n
  <2> QED BY <1>1, <1>5, FoldRuns
<1>7. m[0] = base /\ \A i \in 1..n : m[i] = GoModLine(m[i - 1], seq[i])
  BY <1>6 DEF IsRun, FoldStep
<1> QED BY <1>2, <1>6, <1>7

\* The same for AddNew.
LEMMA FoldNew ==
  ASSUME NEW seq, seq \in Seq(Range(seq)), NEW base
  PROVE  \E m : /\ m[0] = base /\ \A i \in 1..Len(seq) : m[i] = AddNew(m[i - 1], seq[i])
                /\ FoldLeft(AddNew, base, seq) = m[Len(seq)]
<1> DEFINE n == Len(seq)
           Is(f) == f = [s \in SUBSET (1..n) |->
                          IF s = {} THEN base ELSE AddNew(f[s \ {Max(s)}], seq[Max(s)])]
           it == CHOOSE f : Is(f)
<1>1. n \in Nat /\ DOMAIN seq = 1..n OBVIOUS
<1>2. FoldLeft(AddNew, base, seq) = it[1..n]
  BY <1>1 DEF FoldLeft, MapThenFoldSet
<1>3. \E f : Is(f)
  <2>1. PICK f : IsFold("new", base, seq, n, f)
    <3> HIDE DEF n
    <3> QED BY <1>1, FoldExists
  <2>2. \A s \in SUBSET (1..n) :
          f[s] = IF s = {} THEN base ELSE AddNew(f[s \ {Max(s)}], seq[Max(s)])
    BY <2>1 DEF IsFold, FoldStep
  <2>3. Is(f)
    BY <2>1, <2>2 DEF IsFold
  <2> QED BY <2>3
<1>4. Is(it)
  <2> HIDE DEF Is
  <2> QED BY <1>3
<1> HIDE DEF it
<1>5. IsFold("new", base, seq, n, it)
  BY <1>4 DEF IsFold, FoldStep
<1>6. PICK m : IsRun("new", base, seq, n, m) /\ it[1..n] = m[n]
  <2> HIDE DEF n
  <2> QED BY <1>1, <1>5, FoldRuns
<1>7. m[0] = base /\ \A i \in 1..n : m[i] = AddNew(m[i - 1], seq[i])
  BY <1>6 DEF IsRun, FoldStep
<1> QED BY <1>2, <1>6, <1>7

\* The same for Resolve.
LEMMA FoldLock ==
  ASSUME NEW seq, seq \in Seq(Range(seq)), NEW base
  PROVE  \E m : /\ m[0] = base /\ \A i \in 1..Len(seq) : m[i] = Resolve(m[i - 1], seq[i])
                /\ FoldLeft(Resolve, base, seq) = m[Len(seq)]
<1> DEFINE n == Len(seq)
           Is(f) == f = [s \in SUBSET (1..n) |->
                          IF s = {} THEN base ELSE Resolve(f[s \ {Max(s)}], seq[Max(s)])]
           it == CHOOSE f : Is(f)
<1>1. n \in Nat /\ DOMAIN seq = 1..n OBVIOUS
<1>2. FoldLeft(Resolve, base, seq) = it[1..n]
  BY <1>1 DEF FoldLeft, MapThenFoldSet
<1>3. \E f : Is(f)
  <2>1. PICK f : IsFold("lock", base, seq, n, f)
    <3> HIDE DEF n
    <3> QED BY <1>1, FoldExists
  <2>2. \A s \in SUBSET (1..n) :
          f[s] = IF s = {} THEN base ELSE Resolve(f[s \ {Max(s)}], seq[Max(s)])
    BY <2>1 DEF IsFold, FoldStep
  <2>3. Is(f)
    BY <2>1, <2>2 DEF IsFold
  <2> QED BY <2>3
<1>4. Is(it)
  <2> HIDE DEF Is
  <2> QED BY <1>3
<1> HIDE DEF it
<1>5. IsFold("lock", base, seq, n, it)
  BY <1>4 DEF IsFold, FoldStep
<1>6. PICK m : IsRun("lock", base, seq, n, m) /\ it[1..n] = m[n]
  <2> HIDE DEF n
  <2> QED BY <1>1, <1>5, FoldRuns
<1>7. m[0] = base /\ \A i \in 1..n : m[i] = Resolve(m[i - 1], seq[i])
  BY <1>6 DEF IsRun, FoldStep
<1> QED BY <1>2, <1>6, <1>7

\* The same for YarnV1Line.
LEMMA FoldYarn ==
  ASSUME NEW seq, seq \in Seq(Range(seq)), NEW base
  PROVE  \E m : /\ m[0] = base /\ \A i \in 1..Len(seq) : m[i] = YarnV1Line(m[i - 1], seq[i])
                /\ FoldLeft(YarnV1Line, base, seq) = m[Len(seq)]
<1> DEFINE n == Len(seq)
           Is(f) == f = [s \in SUBSET (1..n) |->
                          IF s = {} THEN base ELSE YarnV1Line(f[s \ {Max(s)}], seq[Max(s)])]
           it == CHOOSE f : Is(f)
<1>1. n \in Nat /\ DOMAIN seq = 1..n OBVIOUS
<1>2. FoldLeft(YarnV1Line, base, seq) = it[1..n]
  BY <1>1 DEF FoldLeft, MapThenFoldSet
<1>3. \E f : Is(f)
  <2>1. PICK f : IsFold("yarn", base, seq, n, f)
    <3> HIDE DEF n
    <3> QED BY <1>1, FoldExists
  <2>2. \A s \in SUBSET (1..n) :
          f[s] = IF s = {} THEN base ELSE YarnV1Line(f[s \ {Max(s)}], seq[Max(s)])
    BY <2>1 DEF IsFold, FoldStep
  <2>3. Is(f)
    BY <2>1, <2>2 DEF IsFold
  <2> QED BY <2>3
<1>4. Is(it)
  <2> HIDE DEF Is
  <2> QED BY <1>3
<1> HIDE DEF it
<1>5. IsFold("yarn", base, seq, n, it)
  BY <1>4 DEF IsFold, FoldStep
<1>6. PICK m : IsRun("yarn", base, seq, n, m) /\ it[1..n] = m[n]
  <2> HIDE DEF n
  <2> QED BY <1>1, <1>5, FoldRuns
<1>7. m[0] = base /\ \A i \in 1..n : m[i] = YarnV1Line(m[i - 1], seq[i])
  BY <1>6 DEF IsRun, FoldStep
<1> QED BY <1>2, <1>6, <1>7

\* The same for PipWord.
LEMMA FoldPip ==
  ASSUME NEW seq, seq \in Seq(Range(seq)), NEW base
  PROVE  \E m : /\ m[0] = base /\ \A i \in 1..Len(seq) : m[i] = PipWord(m[i - 1], seq[i])
                /\ FoldLeft(PipWord, base, seq) = m[Len(seq)]
<1> DEFINE n == Len(seq)
           Is(f) == f = [s \in SUBSET (1..n) |->
                          IF s = {} THEN base ELSE PipWord(f[s \ {Max(s)}], seq[Max(s)])]
           it == CHOOSE f : Is(f)
<1>1. n \in Nat /\ DOMAIN seq = 1..n OBVIOUS
<1>2. FoldLeft(PipWord, base, seq) = it[1..n]
  BY <1>1 DEF FoldLeft, MapThenFoldSet
<1>3. \E f : Is(f)
  <2>1. PICK f : IsFold("pip", base, seq, n, f)
    <3> HIDE DEF n
    <3> QED BY <1>1, FoldExists
  <2>2. \A s \in SUBSET (1..n) :
          f[s] = IF s = {} THEN base ELSE PipWord(f[s \ {Max(s)}], seq[Max(s)])
    BY <2>1 DEF IsFold, FoldStep
  <2>3. Is(f)
    BY <2>1, <2>2 DEF IsFold
  <2> QED BY <2>3
<1>4. Is(it)
  <2> HIDE DEF Is
  <2> QED BY <1>3
<1> HIDE DEF it
<1>5. IsFold("pip", base, seq, n, it)
  BY <1>4 DEF IsFold, FoldStep
<1>6. PICK m : IsRun("pip", base, seq, n, m) /\ it[1..n] = m[n]
  <2> HIDE DEF n
  <2> QED BY <1>1, <1>5, FoldRuns
<1>7. m[0] = base /\ \A i \in 1..n : m[i] = PipWord(m[i - 1], seq[i])
  BY <1>6 DEF IsRun, FoldStep
<1> QED BY <1>2, <1>6, <1>7

-----------------------------------------------------------------------------
(* Sequences that are flattened or filtered. *)

\* A concatenation of sequences is made from the left, one after the other.
LEMMA FlattenUnfolds ==
  ASSUME NEW X, NEW seqs \in Seq(Seq(X)), seqs # <<>>
  PROVE  \E flat :
           /\ flat[1] = seqs[1]
           /\ \A i \in 2..Len(seqs) : flat[i] = flat[i - 1] \o seqs[i]
           /\ \A i \in 1..Len(seqs) : flat[i] \in Seq(X)
           /\ FlattenSeq(seqs) = flat[Len(seqs)]
<1> DEFINE L == Len(seqs)
           Rec(f, i) == IF i = 1 THEN seqs[i] ELSE f[i - 1] \o seqs[i]
           Good(n, f) == f = [i \in 1..n |-> Rec(f, i)]
           flat == CHOOSE f : Good(L, f)
           Bad == {n \in Nat : n > 0 /\ ~ \E f : Good(n, f)}
<1>1. Bad = {}
  <2> SUFFICES ASSUME Bad # {} PROVE FALSE OBVIOUS
  <2>1. PICK n \in Bad : \A m \in Bad : n <= m
    BY LeastNumber
  <2>2. n # 1
    <3>1. [i \in 1..1 |-> seqs[1]] = [i \in 1..1 |-> Rec([j \in 1..1 |-> seqs[1]], i)] OBVIOUS
    <3> QED BY <3>1
  <2>3. n \in Nat /\ n > 0 /\ n - 1 \in Nat /\ n - 1 > 0 /\ ~ n <= n - 1
    <3>1. n \in Nat /\ n > 0 OBVIOUS
    <3> QED BY <2>2, <3>1
  <2>4. n - 1 \notin Bad
    BY <2>1, <2>3
  <2>5. PICK f : Good(n - 1, f)
    <3> HIDE DEF Good
    <3> QED BY <2>3, <2>4
  <2> DEFINE g == [i \in 1..n |-> IF i = n THEN f[n - 1] \o seqs[n] ELSE f[i]]
  <2>6. \A i \in 1..(n - 1) : f[i] = Rec(f, i)
    BY <2>5
  <2>7. \A i \in 1..n : g[i] = Rec(g, i)
    BY <2>1, <2>2, <2>3, <2>6
  <2>8. Good(n, g)
    <3> HIDE DEF Rec
    <3> QED BY <2>7
  <2> QED BY <2>1, <2>8
<1>2. L \in Nat /\ L > 0 OBVIOUS
<1>3. Good(L, flat)
  BY <1>1, <1>2
<1>4. FlattenSeq(seqs) = flat[L]
  BY <1>2 DEF FlattenSeq
<1> HIDE DEF flat
<1>5. \A i \in 1..L : flat[i] = Rec(flat, i)
  BY <1>3
<1> DEFINE Off == {i \in 1..L : flat[i] \notin Seq(X)}
<1>6. Off = {}
  <2> SUFFICES ASSUME Off # {} PROVE FALSE OBVIOUS
  <2>1. Off \in SUBSET Nat
    BY <1>2
  <2> HIDE DEF Off
  <2>2. PICK i \in Off : \A m \in Off : i <= m
    BY <2>1, LeastNumber
  <2>3. i \in 1..L /\ seqs[i] \in Seq(X) /\ flat[i] \notin Seq(X)
    BY <2>2 DEF Off
  <2>4. i # 1
    BY <1>5, <2>3
  <2>5. i - 1 \in 1..L /\ ~ i <= i - 1
    BY <1>2, <2>3, <2>4
  <2>6. i - 1 \notin Off
    BY <2>2, <2>5
  <2>7. flat[i - 1] \in Seq(X)
    BY <2>5, <2>6 DEF Off
  <2>8. flat[i] = flat[i - 1] \o seqs[i]
    BY <1>5, <2>3, <2>4
  <2>9. flat[i - 1] \o seqs[i] \in Seq(X)
    BY <2>3, <2>7
  <2> QED BY <2>3, <2>8, <2>9
<1>7. 1 \in 1..L /\ \A i \in 2..L : i \in 1..L /\ i # 1
  BY <1>2
<1>8. flat[1] = seqs[1] /\ \A i \in 2..L : flat[i] = flat[i - 1] \o seqs[i]
  BY <1>5, <1>7
<1> QED BY <1>4, <1>6, <1>8

\* What a concatenation holds.
LEMMA RangeOfConcat ==
  ASSUME NEW X, NEW s \in Seq(X), NEW t \in Seq(X)
  PROVE  s \o t \in Seq(X) /\ Range(s \o t) = Range(s) \cup Range(t)
<1>1. s \o t \in Seq(X) OBVIOUS
<1>2. /\ DOMAIN s = 1..Len(s) /\ DOMAIN t = 1..Len(t) /\ DOMAIN (s \o t) = 1..(Len(s) + Len(t))
      /\ Len(s) \in Nat /\ Len(t) \in Nat
  OBVIOUS
<1>3. /\ \A i \in 1..Len(s) : (s \o t)[i] = s[i] /\ i \in 1..(Len(s) + Len(t))
      /\ \A i \in 1..Len(t) : (s \o t)[Len(s) + i] = t[i] /\ Len(s) + i \in 1..(Len(s) + Len(t))
  BY <1>2
<1>4. \A i \in 1..(Len(s) + Len(t)) : (s \o t)[i] \in Range(s) \cup Range(t)
  <2>1. \A i \in 1..(Len(s) + Len(t)) :
           IF i <= Len(s) THEN i \in 1..Len(s) ELSE i - Len(s) \in 1..Len(t) /\ Len(s) + (i - Len(s)) = i
    BY <1>2
  <2> QED BY <1>2, <1>3, <2>1 DEF Range
<1>5. Range(s) \cup Range(t) \subseteq Range(s \o t)
  BY <1>2, <1>3 DEF Range
<1>6. Range(s \o t) \subseteq Range(s) \cup Range(t)
  BY <1>2, <1>4 DEF Range
<1> QED BY <1>1, <1>5, <1>6

LEMMA SeqFacts ==
  ASSUME NEW s
  PROVE  /\ IsSeq(s) => DOMAIN s = 1..Len(s) /\ Len(s) \in Nat
         /\ \A X : s \in Seq(X) => IsSeq(s) /\ Range(s) \subseteq X
         /\ \A X : IsSeq(s) /\ Range(s) \subseteq X => s \in Seq(X)
         /\ \A n \in Nat : s = [i \in 1..n |-> s[i]] => IsSeq(s) /\ Len(s) = n
         /\ \A i \in DOMAIN s : s[i] \in Range(s)
         /\ \A x \in Range(s) : \E i \in DOMAIN s : s[i] = x
<1>1. IsSeq(s) => DOMAIN s = 1..Len(s) /\ Len(s) \in Nat
  BY DEF IsSeq
<1>2. ASSUME NEW X, s \in Seq(X) PROVE IsSeq(s) /\ Range(s) \subseteq X
  <2>1. \E n \in Nat : s \in [1..n -> X]
    BY <1>2
  <2>2. s \in Seq(Range(s))
    BY <1>2 DEF Range
  <2> QED BY <2>1, <2>2 DEF IsSeq, Range
<1>3. ASSUME NEW X, IsSeq(s), Range(s) \subseteq X PROVE s \in Seq(X)
  BY <1>3 DEF IsSeq
<1>4. ASSUME NEW n \in Nat, s = [i \in 1..n |-> s[i]] PROVE IsSeq(s) /\ Len(s) = n
  BY <1>4 DEF IsSeq, Range
<1> QED BY <1>1, <1>2, <1>3, <1>4 DEF Range

\* What a concatenation of many holds.
LEMMA RangeOfFlatten ==
  ASSUME NEW R, NEW n \in Nat, DOMAIN R = 1..n, R = [i \in 1..n |-> R[i]],
         \A i \in 1..n : IsSeq(R[i])
  PROVE  /\ IsSeq(FlattenSeq(R))
         /\ Range(FlattenSeq(R)) = UNION {Range(R[i]) : i \in 1..n}
<1> DEFINE X == UNION {Range(R[i]) : i \in 1..n}
<1>1. R \in Seq(Seq(X)) /\ Len(R) = n
  <2>1. \A i \in 1..n : R[i] \in Seq(X)
    <3> SUFFICES ASSUME NEW i \in 1..n PROVE R[i] \in Seq(X) OBVIOUS
    <3>1. Range(R[i]) \subseteq X OBVIOUS
    <3> HIDE DEF X
    <3> QED BY <3>1, SeqFacts
  <2> HIDE DEF X
  <2> QED BY <2>1
<1>2. CASE n = 0
  <2>1. FlattenSeq(R) = R /\ R = <<>>
    BY <1>1, <1>2 DEF FlattenSeq
  <2>2. Range(R) = {} /\ X = {}
    BY <1>2 DEF Range
  <2>3. IsSeq(R)
    <3>1. \A Y : <<>> \in Seq(Y) OBVIOUS
    <3> QED BY <2>1, <3>1 DEF IsSeq
  <2> QED BY <2>1, <2>2, <2>3
<1>3. CASE n # 0
  <2>1. R # <<>>
    BY <1>1, <1>3
  <2>2. PICK flat :
           /\ flat[1] = R[1]
           /\ \A i \in 2..n : flat[i] = flat[i - 1] \o R[i]
           /\ \A i \in 1..n : flat[i] \in Seq(X)
           /\ FlattenSeq(R) = flat[n]
    <3> HIDE DEF X
    <3>1. \E flat :
           /\ flat[1] = R[1]
           /\ \A i \in 2..Len(R) : flat[i] = flat[i - 1] \o R[i]
           /\ \A i \in 1..Len(R) : flat[i] \in Seq(X)
           /\ FlattenSeq(R) = flat[Len(R)]
      BY <1>1, <2>1, FlattenUnfolds
    <3> QED BY <1>1, <3>1
  <2> DEFINE Upto(i) == UNION {Range(R[j]) : j \in 1..i}
             S == {0} \cup {i \in 1..n : Range(flat[i]) = Upto(i)}
  <2>3. ASSUME NEW i \in 1..n, i - 1 \in S
        PROVE  i \in S
    <3>1. CASE i = 1
      <4>1. Upto(1) = Range(R[1]) OBVIOUS
      <4> QED BY <2>2, <3>1, <4>1
    <3>2. CASE i # 1
      <4>1. i \in 2..n /\ i - 1 \in 1..n /\ i - 1 # 0
        BY <3>2
      <4>2. Range(flat[i - 1]) = Upto(i - 1)
        BY <2>3, <4>1
      <4>3. flat[i - 1] \in Seq(X) /\ R[i] \in Seq(X) /\ flat[i] = flat[i - 1] \o R[i]
        <5> HIDE DEF X
        <5>1. \A j \in 1..n : R[j] \in Seq(X)
          BY <1>1
        <5> QED BY <2>2, <4>1, <5>1
      <4>4. Range(flat[i]) = Range(flat[i - 1]) \cup Range(R[i])
        <5> HIDE DEF X
        <5> QED BY <4>3, RangeOfConcat
      <4>5. 1..i = (1..(i - 1)) \cup {i}
        BY <4>1
      <4>6. Upto(i) = Upto(i - 1) \cup Range(R[i])
        BY <4>5
      <4> QED BY <4>2, <4>4, <4>6
    <3> QED BY <3>1, <3>2
  <2>4. \A i \in 0..n : i \in S
    <3>1. 0 \in S OBVIOUS
    <3> HIDE DEF S
    <3> QED BY <2>3, <3>1, UpTo
  <2>5. Range(flat[n]) = Upto(n) /\ flat[n] \in Seq(X)
    <3>1. n \in 1..n
      BY <1>3
    <3>2. n \in S
      <4> HIDE DEF S
      <4> QED BY <2>4
    <3>3. Range(flat[n]) = Upto(n)
      BY <1>3, <3>2
    <3> HIDE DEF X, Upto
    <3> QED BY <2>2, <3>1, <3>3
  <2> QED BY <2>2, <2>5, SeqFacts
<1> QED BY <1>2, <1>3

-----------------------------------------------------------------------------
(* What the parsers give. *)

\* What one result gives is given by all of them together.
LEMMA AllIs ==
  ASSUME NEW seq, IsSeq(seq), NEW R, R = [i \in DOMAIN seq |-> R[i]],
         NEW names, NEW kinds, \A i \in DOMAIN seq : IsResult(R[i], names, kinds)
  PROVE  /\ IsResult(All(R), names, kinds)
         /\ \A i \in DOMAIN seq :
              /\ \A n, from : Gives(R[i], n, from) => Gives(All(R), n, from)
              /\ R[i].notes \subseteq All(R).notes
         /\ \A n \in All(R).notes : \E i \in DOMAIN seq : n \in R[i].notes
         /\ \A e \in Range(All(R).deps) : \E i \in DOMAIN seq : e \in Range(R[i].deps)
<1> DEFINE n == Len(seq)
           F == [i \in DOMAIN R |-> R[i].deps]
<1>1. n \in Nat /\ DOMAIN seq = 1..n
  BY SeqFacts
<1>2. DOMAIN R = 1..n /\ DOMAIN F = 1..n /\ \A i \in 1..n : F[i] = R[i].deps
  <2>1. DOMAIN R = 1..n
    BY <1>1
  <2> QED BY <2>1
<1>3. \A i \in 1..n : IsSeq(F[i])
  BY <1>1, <1>2 DEF IsResult, IsEntries
<1>4. IsSeq(FlattenSeq(F)) /\ Range(FlattenSeq(F)) = UNION {Range(F[i]) : i \in 1..n}
  <2>1. F = [i \in 1..n |-> F[i]]
    BY <1>2
  <2> HIDE DEF F, n
  <2> QED BY <1>1, <1>2, <1>3, <2>1, RangeOfFlatten
<1>5. /\ All(R).deps = FlattenSeq(F)
      /\ All(R).notes = UNION {R[i].notes : i \in 1..n}
      /\ All(R) = [deps |-> All(R).deps, notes |-> All(R).notes]
  BY <1>2 DEF All
<1> HIDE DEF F
<1>6. Range(All(R).deps) = UNION {Range(R[i].deps) : i \in 1..n}
  BY <1>2, <1>4, <1>5
<1>7. IsEntries(All(R).deps, names)
  BY <1>1, <1>4, <1>5, <1>6 DEF IsEntries, IsResult
<1>8. \A x \in All(R).notes : x[1] \in Cycles => x[1] \in kinds
  BY <1>1, <1>5 DEF IsResult
<1>9. IsResult(All(R), names, kinds)
  BY <1>5, <1>7, <1>8 DEF IsResult
<1>10. \A i \in DOMAIN seq : \A m, from : Gives(R[i], m, from) => Gives(All(R), m, from)
  <2>1. \A i \in DOMAIN seq : Range(R[i].deps) \subseteq Range(All(R).deps)
    BY <1>1, <1>6
  <2> QED BY <2>1 DEF Gives
<1> QED BY <1>1, <1>5, <1>6, <1>9, <1>10

\* The smallest results.
LEMMA SmallResults ==
  ASSUME NEW names, NEW kinds
  PROVE  /\ IsResult(Nothing, names, kinds)
         /\ \A x : x[1] \notin Cycles \/ x[1] \in kinds => IsResult(Noted(x), names, kinds)
         /\ \A n \in names : \A v, from : /\ IsResult(One(n, v, from), names, kinds)
                                          /\ Gives(One(n, v, from), n, from)
         /\ \A r : IsResult(r, names, {}) => IsResult(r, names, kinds)
<1>1. IsSeq(<<>>) /\ Range(<<>>) = {}
  <2>1. \A X : <<>> \in Seq(X) OBVIOUS
  <2> QED BY <2>1 DEF IsSeq, Range
<1>2. \A x : IsSeq(<<x>>) /\ Range(<<x>>) = {x}
  <2>1. \A x, X : x \in X => <<x>> \in Seq(X) OBVIOUS
  <2>2. \A x : Range(<<x>>) = {x}
    BY DEF Range
  <2> QED BY <2>1, <2>2 DEF IsSeq
<1>3. IsResult(Nothing, names, kinds)
  BY <1>1 DEF Nothing, IsResult, IsEntries
<1>4. ASSUME NEW x, x[1] \notin Cycles \/ x[1] \in kinds
      PROVE  IsResult(Noted(x), names, kinds)
  BY <1>1, <1>4 DEF Noted, IsResult, IsEntries
<1>5. ASSUME NEW m \in names, NEW v, NEW from
      PROVE  IsResult(One(m, v, from), names, kinds) /\ Gives(One(m, v, from), m, from)
  <2> DEFINE e == Entry(m, v, from)
  <2>1. IsEntry(e, names) /\ e.name = m /\ e.source = from /\ e.transitive = FALSE
    BY DEF Entry, IsEntry
  <2>2. /\ One(m, v, from).deps = <<e>> /\ One(m, v, from).notes = {}
        /\ One(m, v, from) = [deps |-> One(m, v, from).deps, notes |-> One(m, v, from).notes]
    BY DEF One
  <2> HIDE DEF e
  <2>3. IsSeq(<<e>>) /\ Range(<<e>>) = {e}
    BY <1>2
  <2> QED BY <2>1, <2>2, <2>3 DEF IsResult, IsEntries, Gives
<1>6. \A r : IsResult(r, names, {}) => IsResult(r, names, kinds)
  BY DEF IsResult
<1> QED BY <1>3, <1>4, <1>5, <1>6

\* Two results one after the other.
LEMMA JoinedIs ==
  ASSUME NEW names, NEW kinds, NEW a, NEW b, IsResult(a, names, kinds), IsResult(b, names, kinds)
  PROVE  /\ IsResult(Joined(a, b), names, kinds)
         /\ \A n, from : Gives(a, n, from) \/ Gives(b, n, from) => Gives(Joined(a, b), n, from)
<1>1. \A s, t : IsSeq(s) /\ IsSeq(t) => IsSeq(s \o t) /\ Range(s \o t) = Range(s) \cup Range(t)
  <2> SUFFICES ASSUME NEW s, NEW t, IsSeq(s), IsSeq(t)
               PROVE  IsSeq(s \o t) /\ Range(s \o t) = Range(s) \cup Range(t)
    OBVIOUS
  <2> DEFINE X == Range(s) \cup Range(t)
  <2>1. s \in Seq(X) /\ t \in Seq(X)
    BY SeqFacts
  <2> HIDE DEF X
  <2>2. s \o t \in Seq(X) /\ Range(s \o t) = Range(s) \cup Range(t)
    BY <2>1, RangeOfConcat
  <2> QED BY <2>2, SeqFacts
<1>2. /\ Joined(a, b).deps = a.deps \o b.deps /\ Joined(a, b).notes = a.notes \cup b.notes
      /\ Joined(a, b) = [deps |-> Joined(a, b).deps, notes |-> Joined(a, b).notes]
  BY DEF Joined
<1>3. Range(Joined(a, b).deps) = Range(a.deps) \cup Range(b.deps) /\ IsSeq(Joined(a, b).deps)
  BY <1>1, <1>2 DEF IsResult, IsEntries
<1>4. IsResult(Joined(a, b), names, kinds)
  BY <1>2, <1>3 DEF IsResult, IsEntries
<1> QED BY <1>3, <1>4 DEF Gives

-----------------------------------------------------------------------------
(* Recursion over files, groups and values, level by level. *)

\* At the greatest depth nothing is followed.
LEMMA LastLevel ==
  ASSUME NEW kind, NEW x, NEW d, NEW e, NEW c
  PROVE  Level(kind, x, d, 0, c) = Level(kind, x, e, 0, c)
<1>1. RequirementsFile(x, d, 0, c[1], c[2]) = RequirementsFile(x, e, 0, c[1], c[2])
  BY DEF RequirementsFile
<1>2. GroupTable(x, d, 0, c[1], c[2]) = GroupTable(x, e, 0, c[1], c[2])
  BY DEF GroupTable
<1>3. ToxText(x, d, 0, c[1], c[2]) = ToxText(x, e, 0, c[1], c[2])
  BY DEF ToxText
<1> QED BY <1>1, <1>2, <1>3 DEF Level

LEMMA LevelsExist ==
  ASSUME NEW kind, NEW x, NEW C, NEW n \in Nat
  PROVE  \E read : IsLevels(kind, x, C, n, read)
<1> DEFINE Rec(f, left) == [c \in C |-> Level(kind, x, f[left - 1], left, c)]
           Good(i, f) == f = [left \in 0..i |-> Rec(f, left)]
           S == {i \in Nat : \E f : Good(i, f)}
<1>0. \A f, g : Rec(f, 0) = Rec(g, 0)
  <2> SUFFICES ASSUME NEW f, NEW g PROVE Rec(f, 0) = Rec(g, 0) OBVIOUS
  <2>1. \A c \in C : Level(kind, x, f[0 - 1], 0, c) = Level(kind, x, g[0 - 1], 0, c)
    BY LastLevel
  <2> QED BY <2>1
<1>1. 0 \in S
  <2> DEFINE f == [left \in 0..0 |-> Rec(<<>>, 0)]
  <2>1. Rec(f, 0) = Rec(<<>>, 0)
    <3> HIDE DEF f, Rec
    <3> QED BY <1>0
  <2>2. \A left \in 0..0 : left = 0 OBVIOUS
  <2> HIDE DEF Rec
  <2>3. Good(0, f)
    BY <2>1, <2>2
  <2> QED BY <2>3
<1>2. ASSUME NEW i \in 1..n, i - 1 \in S
      PROVE  i \in S
  <2>1. PICK f : Good(i - 1, f)
    BY <1>2
  <2> DEFINE g == [left \in 0..i |-> IF left = i THEN Rec(f, i) ELSE f[left]]
  <2>2. i \in Nat /\ i # 0 /\ i - 1 \in 0..(i - 1) /\ i - 1 # i OBVIOUS
  <2>3. \A left \in 0..(i - 1) : f[left] = Rec(f, left)
    <3> HIDE DEF Rec
    <3> QED BY <2>1
  <2>4. \A left \in 0..(i - 1) : left \in 0..i /\ left # i /\ (left # 0 => left - 1 \in 0..(i - 1))
    BY <2>2
  <2>5. \A left \in 0..(i - 1) : g[left] = f[left]
    BY <2>4
  <2>6. g[i] = Rec(f, i)
    <3>1. i \in 0..i
      BY <2>2
    <3> HIDE DEF Rec
    <3> QED BY <3>1
  <2> HIDE DEF g
  <2>7. g[i] = Rec(g, i)
    BY <2>2, <2>5, <2>6
  <2>8. ASSUME NEW left \in 0..(i - 1)
        PROVE  g[left] = Rec(g, left)
    <3>1. CASE left = 0
      <4> HIDE DEF Rec
      <4> QED BY <1>0, <2>3, <2>5, <3>1
    <3>2. CASE left # 0
      <4>1. g[left - 1] = f[left - 1]
        BY <2>4, <2>5, <3>2
      <4>2. Rec(g, left) = Rec(f, left)
        BY <4>1
      <4> HIDE DEF Rec
      <4> QED BY <2>3, <2>5, <4>2
    <3> QED BY <3>1, <3>2
  <2>9. \A left \in 0..i : g[left] = Rec(g, left)
    <3>1. \A left \in 0..i : left = i \/ left \in 0..(i - 1)
      BY <2>2
    <3> HIDE DEF Rec
    <3> QED BY <2>7, <2>8, <3>1
  <2>10. Good(i, g)
    <3> HIDE DEF Rec
    <3>1. g = [left \in 0..i |-> g[left]]
      BY DEF g
    <3> QED BY <2>9, <3>1
  <2> HIDE DEF Good
  <2> QED BY <2>2, <2>10
<1> HIDE DEF Good
<1>3. n \in S
  <2> HIDE DEF S
  <2> QED BY <1>1, <1>2, UpTo
<1>4. PICK f : Good(n, f)
  BY <1>3
<1>5. IsLevels(kind, x, C, n, f)
  <2> HIDE DEF Rec
  <2>1. f = [left \in 0..n |-> f[left]] /\ \A left \in 0..n : f[left] = Rec(f, left)
    BY <1>4 DEF Good
  <2> QED BY <2>1 DEF IsLevels, Rec
<1> QED BY <1>5

\* The three recursions of the Python parsers, unfolded.
LEMMA RequirementsUnfold ==
  ASSUME NEW x
  PROVE  \E read :
           /\ IsLevels("requirements", x, Visits(DOMAIN x), MaxDepth + 1, read)
           /\ \A start : Requirements(x, start) = read[MaxDepth + 1][<<start, {}>>]
<1> DEFINE n == MaxDepth + 1
           Is(f) == f = [left \in 0..n |-> [c \in Visits(DOMAIN x) |->
                          RequirementsFile(x, f[left - 1], left, c[1], c[2])]]
           read == CHOOSE f : Is(f)
<1>1. n \in Nat
  BY CapAssumption
<1>2. \A start : Requirements(x, start) = read[n][<<start, {}>>]
  BY DEF Requirements
<1>3. \E f : Is(f)
  <2>1. PICK f : IsLevels("requirements", x, Visits(DOMAIN x), n, f)
    <3> HIDE DEF n
    <3> QED BY <1>1, LevelsExist
  <2>2. Is(f)
    BY <2>1 DEF IsLevels, Level
  <2> QED BY <2>2
<1>4. Is(read)
  <2> HIDE DEF Is
  <2> QED BY <1>3
<1> HIDE DEF read
<1>5. IsLevels("requirements", x, Visits(DOMAIN x), n, read)
  BY <1>4 DEF IsLevels, Level
<1> QED BY <1>2, <1>5

\* The same for dependency groups.
LEMMA GroupsUnfold ==
  ASSUME NEW x
  PROVE  \E read :
           /\ IsLevels("groups", x, Visits(GroupNames(x)), MaxDepth + 1, read)
           /\ \A start : ResolveGroup(x, start) = read[MaxDepth + 1][<<start, {}>>]
<1> DEFINE n == MaxDepth + 1
           Is(f) == f = [left \in 0..n |-> [c \in Visits(GroupNames(x)) |->
                          GroupTable(x, f[left - 1], left, c[1], c[2])]]
           read == CHOOSE f : Is(f)
<1>1. n \in Nat
  BY CapAssumption
<1>2. \A start : ResolveGroup(x, start) = read[n][<<start, {}>>]
  BY DEF ResolveGroup
<1>3. \E f : Is(f)
  <2>1. PICK f : IsLevels("groups", x, Visits(GroupNames(x)), n, f)
    <3> HIDE DEF n
    <3> QED BY <1>1, LevelsExist
  <2>2. Is(f)
    BY <2>1 DEF IsLevels, Level
  <2> QED BY <2>2
<1>4. Is(read)
  <2> HIDE DEF Is
  <2> QED BY <1>3
<1> HIDE DEF read
<1>5. IsLevels("groups", x, Visits(GroupNames(x)), n, read)
  BY <1>4 DEF IsLevels, Level
<1> QED BY <1>2, <1>5

\* The same for references in tox.ini.
LEMMA ToxUnfold ==
  ASSUME NEW x
  PROVE  \E read :
           /\ IsLevels("tox", x, Visits(DOMAIN x), MaxDepth, read)
           /\ \A start : ToxValue(x, start) = read[MaxDepth][<<start, {start}>>]
<1> DEFINE n == MaxDepth
           Is(f) == f = [left \in 0..n |-> [c \in Visits(DOMAIN x) |->
                          ToxText(x, f[left - 1], left, c[1], c[2])]]
           read == CHOOSE f : Is(f)
<1>1. n \in Nat
  BY CapAssumption
<1>2. \A start : ToxValue(x, start) = read[n][<<start, {start}>>]
  BY DEF ToxValue
<1>3. \E f : Is(f)
  <2>1. PICK f : IsLevels("tox", x, Visits(DOMAIN x), n, f)
    <3> HIDE DEF n
    <3> QED BY <1>1, LevelsExist
  <2>2. Is(f)
    BY <2>1 DEF IsLevels, Level
  <2> QED BY <2>2
<1>4. Is(read)
  <2> HIDE DEF Is
  <2> QED BY <1>3
<1> HIDE DEF read
<1>5. IsLevels("tox", x, Visits(DOMAIN x), n, read)
  BY <1>4 DEF IsLevels, Level
<1> QED BY <1>2, <1>5

-----------------------------------------------------------------------------
(* The parsers of Python. *)

\* The lists of requirements of every format.
LEMMA Pep508Is ==
  ASSUME NEW i, IsItem(i), NEW from, NEW kinds
  PROVE  /\ IsPy(Pep508(i, from), kinds)
         /\ i.kind = "name" => Gives(Pep508(i, from), i.name, from)
<1>1. CASE i.kind = "name"
  <2>1. i.name \in DOMAIN Normal /\ Pep508(i, from) = One(i.name, i.version, from)
    BY <1>1 DEF IsItem, IsPin, Pep508
  <2> QED BY <2>1, SmallResults DEF IsPy
<1>2. CASE i.kind = "bad"
  <2>1. Pep508(i, from) = Noted(<<"invalid", from.file>>)
    BY <1>2 DEF Pep508
  <2>2. <<"invalid", from.file>>[1] \notin Cycles
    BY DEF Cycles
  <2> QED BY <1>2, <2>1, <2>2, SmallResults DEF IsPy
<1>3. CASE i.kind \notin {"name", "bad"}
  <2>1. Pep508(i, from) = Nothing
    BY <1>3 DEF Pep508
  <2> QED BY <1>3, <2>1, SmallResults DEF IsPy
<1> QED BY <1>1, <1>2, <1>3

LEMMA ItemsIs ==
  ASSUME NEW seq, IsItems(seq), NEW from, NEW kinds
  PROVE  /\ IsPy(Items(seq, from), kinds)
         /\ \A n \in NameItems(seq) : Gives(Items(seq, from), n, from)
<1> DEFINE R == [i \in DOMAIN seq |-> Pep508(seq[i], from)]
<1>1. IsSeq(seq) /\ \A x \in Range(seq) : IsItem(x)
  BY DEF IsItems, IsList, IsSeq
<1>2. Items(seq, from) = All(R)
  BY DEF Items, Each
<1>3. \A i \in DOMAIN seq : IsResult(R[i], DOMAIN Normal, kinds)
  BY <1>1, SeqFacts, Pep508Is DEF IsPy
<1>4. R = [i \in DOMAIN seq |-> R[i]] OBVIOUS
<1>5. \A i \in DOMAIN seq : seq[i].kind = "name" => Gives(R[i], seq[i].name, from)
  BY <1>1, SeqFacts, Pep508Is
<1> HIDE DEF R
<1>6. /\ IsResult(All(R), DOMAIN Normal, kinds)
      /\ \A i \in DOMAIN seq : \A n, f : Gives(R[i], n, f) => Gives(All(R), n, f)
  BY <1>1, <1>3, <1>4, AllIs
<1>7. \A n \in NameItems(seq) : \E i \in DOMAIN seq : seq[i].kind = "name" /\ seq[i].name = n
  BY SeqFacts DEF NameItems
<1> QED BY <1>2, <1>5, <1>6, <1>7 DEF IsPy

\* Tables of pins, whatever becomes of the version.
LEMMA PinsIs ==
  ASSUME NEW seq, IsPinned(seq), NEW from, NEW kinds,
         NEW R, R = [i \in DOMAIN seq |-> R[i]],
         \A i \in DOMAIN seq : R[i] = Nothing \/ \E v : R[i] = One(seq[i].name, v, from)
  PROVE  /\ IsPy(All(R), kinds)
         /\ \A n : (\E i \in DOMAIN seq : seq[i].name = n /\ R[i] # Nothing) => Gives(All(R), n, from)
<1>1. IsSeq(seq) /\ \A i \in DOMAIN seq : seq[i].name \in DOMAIN Normal
  BY SeqFacts DEF IsPinned, IsList, IsSeq, IsPin
<1>2. \A i \in DOMAIN seq : IsResult(R[i], DOMAIN Normal, kinds)
  BY <1>1, SmallResults
<1>3. \A i \in DOMAIN seq : R[i] # Nothing => Gives(R[i], seq[i].name, from)
  BY <1>1, SmallResults
<1>4. /\ IsResult(All(R), DOMAIN Normal, kinds)
      /\ \A i \in DOMAIN seq : \A n, f : Gives(R[i], n, f) => Gives(All(R), n, f)
  BY <1>1, <1>2, AllIs
<1> QED BY <1>3, <1>4 DEF IsPy

LEMMA PoetryTableIs ==
  ASSUME NEW seq, IsPinned(seq), NEW from, NEW kinds
  PROVE  /\ IsPy(PoetryTable(seq, from), kinds)
         /\ \A n \in Pinned(seq) : n # <<"python">> => Gives(PoetryTable(seq, from), n, from)
<1> DEFINE R == [i \in DOMAIN seq |-> IF seq[i].name = <<"python">> THEN Nothing
                                      ELSE One(seq[i].name, seq[i].version, from)]
<1>1. PoetryTable(seq, from) = All(R)
  BY DEF PoetryTable, Each
<1>2. /\ R = [i \in DOMAIN seq |-> R[i]]
      /\ \A i \in DOMAIN seq : R[i] = Nothing \/ \E v : R[i] = One(seq[i].name, v, from)
  OBVIOUS
<1>3. \A n, v, f : One(n, v, f) # Nothing
  BY DEF One, Nothing
<1>4. ASSUME NEW n \in Pinned(seq), n # <<"python">>
      PROVE  \E i \in DOMAIN seq : seq[i].name = n /\ R[i] # Nothing
  <2>1. PICK i \in DOMAIN seq : seq[i].name = n
    BY SeqFacts DEF Pinned
  <2> QED BY <1>3, <1>4, <2>1
<1> HIDE DEF R
<1> QED BY <1>1, <1>2, <1>4, PinsIs

\* A list of results for a list of tables.
LEMMA EachIs ==
  ASSUME NEW seq, IsSeq(seq), NEW R, R = [i \in DOMAIN seq |-> R[i]], NEW kinds,
         \A i \in DOMAIN seq : IsPy(R[i], kinds)
  PROVE  IsPy(All(R), kinds)
BY AllIs DEF IsPy

\* A few results, one after the other.
LEMMA AllOfFew ==
  ASSUME NEW kinds
  PROVE  /\ \A a, b : IsPy(a, kinds) /\ IsPy(b, kinds) =>
              /\ IsPy(All(<<a, b>>), kinds)
              /\ \A n, f : Gives(a, n, f) \/ Gives(b, n, f) => Gives(All(<<a, b>>), n, f)
              /\ All(<<a, b>>).notes = a.notes \cup b.notes
         /\ \A a, b, c : IsPy(a, kinds) /\ IsPy(b, kinds) /\ IsPy(c, kinds) =>
              /\ IsPy(All(<<a, b, c>>), kinds)
              /\ \A n, f : Gives(a, n, f) \/ Gives(b, n, f) \/ Gives(c, n, f)
                             => Gives(All(<<a, b, c>>), n, f)
         /\ \A a, b, c, d, e :
              IsPy(a, kinds) /\ IsPy(b, kinds) /\ IsPy(c, kinds) /\ IsPy(d, kinds) /\ IsPy(e, kinds) =>
              /\ IsPy(All(<<a, b, c, d, e>>), kinds)
              /\ \A n, f : Gives(a, n, f) \/ Gives(b, n, f) \/ Gives(c, n, f) \/ Gives(d, n, f)
                           \/ Gives(e, n, f) => Gives(All(<<a, b, c, d, e>>), n, f)
              /\ All(<<a, b, c, d, e>>).notes =
                   a.notes \cup b.notes \cup c.notes \cup d.notes \cup e.notes
<1>1. ASSUME NEW seq, IsSeq(seq), \A i \in DOMAIN seq : IsPy(seq[i], kinds)
      PROVE  /\ IsPy(All(seq), kinds)
             /\ \A i \in DOMAIN seq : \A n, f : Gives(seq[i], n, f) => Gives(All(seq), n, f)
             /\ All(seq).notes = UNION {seq[i].notes : i \in DOMAIN seq}
  <2>1. seq = [i \in DOMAIN seq |-> seq[i]]
    BY <1>1 DEF IsSeq
  <2>2. \A i \in DOMAIN seq : IsResult(seq[i], DOMAIN Normal, kinds)
    BY <1>1 DEF IsPy
  <2> QED BY <1>1, <2>1, <2>2, AllIs DEF IsPy, All
<1>2. ASSUME NEW a, NEW b, IsPy(a, kinds), IsPy(b, kinds)
      PROVE  /\ IsPy(All(<<a, b>>), kinds)
             /\ \A n, f : Gives(a, n, f) \/ Gives(b, n, f) => Gives(All(<<a, b>>), n, f)
             /\ All(<<a, b>>).notes = a.notes \cup b.notes
  <2> DEFINE s == <<a, b>>
  <2>1. s \in Seq({a, b}) OBVIOUS
  <2>2. DOMAIN s = {1, 2} /\ s[1] = a /\ s[2] = b OBVIOUS
  <2> HIDE DEF s
  <2>3. IsSeq(s)
    BY <2>1, SeqFacts
  <2>4. /\ IsPy(All(s), kinds)
        /\ \A i \in DOMAIN s : \A n, f : Gives(s[i], n, f) => Gives(All(s), n, f)
        /\ All(s).notes = UNION {s[i].notes : i \in DOMAIN s}
    BY <1>1, <1>2, <2>2, <2>3
  <2>5. UNION {s[i].notes : i \in DOMAIN s} = a.notes \cup b.notes
    BY <2>2
  <2> QED BY <2>2, <2>4, <2>5 DEF s
<1>3. ASSUME NEW a, NEW b, NEW c, IsPy(a, kinds), IsPy(b, kinds), IsPy(c, kinds)
      PROVE  /\ IsPy(All(<<a, b, c>>), kinds)
             /\ \A n, f : Gives(a, n, f) \/ Gives(b, n, f) \/ Gives(c, n, f)
                            => Gives(All(<<a, b, c>>), n, f)
  <2> DEFINE s == <<a, b, c>>
  <2>1. s \in Seq({a, b, c}) OBVIOUS
  <2>2. DOMAIN s = {1, 2, 3} /\ s[1] = a /\ s[2] = b /\ s[3] = c OBVIOUS
  <2> HIDE DEF s
  <2>3. IsSeq(s)
    BY <2>1, SeqFacts
  <2>4. /\ IsPy(All(s), kinds)
        /\ \A i \in DOMAIN s : \A n, f : Gives(s[i], n, f) => Gives(All(s), n, f)
    BY <1>1, <1>3, <2>2, <2>3
  <2> QED BY <2>2, <2>4 DEF s
<1>4. ASSUME NEW a, NEW b, NEW c, NEW d, NEW e,
             IsPy(a, kinds), IsPy(b, kinds), IsPy(c, kinds), IsPy(d, kinds), IsPy(e, kinds)
      PROVE  /\ IsPy(All(<<a, b, c, d, e>>), kinds)
             /\ \A n, f : Gives(a, n, f) \/ Gives(b, n, f) \/ Gives(c, n, f) \/ Gives(d, n, f)
                          \/ Gives(e, n, f) => Gives(All(<<a, b, c, d, e>>), n, f)
             /\ All(<<a, b, c, d, e>>).notes =
                  a.notes \cup b.notes \cup c.notes \cup d.notes \cup e.notes
  <2> DEFINE s == <<a, b, c, d, e>>
  <2>1. s \in Seq({a, b, c, d, e}) OBVIOUS
  <2>2. DOMAIN s = {1, 2, 3, 4, 5} /\ s[1] = a /\ s[2] = b /\ s[3] = c /\ s[4] = d /\ s[5] = e
    OBVIOUS
  <2> HIDE DEF s
  <2>3. IsSeq(s)
    BY <2>1, SeqFacts
  <2>4. /\ IsPy(All(s), kinds)
        /\ \A i \in DOMAIN s : \A n, f : Gives(s[i], n, f) => Gives(All(s), n, f)
        /\ All(s).notes = UNION {s[i].notes : i \in DOMAIN s}
    BY <1>1, <1>4, <2>2, <2>3
  <2>5. UNION {s[i].notes : i \in DOMAIN s} = a.notes \cup b.notes \cup c.notes \cup d.notes \cup e.notes
    BY <2>2
  <2> QED BY <2>2, <2>4, <2>5 DEF s
<1> QED BY <1>2, <1>3, <1>4

\* A requirements file that is met again, at the greatest depth, and elsewhere.
LEMMA RequirementsMetAgain ==
  ASSUME NEW x, NEW deeper, NEW left, NEW name, NEW above, name \in above
  PROVE  RequirementsFile(x, deeper, left, name, above) = Noted(<<"cycle", name>>)
BY DEF RequirementsFile

LEMMA RequirementsTooDeep ==
  ASSUME NEW x, NEW deeper, NEW name, NEW above, name \notin above
  PROVE  RequirementsFile(x, deeper, 0, name, above) = Noted(<<"depth", name>>)
BY DEF RequirementsFile

LEMMA RequirementsRead ==
  ASSUME NEW x, NEW deeper, NEW left, NEW name, NEW above, name \notin above, left # 0
  PROVE  RequirementsFile(x, deeper, left, name, above) =
           IF x[name].ok THEN LinesGive(x, deeper, name, above) ELSE Noted(<<"unreadable", name>>)
BY DEF RequirementsFile, Parsed, Each, LineGives, LinesGive

\* What the recursion gives for each file, the files on the way and the depth
\* that remains.
LEMMA RequirementsAre ==
  ASSUME NEW x, RequirementsAreLists(x), NEW read,
         IsLevels("requirements", x, Visits(DOMAIN x), MaxDepth + 1, read)
  PROVE  \A left \in 0..(MaxDepth + 1) : \A n \in DOMAIN x : \A above \in SUBSET DOMAIN x :
           /\ read[left][<<n, above>>] = RequirementsFile(x, read[left - 1], left, n, above)
           /\ (x[n].ok => n \in Requirementlike(x)) => IsPy(read[left][<<n, above>>], {"cycle"})
<1> DEFINE N == MaxDepth + 1
           Fine(left) ==
             \A n \in DOMAIN x : \A above \in SUBSET DOMAIN x :
               (x[n].ok => n \in Requirementlike(x)) => IsPy(read[left][<<n, above>>], {"cycle"})
           S == {left \in 0..N : Fine(left)}
<1>1. N \in Nat
  BY CapAssumption
<1>2. \A left \in 0..N : \A n \in DOMAIN x : \A above \in SUBSET DOMAIN x :
        read[left][<<n, above>>] = RequirementsFile(x, read[left - 1], left, n, above)
  <2> SUFFICES ASSUME NEW left \in 0..N, NEW n \in DOMAIN x, NEW above \in SUBSET DOMAIN x
               PROVE  read[left][<<n, above>>] = RequirementsFile(x, read[left - 1], left, n, above)
    OBVIOUS
  <2>1. <<n, above>> \in Visits(DOMAIN x) /\ <<n, above>>[1] = n /\ <<n, above>>[2] = above
    BY DEF Visits
  <2>2. read[left] = [c \in Visits(DOMAIN x) |-> Level("requirements", x, read[left - 1], left, c)]
    BY DEF IsLevels
  <2>3. read[left][<<n, above>>] = Level("requirements", x, read[left - 1], left, <<n, above>>)
    BY <2>1, <2>2
  <2> QED BY <2>1, <2>3 DEF Level
<1>3. \A y : y \notin Cycles \cup {"cycle"} \/ y = "cycle" =>
        \A z : IsPy(Noted(<<y, z>>), {"cycle"})
  <2> SUFFICES ASSUME NEW y, y \notin Cycles \/ y = "cycle", NEW z PROVE IsPy(Noted(<<y, z>>), {"cycle"})
    BY DEF Cycles
  <2>1. <<y, z>>[1] = y OBVIOUS
  <2> QED BY <2>1, SmallResults DEF IsPy
<1>4. \A y \in {"cycle", "depth", "unreadable", "escape", "not found"} : \A z :
        IsPy(Noted(<<y, z>>), {"cycle"})
  BY <1>3 DEF Cycles
<1>5. Fine(0)
  <2>1. 0 \in 0..N
    BY <1>1
  <2> SUFFICES ASSUME NEW n \in DOMAIN x, NEW above \in SUBSET DOMAIN x
               PROVE  IsPy(read[0][<<n, above>>], {"cycle"})
    OBVIOUS
  <2>2. read[0][<<n, above>>] = RequirementsFile(x, read[0 - 1], 0, n, above)
    BY <1>2, <2>1
  <2>3. \/ read[0][<<n, above>>] = Noted(<<"cycle", n>>)
        \/ read[0][<<n, above>>] = Noted(<<"depth", n>>)
    BY <2>2, RequirementsMetAgain, RequirementsTooDeep
  <2>4. IsPy(Noted(<<"cycle", n>>), {"cycle"}) /\ IsPy(Noted(<<"depth", n>>), {"cycle"})
    BY <1>4
  <2> QED BY <2>3, <2>4
<1>6. ASSUME NEW left \in 1..N, Fine(left - 1)
      PROVE  Fine(left)
  <2> SUFFICES ASSUME NEW n \in DOMAIN x, NEW above \in SUBSET DOMAIN x,
                      x[n].ok => n \in Requirementlike(x)
               PROVE  IsPy(read[left][<<n, above>>], {"cycle"})
    OBVIOUS
  <2> DEFINE deeper == read[left - 1]
             L == x[n].lines
             R == [i \in DOMAIN L |-> LineGives(x, deeper, n, above, L[i])]
  <2>1. left # 0 /\ left \in 0..N
    BY <1>1
  <2>2. read[left][<<n, above>>] = RequirementsFile(x, deeper, left, n, above)
    BY <1>2, <2>1
  <2>3. CASE n \in above
    <3>1. read[left][<<n, above>>] = Noted(<<"cycle", n>>)
      BY <2>2, <2>3, RequirementsMetAgain
    <3>2. IsPy(Noted(<<"cycle", n>>), {"cycle"})
      BY <1>4
    <3> QED BY <3>1, <3>2
  <2>4. CASE n \notin above /\ ~ x[n].ok
    <3>1. read[left][<<n, above>>] = Noted(<<"unreadable", n>>)
      BY <2>1, <2>2, <2>4, RequirementsRead
    <3>2. IsPy(Noted(<<"unreadable", n>>), {"cycle"})
      BY <1>4
    <3> QED BY <3>1, <3>2
  <2>5. CASE n \notin above /\ x[n].ok
    <3>1. n \in Requirementlike(x)
      BY <2>5
    <3>2. IsSeq(L) /\ \A l \in Range(L) : IsItem(l)
      BY <3>1 DEF RequirementsAreLists, IsItems, IsList, IsSeq
    <3>3. ASSUME NEW l \in Range(L)
          PROVE  IsPy(LineGives(x, deeper, n, above, l), {"cycle"})
      <4>1. CASE l.kind # "include"
        BY <3>2, <4>1, Pep508Is DEF LineGives
      <4>2. CASE l.kind = "include" /\ l.target = Outside
        <5>1. LineGives(x, deeper, n, above, l) = Noted(<<"escape", n>>)
          BY <4>2 DEF LineGives
        <5> QED BY <1>4, <5>1
      <4>3. CASE l.kind = "include" /\ l.target \notin DOMAIN x \cup {Outside}
        <5>1. LineGives(x, deeper, n, above, l) = Noted(<<"not found", n>>)
          BY <4>3 DEF LineGives
        <5> QED BY <1>4, <5>1
      <4>4. CASE l.kind = "include" /\ l.target \in DOMAIN x /\ l.target # Outside
        <5>1. LineGives(x, deeper, n, above, l) = deeper[<<l.target, above \cup {n}>>]
          BY <4>4 DEF LineGives
        <5>2. x[l.target].ok => l.target \in Requirementlike(x)
          BY <3>1, <4>4 DEF RequirementsAreLists
        <5> QED BY <1>6, <4>4, <5>1, <5>2
      <4> QED BY <4>1, <4>2, <4>3, <4>4
    <3>4. \A i \in DOMAIN L : IsPy(R[i], {"cycle"})
      BY <3>3, SeqFacts
    <3>5. R = [i \in DOMAIN L |-> R[i]] OBVIOUS
    <3>6. RequirementsFile(x, deeper, left, n, above) = All(R)
      BY <2>1, <2>5, RequirementsRead DEF LinesGive
    <3> HIDE DEF R
    <3>7. IsPy(All(R), {"cycle"})
      BY <3>2, <3>4, <3>5, EachIs
    <3> QED BY <2>2, <3>6, <3>7
  <2> QED BY <2>3, <2>4, <2>5
<1>7. \A left \in 0..N : left \in S
  <2>1. 0 \in S
    BY <1>1, <1>5
  <2>2. \A i \in 1..N : i - 1 \in S => i \in S
    <3> HIDE DEF Fine
    <3>1. \A i \in 1..N : i \in 0..N
      BY <1>1
    <3> QED BY <1>6, <3>1
  <2> HIDE DEF S
  <2> QED BY <1>1, <2>1, <2>2, UpTo
<1> QED BY <1>2, <1>7

\* What _parse_requirements_txt gives.
LEMMA RequirementsIs ==
  ASSUME NEW x, RequirementsAreLists(x), NEW start \in DOMAIN x,
         x[start].ok => start \in Requirementlike(x)
  PROVE  IsPy(Requirements(x, start), {"cycle"})
<1>1. PICK read : /\ IsLevels("requirements", x, Visits(DOMAIN x), MaxDepth + 1, read)
                  /\ \A s : Requirements(x, s) = read[MaxDepth + 1][<<s, {}>>]
  BY RequirementsUnfold
<1>2. MaxDepth + 1 \in 0..(MaxDepth + 1)
  BY CapAssumption
<1>3. IsPy(read[MaxDepth + 1][<<start, {}>>], {"cycle"})
  BY <1>1, <1>2, RequirementsAre
<1> QED BY <1>1, <1>3

\* A new label for every entry.
LEMMA RelabelledIs ==
  ASSUME NEW r, NEW kinds, IsPy(r, kinds), NEW from
  PROVE  /\ IsPy(Relabelled(r, from), kinds)
         /\ Relabelled(r, from).notes = r.notes
         /\ \A n, f : Gives(r, n, f) => Gives(Relabelled(r, from), n, from)
<1> DEFINE D == [i \in DOMAIN r.deps |-> [r.deps[i] EXCEPT !.source = from]]
           s == Relabelled(r, from)
<1>1. /\ r = [deps |-> r.deps, notes |-> r.notes] /\ IsSeq(r.deps)
      /\ \A i \in DOMAIN r.deps : IsEntry(r.deps[i], DOMAIN Normal)
  BY SeqFacts DEF IsPy, IsResult, IsEntries
<1>2. s = [deps |-> D, notes |-> r.notes]
  BY <1>1 DEF Relabelled
<1>3. s = [deps |-> s.deps, notes |-> s.notes] /\ s.deps = D /\ s.notes = r.notes
  BY <1>2
<1>4. IsSeq(D)
  <2>1. DOMAIN r.deps = 1..Len(r.deps) /\ Len(r.deps) \in Nat
    BY <1>1, SeqFacts
  <2>2. D = [i \in 1..Len(r.deps) |-> D[i]]
    BY <2>1
  <2> HIDE DEF D
  <2> QED BY <2>1, <2>2, SeqFacts
<1>5. \A i \in DOMAIN r.deps :
        /\ D[i].name = r.deps[i].name /\ D[i].source = from
        /\ D[i].transitive = r.deps[i].transitive /\ IsEntry(D[i], DOMAIN Normal)
  BY <1>1 DEF IsEntry
<1>6. DOMAIN D = DOMAIN r.deps OBVIOUS
<1> HIDE DEF D, s
<1>7. \A e \in Range(D) : IsEntry(e, DOMAIN Normal)
  BY <1>5, <1>6, SeqFacts
<1>8. IsPy(s, kinds)
  BY <1>3, <1>4, <1>7 DEF IsPy, IsResult, IsEntries
<1>9. \A n, f : Gives(r, n, f) => Gives(s, n, from)
  <2> SUFFICES ASSUME NEW n, NEW f, Gives(r, n, f) PROVE Gives(s, n, from) OBVIOUS
  <2>1. PICK e \in Range(r.deps) : e.name = n /\ ~ e.transitive
    BY DEF Gives
  <2>2. PICK i \in DOMAIN r.deps : r.deps[i] = e
    BY <2>1, SeqFacts
  <2>3. D[i] \in Range(s.deps) /\ D[i].name = n /\ D[i].source = from /\ ~ D[i].transitive
    BY <1>3, <1>5, <1>6, <2>1, <2>2, SeqFacts
  <2> QED BY <2>3 DEF Gives
<1> QED BY <1>3, <1>8, <1>9 DEF s

LEMMA SomeIs ==
  ASSUME NEW seq, IsSeq(seq), NEW T
  PROVE  /\ IsSeq(Some(seq, T))
         /\ Range(Some(seq, T)) = {seq[i] : i \in T \cap DOMAIN seq}
<1> DEFINE n == Len(seq)
           F == [i \in DOMAIN seq |-> IF i \in T THEN <<seq[i]>> ELSE <<>>]
<1>1. n \in Nat /\ DOMAIN seq = 1..n
  BY SeqFacts
<1>2. DOMAIN F = 1..n /\ F = [i \in 1..n |-> F[i]]
  BY <1>1
<1>3. \A i \in 1..n : IsSeq(F[i]) /\ Range(F[i]) = (IF i \in T THEN {seq[i]} ELSE {})
  <2>1. \A X : <<>> \in Seq(X) OBVIOUS
  <2>2. IsSeq(<<>>) /\ Range(<<>>) = {}
    BY <2>1 DEF IsSeq, Range
  <2>3. \A y, X : y \in X => <<y>> \in Seq(X) OBVIOUS
  <2>4. \A y : Range(<<y>>) = {y}
    BY DEF Range
  <2>5. \A y : IsSeq(<<y>>)
    BY <2>3, <2>4 DEF IsSeq
  <2> QED BY <1>1, <2>2, <2>4, <2>5
<1>4. Some(seq, T) = FlattenSeq(F)
  BY DEF Some
<1> HIDE DEF F, n
<1>5. IsSeq(FlattenSeq(F)) /\ Range(FlattenSeq(F)) = UNION {Range(F[i]) : i \in 1..n}
  BY <1>1, <1>2, <1>3, RangeOfFlatten
<1>6. UNION {Range(F[i]) : i \in 1..n} = {seq[i] : i \in T \cap DOMAIN seq}
  BY <1>1, <1>3
<1> QED BY <1>4, <1>5, <1>6

LEMMA AuxiliaryIs ==
  ASSUME NEW x
  PROVE  IsSeq(Auxiliary(x)) /\ Range(Auxiliary(x)) = Range(TestRequirements) \cap DOMAIN x
<1> DEFINE T == {i \in DOMAIN TestRequirements : TestRequirements[i] \in DOMAIN x}
<1>1. IsSeq(TestRequirements)
  <2>1. \A a, b, c, d, e : <<a, b, c, d, e>> \in Seq({a, b, c, d, e}) OBVIOUS
  <2> QED BY <2>1, SeqFacts DEF TestRequirements
<1>2. Auxiliary(x) = Some(TestRequirements, T)
  BY DEF Auxiliary, Only, Some
<1>3. {TestRequirements[i] : i \in T \cap DOMAIN TestRequirements} = Range(TestRequirements) \cap DOMAIN x
  BY DEF Range
<1> HIDE DEF T
<1> QED BY <1>1, <1>2, <1>3, SomeIs

LEMMA TestRequirementFilesIs ==
  ASSUME NEW x, RequirementsAreLists(x)
  PROVE  /\ IsPy(TestRequirementFiles(x), {"cycle"})
         /\ \A n \in Range(TestRequirements) \cap DOMAIN x :
              /\ \A m, f : Gives(Requirements(x, n), m, f) => Gives(TestRequirementFiles(x), m, Of(n))
              /\ Requirements(x, n).notes \subseteq TestRequirementFiles(x).notes
         /\ \A y \in TestRequirementFiles(x).notes :
              \E n \in Range(TestRequirements) \cap DOMAIN x : y \in Requirements(x, n).notes
<1> DEFINE A == Auxiliary(x)
           R == [i \in DOMAIN A |-> Relabelled(Requirements(x, A[i]), Of(A[i]))]
<1>1. IsSeq(A) /\ Range(A) = Range(TestRequirements) \cap DOMAIN x
  BY AuxiliaryIs
<1>2. TestRequirementFiles(x) = All(R)
  BY DEF TestRequirementFiles, Each, Auxiliary
<1>3. R = [i \in DOMAIN A |-> R[i]] /\ \A i \in DOMAIN A : R[i] = Relabelled(Requirements(x, A[i]), Of(A[i]))
  OBVIOUS
<1> HIDE DEF R, A
<1>4. \A i \in DOMAIN A : IsPy(Requirements(x, A[i]), {"cycle"})
  <2>1. \A i \in DOMAIN A : A[i] \in DOMAIN x /\ (x[A[i]].ok => A[i] \in Requirementlike(x))
    BY <1>1, SeqFacts DEF RequirementsAreLists
  <2> QED BY <2>1, RequirementsIs
<1>5. \A i \in DOMAIN A :
        /\ IsResult(R[i], DOMAIN Normal, {"cycle"})
        /\ R[i].notes = Requirements(x, A[i]).notes
        /\ \A n, f : Gives(Requirements(x, A[i]), n, f) => Gives(R[i], n, Of(A[i]))
  BY <1>3, <1>4, RelabelledIs DEF IsPy
<1>6. /\ IsResult(All(R), DOMAIN Normal, {"cycle"})
      /\ \A i \in DOMAIN A : /\ \A n, f : Gives(R[i], n, f) => Gives(All(R), n, f)
                             /\ R[i].notes \subseteq All(R).notes
      /\ \A y \in All(R).notes : \E i \in DOMAIN A : y \in R[i].notes
  BY <1>1, <1>3, <1>5, AllIs
<1>7. \A n \in Range(A) : \E i \in DOMAIN A : A[i] = n
  BY SeqFacts
<1>8. \A i \in DOMAIN A : A[i] \in Range(A)
  BY SeqFacts
<1>9. \A n \in Range(TestRequirements) \cap DOMAIN x :
         /\ \A m, f : Gives(Requirements(x, n), m, f) => Gives(All(R), m, Of(n))
         /\ Requirements(x, n).notes \subseteq All(R).notes
  BY <1>1, <1>5, <1>6, <1>7
<1>10. \A y \in All(R).notes :
         \E n \in Range(TestRequirements) \cap DOMAIN x : y \in Requirements(x, n).notes
  BY <1>1, <1>5, <1>6, <1>8
<1> QED BY <1>2, <1>6, <1>9, <1>10 DEF IsPy

LEMMA GroupMetAgain ==
  ASSUME NEW x, NEW deeper, NEW left, NEW name, NEW above, name \in above
  PROVE  GroupTable(x, deeper, left, name, above) = Noted(<<"group cycle", name>>)
BY DEF GroupTable

LEMMA GroupTooDeep ==
  ASSUME NEW x, NEW deeper, NEW name, NEW above, name \notin above
  PROVE  GroupTable(x, deeper, 0, name, above) = Noted(<<"group depth", name>>)
BY DEF GroupTable

LEMMA GroupRead ==
  ASSUME NEW x, NEW deeper, NEW left, NEW name, NEW above, name \notin above, left # 0
  PROVE  GroupTable(x, deeper, left, name, above) =
           IF HasGroup(x, name) THEN ItemsGive(x, deeper, name, above)
           ELSE Noted(<<"unknown group", name>>)
BY DEF GroupTable, Each, ItemGives, ItemsGive

\* A group that is there is one of the tables, and includes groups with names.
LEMMA GroupOfIs ==
  ASSUME NEW x, IsList(x, IsTable), NEW name, HasGroup(x, name)
  PROVE  /\ GroupOf(x, name) \in Range(x) /\ GroupOf(x, name).name = name
         /\ IsItems(GroupOf(x, name).items)
         /\ IncludedGroups(GroupOf(x, name)) \subseteq GroupNames(x)
         /\ \A i \in Range(GroupOf(x, name).items) :
              i.kind = "group" => i.target \in IncludedGroups(GroupOf(x, name))
<1>1. GroupOf(x, name) \in Range(x) /\ GroupOf(x, name).name = name
  BY DEF HasGroup, GroupOf
<1>2. \A g \in Range(x) : IsTable(g)
  BY DEF IsList
<1> QED BY <1>1, <1>2 DEF IsTable, GroupNames, IncludedGroups

LEMMA GroupsAre ==
  ASSUME NEW x, IsList(x, IsTable), NEW read,
         IsLevels("groups", x, Visits(GroupNames(x)), MaxDepth + 1, read)
  PROVE  \A left \in 0..(MaxDepth + 1) : \A n \in GroupNames(x) : \A above \in SUBSET GroupNames(x) :
           /\ read[left][<<n, above>>] = GroupTable(x, read[left - 1], left, n, above)
           /\ IsPy(read[left][<<n, above>>], {"group cycle"})
<1> DEFINE N == MaxDepth + 1
           G == GroupNames(x)
           K == {"group cycle"}
           Fine(left) == \A n \in G : \A above \in SUBSET G : IsPy(read[left][<<n, above>>], K)
           S == {left \in 0..N : Fine(left)}
<1>1. N \in Nat
  BY CapAssumption
<1>2. \A left \in 0..N : \A n \in G : \A above \in SUBSET G :
        read[left][<<n, above>>] = GroupTable(x, read[left - 1], left, n, above)
  <2> SUFFICES ASSUME NEW left \in 0..N, NEW n \in G, NEW above \in SUBSET G
               PROVE  read[left][<<n, above>>] = GroupTable(x, read[left - 1], left, n, above)
    OBVIOUS
  <2>1. <<n, above>> \in Visits(G) /\ <<n, above>>[1] = n /\ <<n, above>>[2] = above
    BY DEF Visits
  <2>2. read[left] = [c \in Visits(G) |-> Level("groups", x, read[left - 1], left, c)]
    BY DEF IsLevels
  <2>3. read[left][<<n, above>>] = Level("groups", x, read[left - 1], left, <<n, above>>)
    BY <2>1, <2>2
  <2> QED BY <2>1, <2>3 DEF Level
<1>4. \A y \in {"group cycle", "group depth", "unknown group", "invalid group item"} : \A z :
        IsPy(Noted(<<y, z>>), K)
  <2> SUFFICES ASSUME NEW y \in {"group cycle", "group depth", "unknown group", "invalid group item"},
                      NEW z
               PROVE  IsPy(Noted(<<y, z>>), K)
    OBVIOUS
  <2>1. <<y, z>>[1] = y /\ (y \notin Cycles \/ y \in K)
    BY DEF Cycles
  <2> QED BY <2>1, SmallResults DEF IsPy
<1> HIDE DEF K
<1>5. Fine(0)
  <2>1. 0 \in 0..N
    BY <1>1
  <2> SUFFICES ASSUME NEW n \in G, NEW above \in SUBSET G
               PROVE  IsPy(read[0][<<n, above>>], K)
    OBVIOUS
  <2>2. read[0][<<n, above>>] = GroupTable(x, read[0 - 1], 0, n, above)
    BY <1>2, <2>1
  <2>3. \/ read[0][<<n, above>>] = Noted(<<"group cycle", n>>)
        \/ read[0][<<n, above>>] = Noted(<<"group depth", n>>)
    <3>1. n \in above => GroupTable(x, read[0 - 1], 0, n, above) = Noted(<<"group cycle", n>>)
      BY GroupMetAgain
    <3>2. n \notin above => GroupTable(x, read[0 - 1], 0, n, above) = Noted(<<"group depth", n>>)
      BY GroupTooDeep
    <3> QED BY <2>2, <3>1, <3>2
  <2>4. IsPy(Noted(<<"group cycle", n>>), K) /\ IsPy(Noted(<<"group depth", n>>), K)
    BY <1>4
  <2> QED BY <2>3, <2>4
<1>6. ASSUME NEW left \in 1..N, Fine(left - 1)
      PROVE  Fine(left)
  <2> SUFFICES ASSUME NEW n \in G, NEW above \in SUBSET G
               PROVE  IsPy(read[left][<<n, above>>], K)
    OBVIOUS
  <2> DEFINE deeper == read[left - 1]
             L == GroupOf(x, n).items
             R == [i \in DOMAIN L |-> ItemGives(deeper, n, above, L[i])]
  <2>1. left # 0 /\ left \in 0..N
    BY <1>1
  <2>2. read[left][<<n, above>>] = GroupTable(x, deeper, left, n, above)
    BY <1>2, <2>1
  <2>3. CASE n \in above
    <3>1. read[left][<<n, above>>] = Noted(<<"group cycle", n>>)
      <4>1. GroupTable(x, deeper, left, n, above) = Noted(<<"group cycle", n>>)
        BY <2>3, GroupMetAgain
      <4> QED BY <2>2, <4>1
    <3>2. IsPy(Noted(<<"group cycle", n>>), K)
      BY <1>4
    <3> QED BY <3>1, <3>2
  <2>4. CASE n \notin above /\ ~ HasGroup(x, n)
    <3>1. read[left][<<n, above>>] = Noted(<<"unknown group", n>>)
      <4>1. GroupTable(x, deeper, left, n, above) = Noted(<<"unknown group", n>>)
        BY <2>1, <2>4, GroupRead
      <4> QED BY <2>2, <4>1
    <3>2. IsPy(Noted(<<"unknown group", n>>), K)
      BY <1>4
    <3> QED BY <3>1, <3>2
  <2>5. CASE n \notin above /\ HasGroup(x, n)
    <3>1. /\ IsItems(L) /\ IncludedGroups(GroupOf(x, n)) \subseteq G
          /\ \A i \in Range(L) : i.kind = "group" => i.target \in IncludedGroups(GroupOf(x, n))
      BY <2>5, GroupOfIs
    <3>2. IsSeq(L) /\ \A l \in Range(L) : IsItem(l)
      BY <3>1 DEF IsItems, IsList, IsSeq
    <3>3. ASSUME NEW l \in Range(L)
          PROVE  IsPy(ItemGives(deeper, n, above, l), K)
      <4>1. CASE l.kind = "group"
        <5>1. ItemGives(deeper, n, above, l) = deeper[<<l.target, above \cup {n}>>]
          BY <4>1 DEF ItemGives
        <5>2. l.target \in G /\ above \cup {n} \in SUBSET G
          BY <3>1, <4>1
        <5> QED BY <1>6, <5>1, <5>2
      <4>2. CASE l.kind \in {"name", "bad"}
        <5>1. ItemGives(deeper, n, above, l) = Pep508(l, Pyproject("dependency-groups", n))
          BY <4>2 DEF ItemGives
        <5> QED BY <3>2, <5>1, Pep508Is
      <4>3. CASE l.kind \notin {"group", "name", "bad"}
        <5>1. ItemGives(deeper, n, above, l) = Noted(<<"invalid group item", n>>)
          BY <4>3 DEF ItemGives
        <5>2. IsPy(Noted(<<"invalid group item", n>>), K)
          BY <1>4
        <5> QED BY <5>1, <5>2
      <4> QED BY <4>1, <4>2, <4>3
    <3>4. \A i \in DOMAIN L : IsPy(R[i], K)
      BY <3>3, SeqFacts
    <3>5. R = [i \in DOMAIN L |-> R[i]] OBVIOUS
    <3>6. GroupTable(x, deeper, left, n, above) = All(R)
      BY <2>1, <2>5, GroupRead DEF ItemsGive
    <3> HIDE DEF R
    <3>7. IsPy(All(R), K)
      BY <3>2, <3>4, <3>5, EachIs
    <3> QED BY <2>2, <3>6, <3>7
  <2> QED BY <2>3, <2>4, <2>5
<1>7. \A left \in 0..N : left \in S
  <2>1. 0 \in S
    BY <1>1, <1>5
  <2>2. \A i \in 1..N : i - 1 \in S => i \in S
    <3> HIDE DEF Fine
    <3>1. \A i \in 1..N : i \in 0..N
      BY <1>1
    <3> QED BY <1>6, <3>1
  <2> HIDE DEF S
  <2> QED BY <1>1, <2>1, <2>2, UpTo
<1> QED BY <1>2, <1>7 DEF K

LEMMA ResolveGroupIs ==
  ASSUME NEW x, IsList(x, IsTable), NEW start \in GroupNames(x)
  PROVE  IsPy(ResolveGroup(x, start), {"group cycle"})
<1>1. PICK read : /\ IsLevels("groups", x, Visits(GroupNames(x)), MaxDepth + 1, read)
                  /\ \A s : ResolveGroup(x, s) = read[MaxDepth + 1][<<s, {}>>]
  BY GroupsUnfold
<1>2. MaxDepth + 1 \in 0..(MaxDepth + 1)
  BY CapAssumption
<1>3. IsPy(read[MaxDepth + 1][<<start, {}>>], {"group cycle"})
  BY <1>1, <1>2, GroupsAre
<1> QED BY <1>1, <1>3

LEMMA DependencyGroupsIs ==
  ASSUME NEW x, IsList(x, IsTable)
  PROVE  /\ IsPy(DependencyGroups(x), {"group cycle"})
         /\ \A g \in Range(x) : ResolveGroup(x, g.name).notes \subseteq DependencyGroups(x).notes
         /\ \A y \in DependencyGroups(x).notes : \E g \in Range(x) : y \in ResolveGroup(x, g.name).notes
<1> DEFINE R == [i \in DOMAIN x |-> ResolveGroup(x, x[i].name)]
<1>1. IsSeq(x) /\ \A i \in DOMAIN x : x[i] \in Range(x)
  BY SeqFacts DEF IsList, IsSeq
<1>2. DependencyGroups(x) = All(R)
  BY DEF DependencyGroups, Each
<1>3. \A i \in DOMAIN x : IsResult(R[i], DOMAIN Normal, {"group cycle"})
  <2>1. \A i \in DOMAIN x : x[i].name \in GroupNames(x)
    BY <1>1 DEF GroupNames
  <2> QED BY <2>1, ResolveGroupIs DEF IsPy
<1>4. R = [i \in DOMAIN x |-> R[i]] /\ \A i \in DOMAIN x : R[i] = ResolveGroup(x, x[i].name)
  OBVIOUS
<1> HIDE DEF R
<1>5. /\ IsResult(All(R), DOMAIN Normal, {"group cycle"})
      /\ \A i \in DOMAIN x : R[i].notes \subseteq All(R).notes
      /\ \A y \in All(R).notes : \E i \in DOMAIN x : y \in R[i].notes
  BY <1>1, <1>3, <1>4, AllIs
<1>6. \A g \in Range(x) : \E i \in DOMAIN x : x[i] = g
  BY SeqFacts
<1>7. \A g \in Range(x) : ResolveGroup(x, g.name).notes \subseteq All(R).notes
  BY <1>4, <1>5, <1>6
<1>8. \A y \in All(R).notes : \E g \in Range(x) : y \in ResolveGroup(x, g.name).notes
  BY <1>1, <1>4, <1>5
<1> QED BY <1>2, <1>5, <1>7, <1>8 DEF IsPy

\* A file that cannot be read leaves a note that tells of no cycle.
LEMMA ParsedIs ==
  ASSUME NEW file, NEW f, NEW r, NEW kinds, f.ok => IsPy(r, kinds)
  PROVE  /\ IsPy(Parsed(file, f, r), kinds)
         /\ f.ok => Parsed(file, f, r) = r
         /\ ~ f.ok => \A y \in Parsed(file, f, r).notes : y[1] \notin Cycles
<1>1. IsPy(Noted(<<"unreadable", file>>), kinds) /\ \A y \in Noted(<<"unreadable", file>>).notes : y[1] \notin Cycles
  <2>1. <<"unreadable", file>>[1] = "unreadable" /\ "unreadable" \notin Cycles
    BY DEF Cycles
  <2>2. Noted(<<"unreadable", file>>).notes = {<<"unreadable", file>>}
    BY DEF Noted
  <2>3. IsPy(Noted(<<"unreadable", file>>), kinds)
    BY <2>1, SmallResults DEF IsPy
  <2> QED BY <2>1, <2>2, <2>3
<1>2. Parsed(file, f, r) = IF f.ok THEN r ELSE Noted(<<"unreadable", file>>)
  BY DEF Parsed
<1> QED BY <1>1, <1>2

\* What tells of no cycle may go with what does.
LEMMA Weaker ==
  ASSUME NEW r, NEW kinds, IsPy(r, {})
  PROVE  IsPy(r, kinds) /\ \A y \in r.notes : y[1] \notin Cycles
BY SmallResults DEF IsPy, IsResult

LEMMA TablesAre ==
  ASSUME NEW seq, IsList(seq, IsTable), NEW kinds, NEW file, NEW section
  PROVE  IsPy(Tables(seq, file, section), kinds)
<1> DEFINE R == [i \in DOMAIN seq |-> Items(seq[i].items, Label(file, section, seq[i].name))]
<1>1. IsSeq(seq) /\ \A i \in DOMAIN seq : IsItems(seq[i].items)
  BY SeqFacts DEF IsList, IsSeq, IsTable
<1>2. \A i \in DOMAIN seq : IsPy(R[i], kinds)
  BY <1>1, ItemsIs
<1>3. R = [i \in DOMAIN seq |-> R[i]] OBVIOUS
<1>4. Tables(seq, file, section) = All(R)
  BY DEF Tables
<1> HIDE DEF R
<1>5. IsPy(All(R), kinds)
  BY <1>1, <1>2, <1>3, EachIs
<1> QED BY <1>4, <1>5

LEMMA PoetrySectionIs ==
  ASSUME NEW f, IsPyproject(f), NEW kinds
  PROVE  /\ IsPy(PoetrySection(f), kinds)
         /\ \A n \in Pinned(f.poetry) : n # <<"python">> =>
              Gives(PoetrySection(f), n, Pyproject("poetry", None))
<1> DEFINE seq == f.poetryGroups
           R == [i \in DOMAIN seq |-> PoetryTable(seq[i].items, Pyproject("poetry.group", seq[i].name))]
           a == PoetryTable(f.poetry, Pyproject("poetry", None))
           b == PoetryTable(f.poetryDev, Pyproject("poetry.dev-dependencies", None))
<1>1. IsSeq(seq) /\ \A i \in DOMAIN seq : IsPinned(seq[i].items)
  BY SeqFacts DEF IsPyproject, IsList, IsSeq, IsPinTable
<1>2. \A i \in DOMAIN seq : IsPy(R[i], kinds)
  BY <1>1, PoetryTableIs
<1>3. R = [i \in DOMAIN seq |-> R[i]] OBVIOUS
<1>4. PoetrySection(f) = All(<<a, b, All(R)>>)
  BY DEF PoetrySection, Each
<1>5. IsPy(a, kinds) /\ \A n \in Pinned(f.poetry) : n # <<"python">> => Gives(a, n, Pyproject("poetry", None))
  BY PoetryTableIs DEF IsPyproject
<1>6. IsPy(b, kinds)
  BY PoetryTableIs DEF IsPyproject
<1> HIDE DEF R, a, b
<1>7. IsPy(All(R), kinds)
  <2> HIDE DEF seq
  <2> QED BY <1>1, <1>2, <1>3, EachIs
<1> DEFINE c == All(R)
<1> HIDE DEF c
<1>8. /\ IsPy(All(<<a, b, c>>), kinds)
      /\ \A n, from : Gives(a, n, from) => Gives(All(<<a, b, c>>), n, from)
  BY <1>5, <1>6, <1>7, AllOfFew DEF c
<1> QED BY <1>4, <1>5, <1>8 DEF c

LEMMA PyprojectTomlIs ==
  ASSUME NEW f, f.ok => IsPyproject(f)
  PROVE  /\ IsPy(PyprojectToml(f), {"group cycle"})
         /\ f.ok =>
              /\ \A n \in NameItems(f.project) : Gives(PyprojectToml(f), n, Pyproject("project", None))
              /\ \A n \in NameItems(f.requires) : Gives(PyprojectToml(f), n, Pyproject("build-system", None))
              /\ \A n \in Pinned(f.poetry) : n # <<"python">> =>
                   Gives(PyprojectToml(f), n, Pyproject("poetry", None))
              /\ DependencyGroups(f.groups).notes \subseteq PyprojectToml(f).notes
         /\ \A y \in PyprojectToml(f).notes :
              y[1] \in Cycles => f.ok /\ y \in DependencyGroups(f.groups).notes
<1> DEFINE K == {"group cycle"}
           a == Items(f.project, Pyproject("project", None))
           b == Each(f.extras, LAMBDA g : Items(g.items, Pyproject("optional-dependencies", g.name)))
           c == PoetrySection(f)
           d == Items(f.requires, Pyproject("build-system", None))
           e == DependencyGroups(f.groups)
           r == All(<<a, b, c, d, e>>)
<1>1. PyprojectToml(f) = Parsed("pyproject.toml", f, r)
  BY DEF PyprojectToml
<1>2. ASSUME f.ok
      PROVE  /\ IsPy(r, K)
             /\ \A n \in NameItems(f.project) : Gives(r, n, Pyproject("project", None))
             /\ \A n \in NameItems(f.requires) : Gives(r, n, Pyproject("build-system", None))
             /\ \A n \in Pinned(f.poetry) : n # <<"python">> => Gives(r, n, Pyproject("poetry", None))
             /\ e.notes \subseteq r.notes
             /\ \A y \in r.notes : y[1] \in Cycles => y \in e.notes
  <2>0. IsPyproject(f)
    BY <1>2
  <2>1. IsPy(a, {}) /\ \A n \in NameItems(f.project) : Gives(a, n, Pyproject("project", None))
    BY <2>0, ItemsIs DEF IsPyproject
  <2>2. IsPy(b, {})
    <3>1. IsList(f.extras, IsTable)
      BY <2>0 DEF IsPyproject
    <3>2. b = Tables(f.extras, "pyproject.toml", "optional-dependencies")
      BY DEF Each, Pyproject, Tables
    <3> HIDE DEF b
    <3> QED BY <3>1, <3>2, TablesAre
  <2>3. IsPy(c, {}) /\ \A n \in Pinned(f.poetry) : n # <<"python">> => Gives(c, n, Pyproject("poetry", None))
    BY <2>0, PoetrySectionIs
  <2>4. IsPy(d, {}) /\ \A n \in NameItems(f.requires) : Gives(d, n, Pyproject("build-system", None))
    BY <2>0, ItemsIs DEF IsPyproject
  <2>5. IsPy(e, K)
    BY <2>0, DependencyGroupsIs DEF IsPyproject
  <2> HIDE DEF a, b, c, d, e
  <2>6. IsPy(a, K) /\ IsPy(b, K) /\ IsPy(c, K) /\ IsPy(d, K)
    <3> HIDE DEF K
    <3> QED BY <2>1, <2>2, <2>3, <2>4, Weaker
  <2>7. \A y \in a.notes \cup b.notes \cup c.notes \cup d.notes : y[1] \notin Cycles
    BY <2>1, <2>2, <2>3, <2>4, Weaker
  <2>8. /\ IsPy(r, K)
        /\ \A n, from : Gives(a, n, from) \/ Gives(b, n, from) \/ Gives(c, n, from)
                        \/ Gives(d, n, from) \/ Gives(e, n, from) => Gives(r, n, from)
        /\ r.notes = a.notes \cup b.notes \cup c.notes \cup d.notes \cup e.notes
    <3> HIDE DEF K
    <3> QED BY <2>5, <2>6, AllOfFew
  <2> HIDE DEF r
  <2> QED BY <2>1, <2>3, <2>4, <2>7, <2>8
<1> HIDE DEF a, b, c, d, r
<1>3. /\ IsPy(PyprojectToml(f), K)
      /\ f.ok => PyprojectToml(f) = r
      /\ ~ f.ok => \A y \in PyprojectToml(f).notes : y[1] \notin Cycles
  <2> HIDE DEF K
  <2> QED BY <1>1, <1>2, ParsedIs
<1> QED BY <1>2, <1>3

\* A note of a kind that tells of no cycle.
LEMMA NoteIs ==
  ASSUME NEW y, y \notin Cycles, NEW z, NEW kinds
  PROVE  IsPy(Noted(<<y, z>>), kinds)
<1>1. <<y, z>>[1] = y OBVIOUS
<1> QED BY <1>1, SmallResults DEF IsPy

LEMMA NothingIs ==
  ASSUME NEW kinds
  PROVE  IsPy(Nothing, kinds)
BY SmallResults DEF IsPy

LEMMA RequirementListIs ==
  ASSUME NEW value, NEW bindings, IsListing(Deref(value, bindings)), NEW from, NEW kinds
  PROVE  IsPy(RequirementList(value, bindings, from), kinds)
<1> DEFINE v == Deref(value, bindings)
<1>1. IsPy(Noted(<<"dynamic", "setup.py">>), kinds)
  BY NoteIs DEF Cycles
<1>2. v.form = "list" => IsPy(Items(v.items, from), kinds)
  BY ItemsIs DEF IsListing
<1>3. RequirementList(value, bindings, from) =
        IF v.form = "list" THEN Items(v.items, from) ELSE Noted(<<"dynamic", "setup.py">>)
  BY DEF RequirementList
<1> QED BY <1>1, <1>2, <1>3

LEMMA ExtrasDictIs ==
  ASSUME NEW value, NEW bindings, IsExtras(Deref(value, bindings), bindings), NEW kinds
  PROVE  IsPy(ExtrasDict(value, bindings), kinds)
<1> DEFINE v == Deref(value, bindings)
           L(g) == Label("setup.py", "extras_require", g.name)
           R == [i \in DOMAIN v.items |-> RequirementList(v.items[i].value, bindings, L(v.items[i]))]
<1>1. CASE v.form # "dict"
  BY <1>1, NothingIs DEF ExtrasDict
<1>2. CASE v.form = "dict"
  <2>1. IsSeq(v.items) /\ \A i \in DOMAIN v.items : IsListing(Deref(v.items[i].value, bindings))
    BY <1>2, SeqFacts DEF IsExtras, IsList, IsSeq
  <2>2. \A i \in DOMAIN v.items : IsPy(R[i], kinds)
    BY <2>1, RequirementListIs
  <2>3. R = [i \in DOMAIN v.items |-> R[i]] OBVIOUS
  <2>4. ExtrasDict(value, bindings) = All(R)
    BY <1>2 DEF ExtrasDict, Each
  <2> HIDE DEF R
  <2>5. IsPy(All(R), kinds)
    <3> HIDE DEF v
    <3> QED BY <2>1, <2>2, <2>3, EachIs
  <2> QED BY <2>4, <2>5
<1> QED BY <1>1, <1>2

LEMMA CallIs ==
  ASSUME NEW call, NEW bindings, IsSeq(call), \A kw \in Range(call) : ArgumentIs(kw, bindings), NEW kinds
  PROVE  IsPy(CallGives(call, bindings), kinds)
<1> DEFINE R == [i \in DOMAIN call |-> ArgumentGives(call[i], bindings)]
<1>1. ASSUME NEW kw \in Range(call)
      PROVE  IsPy(ArgumentGives(kw, bindings), kinds)
  <2>1. CASE kw.arg = "install_requires"
    <3>1. ArgumentGives(kw, bindings) =
            RequirementList(kw.value, bindings, Label("setup.py", "install_requires", None))
      BY <2>1 DEF ArgumentGives
    <3>2. IsListing(Deref(kw.value, bindings))
      BY <2>1 DEF ArgumentIs
    <3> QED BY <3>1, <3>2, RequirementListIs
  <2>2. CASE kw.arg = "extras_require"
    <3>1. ArgumentGives(kw, bindings) = ExtrasDict(kw.value, bindings)
      BY <2>2 DEF ArgumentGives
    <3>2. IsExtras(Deref(kw.value, bindings), bindings)
      BY <2>2 DEF ArgumentIs
    <3> QED BY <3>1, <3>2, ExtrasDictIs
  <2>3. CASE kw.arg \notin {"install_requires", "extras_require"}
    BY <2>3, NothingIs DEF ArgumentGives
  <2> QED BY <2>1, <2>2, <2>3
<1>2. \A i \in DOMAIN call : IsPy(R[i], kinds)
  BY <1>1, SeqFacts
<1>3. R = [i \in DOMAIN call |-> R[i]] OBVIOUS
<1>4. CallGives(call, bindings) = All(R)
  BY DEF CallGives
<1> HIDE DEF R
<1>5. IsPy(All(R), kinds)
  BY <1>2, <1>3, EachIs
<1> QED BY <1>4, <1>5

LEMMA SetupPyIs ==
  ASSUME NEW f, f.ok => IsSetupPy(f), NEW kinds
  PROVE  IsPy(SetupPy(f), kinds)
<1> DEFINE R == [i \in DOMAIN f.calls |-> CallGives(f.calls[i], f.bindings)]
           r == IF f.calls = <<>> THEN Noted(<<"no setup call", "setup.py">>) ELSE All(R)
<1>1. SetupPy(f) = Parsed("setup.py", f, r)
  BY DEF SetupPy, Each, CallGives, ArgumentGives
<1>2. ASSUME f.ok PROVE IsPy(r, kinds)
  <2>1. /\ IsSeq(f.calls)
        /\ \A i \in DOMAIN f.calls :
             IsSeq(f.calls[i]) /\ \A kw \in Range(f.calls[i]) : ArgumentIs(kw, f.bindings)
    BY <1>2, SeqFacts DEF IsSetupPy, IsNested, IsList, IsSeq, ArgumentIs
  <2>2. \A i \in DOMAIN f.calls : IsPy(R[i], kinds)
    BY <2>1, CallIs
  <2>3. R = [i \in DOMAIN f.calls |-> R[i]] OBVIOUS
  <2>4. IsPy(Noted(<<"no setup call", "setup.py">>), kinds)
    BY NoteIs DEF Cycles
  <2> HIDE DEF R
  <2>5. IsPy(All(R), kinds)
    BY <2>1, <2>2, <2>3, EachIs
  <2> QED BY <2>4, <2>5
<1> HIDE DEF r
<1> QED BY <1>1, <1>2, ParsedIs

LEMMA SetupCfgIs ==
  ASSUME NEW f, f.ok => IsItems(f.install) /\ IsList(f.extras, IsTable), NEW kinds
  PROVE  /\ IsPy(SetupCfg(f), kinds)
         /\ f.ok => \A n \in NameItems(f.install) :
              Gives(SetupCfg(f), n, Label("setup.cfg", "install_requires", None))
<1> DEFINE a == Items(f.install, Label("setup.cfg", "install_requires", None))
           b == Tables(f.extras, "setup.cfg", "extras_require")
           r == Joined(a, b)
<1>1. SetupCfg(f) = Parsed("setup.cfg", f, r)
  BY DEF SetupCfg, Each, Tables
<1>2. ASSUME f.ok
      PROVE  /\ IsPy(r, kinds)
             /\ \A n \in NameItems(f.install) : Gives(r, n, Label("setup.cfg", "install_requires", None))
  <2>1. IsPy(b, kinds)
    BY <1>2, TablesAre
  <2>2. /\ IsPy(a, kinds)
        /\ \A n \in NameItems(f.install) : Gives(a, n, Label("setup.cfg", "install_requires", None))
    BY <1>2, ItemsIs
  <2> HIDE DEF a, b
  <2>3. IsPy(r, kinds) /\ \A n, from : Gives(a, n, from) => Gives(r, n, from)
    BY <2>1, <2>2, JoinedIs DEF IsPy
  <2> QED BY <2>2, <2>3
<1> HIDE DEF r
<1>3. IsPy(SetupCfg(f), kinds) /\ (f.ok => SetupCfg(f) = r)
  BY <1>1, <1>2, ParsedIs
<1> QED BY <1>2, <1>3

\* Pins, each with a version and one label for all of them.
LEMMA PipfileIs ==
  ASSUME NEW f, f.ok => IsPinned(f.packages) /\ IsPinned(f.dev), NEW kinds
  PROVE  /\ IsPy(Pipfile(f), kinds)
         /\ f.ok => \A n \in Pinned(f.packages) : Gives(Pipfile(f), n, Of("Pipfile"))
<1> DEFINE A == [i \in DOMAIN f.packages |->
                   One(f.packages[i].name, Unstarred(f.packages[i].version), Of("Pipfile"))]
           B == [i \in DOMAIN f.dev |->
                   One(f.dev[i].name, Unstarred(f.dev[i].version), Label("Pipfile", "dev", None))]
           r == Joined(All(A), All(B))
<1>1. Pipfile(f) = Parsed("Pipfile", f, r)
  BY DEF Pipfile, Each
<1>2. ASSUME f.ok
      PROVE  IsPy(r, kinds) /\ \A n \in Pinned(f.packages) : Gives(r, n, Of("Pipfile"))
  <2>0. \A n, v, from : One(n, v, from) # Nothing
    BY DEF One, Nothing
  <2>1. /\ A = [i \in DOMAIN f.packages |-> A[i]]
        /\ \A i \in DOMAIN f.packages : A[i] # Nothing /\ \E v : A[i] = One(f.packages[i].name, v, Of("Pipfile"))
    BY <2>0
  <2>2. /\ B = [i \in DOMAIN f.dev |-> B[i]]
        /\ \A i \in DOMAIN f.dev : \E v : B[i] = One(f.dev[i].name, v, Label("Pipfile", "dev", None))
    OBVIOUS
  <2> HIDE DEF A, B
  <2>3. /\ IsPy(All(A), kinds)
        /\ \A n : (\E i \in DOMAIN f.packages : f.packages[i].name = n /\ A[i] # Nothing)
                    => Gives(All(A), n, Of("Pipfile"))
    BY <1>2, <2>1, PinsIs
  <2>4. IsPy(All(B), kinds)
    BY <1>2, <2>2, PinsIs
  <2>5. \A n \in Pinned(f.packages) : \E i \in DOMAIN f.packages : f.packages[i].name = n
    BY SeqFacts DEF Pinned
  <2>6. IsPy(r, kinds) /\ \A n, from : Gives(All(A), n, from) => Gives(r, n, from)
    BY <2>3, <2>4, JoinedIs DEF IsPy
  <2> QED BY <2>1, <2>3, <2>5, <2>6
<1> HIDE DEF r
<1>3. IsPy(Pipfile(f), kinds) /\ (f.ok => Pipfile(f) = r)
  BY <1>1, <1>2, ParsedIs
<1> QED BY <1>2, <1>3

LEMMA PipfileLockIs ==
  ASSUME NEW f, f.ok => IsPinned(f.default) /\ IsPinned(f.develop), NEW kinds
  PROVE  IsPy(PipfileLock(f), kinds)
<1> DEFINE s == f.default \o f.develop
           R == [i \in DOMAIN s |-> One(s[i].name, s[i].version, Of("Pipfile.lock"))]
<1>1. PipfileLock(f) = Parsed("Pipfile.lock", f, All(R))
  BY DEF PipfileLock, Each
<1>2. ASSUME f.ok PROVE IsPy(All(R), kinds)
  <2>1. IsPinned(s)
    <3> DEFINE X == Range(f.default) \cup Range(f.develop)
    <3>1. /\ f.default \in Seq(X) /\ f.develop \in Seq(X)
          /\ \A p \in X : IsPin(p)
      BY <1>2, SeqFacts DEF IsPinned, IsList, IsSeq
    <3>2. s \in Seq(X) /\ Range(s) = Range(f.default) \cup Range(f.develop)
      <4> HIDE DEF X
      <4> QED BY <3>1, RangeOfConcat
    <3>3. IsSeq(s)
      <4> HIDE DEF X, s
      <4> QED BY <3>2, SeqFacts
    <3> QED BY <3>1, <3>2, <3>3 DEF IsPinned, IsList, IsSeq
  <2>2. /\ R = [i \in DOMAIN s |-> R[i]]
        /\ \A i \in DOMAIN s : \E v : R[i] = One(s[i].name, v, Of("Pipfile.lock"))
    OBVIOUS
  <2> HIDE DEF R, s
  <2> QED BY <2>1, <2>2, PinsIs
<1> HIDE DEF R
<1> QED BY <1>1, <1>2, ParsedIs

LEMMA LockedGivesIs ==
  ASSUME NEW p, IsPin(p), NEW file, NEW direct, NEW kinds
  PROVE  IsPy(LockedGives(p, file, direct), kinds)
<1> DEFINE e == [Entry(p.name, p.version, Of(file)) EXCEPT !.transitive = Normal[p.name] \notin direct]
           r == LockedGives(p, file, direct)
<1>1. IsEntry(e, DOMAIN Normal)
  <2>1. /\ e.name = p.name /\ e.transitive = (Normal[p.name] \notin direct)
        /\ e = [name |-> e.name, version |-> e.version, source |-> e.source, transitive |-> e.transitive]
    BY DEF Entry
  <2>2. (Normal[p.name] \notin direct) \in BOOLEAN OBVIOUS
  <2> QED BY <2>1, <2>2 DEF IsEntry, IsPin
<1>2. r.deps = <<e>> /\ r.notes = {} /\ r = [deps |-> r.deps, notes |-> r.notes]
  <2>1. \A X : [Nothing EXCEPT !.deps = X] = [deps |-> X, notes |-> {}]
    BY DEF Nothing
  <2>2. r = [Nothing EXCEPT !.deps = <<e>>]
    BY DEF LockedGives
  <2> HIDE DEF e, r
  <2> QED BY <2>1, <2>2
<1> HIDE DEF e, r
<1>3. IsSeq(<<e>>) /\ Range(<<e>>) = {e}
  <2>1. \A X : e \in X => <<e>> \in Seq(X) OBVIOUS
  <2>2. Range(<<e>>) = {e}
    BY DEF Range
  <2> QED BY <2>1, <2>2 DEF IsSeq
<1>4. IsPy(r, kinds)
  BY <1>1, <1>2, <1>3 DEF IsPy, IsResult, IsEntries
<1> QED BY <1>4 DEF r

LEMMA LockedPackagesIs ==
  ASSUME NEW seq, IsPinned(seq), NEW file, NEW direct, NEW kinds
  PROVE  IsPy(LockedPackages(seq, file, direct), kinds)
<1> DEFINE R == [i \in DOMAIN seq |-> LockedGives(seq[i], file, direct)]
<1>1. IsSeq(seq) /\ \A i \in DOMAIN seq : IsPin(seq[i])
  BY SeqFacts DEF IsPinned, IsList, IsSeq
<1>2. \A i \in DOMAIN seq : IsPy(R[i], kinds)
  BY <1>1, LockedGivesIs
<1>3. R = [i \in DOMAIN seq |-> R[i]] OBVIOUS
<1>4. LockedPackages(seq, file, direct) = All(R)
  BY DEF LockedPackages, Each, LockedGives
<1> HIDE DEF R
<1>5. IsPy(All(R), kinds)
  BY <1>1, <1>2, <1>3, EachIs
<1> QED BY <1>4, <1>5

LEMMA PoetryLockIs ==
  ASSUME NEW f, f.ok => IsList(f.packages, IsLocked), NEW deps, NEW kinds
  PROVE  IsPy(PoetryLock(f, deps), kinds)
<1> DEFINE r == LockedPackages(f.packages, "poetry.lock", PoetryDirect(deps))
<1>1. f.ok => IsPinned(f.packages)
  BY DEF IsPinned, IsList, IsLocked
<1>2. f.ok => IsPy(r, kinds)
  BY <1>1, LockedPackagesIs
<1>3. PoetryLock(f, deps) = Parsed("poetry.lock", f, r)
  BY DEF PoetryLock
<1> HIDE DEF r
<1> QED BY <1>2, <1>3, ParsedIs

LEMMA UvLockIs ==
  ASSUME NEW f, f.ok => IsList(f.packages, IsLocked), NEW kinds
  PROVE  IsPy(UvLock(f), kinds)
<1> DEFINE P == f.packages
           T == {i \in DOMAIN P : ~ P[i].root}
           s == Some(P, T)
           r == LockedPackages(s, "uv.lock", UvRootNames(P))
<1>1. f.ok => IsPinned(s)
  <2> SUFFICES ASSUME f.ok PROVE IsPinned(s) OBVIOUS
  <2>1. IsSeq(P) /\ \A p \in Range(P) : IsPin(p)
    BY DEF IsList, IsSeq, IsLocked
  <2> HIDE DEF T
  <2>2. IsSeq(s) /\ Range(s) = {P[i] : i \in T \cap DOMAIN P}
    BY <2>1, SomeIs
  <2>3. \A p \in Range(s) : IsPin(p)
    BY <2>1, <2>2, SeqFacts
  <2> QED BY <2>2, <2>3 DEF IsPinned, IsList, IsSeq
<1>2. f.ok => IsPy(r, kinds)
  <2> HIDE DEF s
  <2> QED BY <1>1, LockedPackagesIs
<1>3. UvLock(f) = Parsed("uv.lock", f, r)
  <2>1. Only(P, LAMBDA p : ~ p.root) = s
    BY DEF Only, Some
  <2> QED BY <2>1 DEF UvLock
<1> HIDE DEF r
<1> QED BY <1>2, <1>3, ParsedIs

LEMMA EnvironmentYmlIs ==
  ASSUME NEW f, f.ok => IsList(f.items, LAMBDA i : IF i.kind = "pip" THEN IsTable(i) ELSE IsItem(i)),
         NEW kinds
  PROVE  IsPy(EnvironmentYml(f), kinds)
<1> DEFINE seq == f.items
           R == [i \in DOMAIN seq |-> CondaGives(seq[i])]
<1>1. EnvironmentYml(f) = Parsed("environment.yml", f, All(R))
  BY DEF EnvironmentYml, Each, CondaGives
<1>2. ASSUME f.ok PROVE IsPy(All(R), kinds)
  <2>1. IsSeq(seq) /\ \A i \in Range(seq) : IF i.kind = "pip" THEN IsTable(i) ELSE IsItem(i)
    BY <1>2 DEF IsList, IsSeq
  <2>2. ASSUME NEW i \in Range(seq)
        PROVE  IsPy(CondaGives(i), kinds)
    <3>1. CASE i.kind = "pip"
      BY <2>1, <3>1, ItemsIs DEF CondaGives, IsTable
    <3>2. CASE i.kind # "pip"
      <4>1. CondaGives(i) = CondaScalar(i) /\ (i.kind = "name" => i.name \in DOMAIN Normal)
        BY <2>1, <3>2 DEF CondaGives, IsItem, IsPin
      <4> QED BY <4>1, SmallResults DEF IsPy, CondaScalar
    <3> QED BY <3>1, <3>2
  <2>3. \A i \in DOMAIN seq : IsPy(R[i], kinds)
    BY <2>2, SeqFacts
  <2>4. R = [i \in DOMAIN seq |-> R[i]] OBVIOUS
  <2> HIDE DEF R, seq
  <2> QED BY <2>1, <2>3, <2>4, EachIs
<1> HIDE DEF R
<1> QED BY <1>1, <1>2, ParsedIs

LEMMA PipTokenIs ==
  ASSUME NEW w, IsItem(w), NEW from, NEW kinds
  PROVE  IsPy(PipToken(w, from), kinds) /\ IsPy(WordGives(w, from), kinds)
<1>1. IsPy(PipToken(w, from), kinds)
  <2>1. w.kind = "name" => w.name \in DOMAIN Normal
    BY DEF IsItem, IsPin
  <2> QED BY <2>1, SmallResults DEF IsPy, PipToken
<1>2. IsPy(Noted(<<"variable", from.file>>), kinds)
  BY NoteIs DEF Cycles
<1> QED BY <1>1, <1>2 DEF WordGives

LEMMA TokensAre ==
  ASSUME NEW seq, IsItems(seq), NEW from, NEW kinds
  PROVE  IsPy(TokensGive(seq, from), kinds)
<1> DEFINE R == [i \in DOMAIN seq |-> PipToken(seq[i], from)]
<1>1. IsSeq(seq) /\ \A i \in DOMAIN seq : IsItem(seq[i])
  BY SeqFacts DEF IsItems, IsList, IsSeq
<1>2. \A i \in DOMAIN seq : IsPy(R[i], kinds)
  BY <1>1, PipTokenIs
<1>3. R = [i \in DOMAIN seq |-> R[i]] /\ TokensGive(seq, from) = All(R)
  BY DEF TokensGive
<1> HIDE DEF R
<1>4. IsPy(All(R), kinds)
  BY <1>1, <1>2, <1>3, EachIs
<1> QED BY <1>3, <1>4

LEMMA PipWordsIs ==
  ASSUME NEW seq, IsItems(seq), NEW from, NEW kinds
  PROVE  IsPy(PipWords(seq, from), kinds)
<1> DEFINE base == [skip |-> FALSE, out |-> <<>>]
           n == Len(seq)
           X == Range(seq)
           Fine(a) == a = [skip |-> a.skip, out |-> a.out] /\ a.out \in Seq(X)
<1>1. seq \in Seq(X) /\ IsSeq(seq) /\ DOMAIN seq = 1..n /\ n \in Nat /\ \A i \in X : IsItem(i)
  BY SeqFacts DEF IsItems, IsList, IsSeq
<1>2. PICK m : /\ m[0] = base
               /\ \A i \in 1..n : m[i] = PipWord(m[i - 1], seq[i])
               /\ FoldLeft(PipWord, base, seq) = m[n]
  <2> HIDE DEF base
  <2>1. seq \in Seq(Range(seq))
    BY <1>1
  <2>2. \E m : /\ m[0] = base /\ \A i \in 1..Len(seq) : m[i] = PipWord(m[i - 1], seq[i])
               /\ FoldLeft(PipWord, base, seq) = m[Len(seq)]
    BY <2>1, FoldPip
  <2> QED BY <2>2
<1>3. \A a, w : Fine(a) /\ w \in X => Fine(PipWord(a, w))
  <2> SUFFICES ASSUME NEW a, NEW w \in X, Fine(a) PROVE Fine(PipWord(a, w)) OBVIOUS
  <2>1. Append(a.out, w) \in Seq(X)
    <3> HIDE DEF X
    <3> QED OBVIOUS
  <2> HIDE DEF X
  <2> QED BY <2>1 DEF PipWord
<1>4. Fine(base)
  <2>1. \A Y : <<>> \in Seq(Y) OBVIOUS
  <2> QED BY <2>1
<1> HIDE DEF Fine
<1>5. Fine(m[n])
  <2> DEFINE S == {i \in 0..n : Fine(m[i])}
  <2>1. 0 \in S
    BY <1>1, <1>2, <1>4
  <2>2. \A i \in 1..n : i - 1 \in S => i \in S
    <3>1. \A i \in 1..n : i \in 0..n /\ seq[i] \in X
      BY <1>1, SeqFacts
    <3> QED BY <1>2, <1>3, <3>1
  <2>3. n \in 0..n
    BY <1>1
  <2> HIDE DEF S
  <2>4. n \in S
    <3> HIDE DEF n
    <3> QED BY <1>1, <2>1, <2>2, <2>3, UpTo
  <2> QED BY <2>4 DEF S
<1> DEFINE out == m[n].out
           R == [i \in DOMAIN out |-> WordGives(out[i], from)]
<1>6. IsSeq(out) /\ \A i \in DOMAIN out : IsItem(out[i])
  <2>1. out \in Seq(X)
    BY <1>5 DEF Fine
  <2> HIDE DEF X, out
  <2> QED BY <1>1, <2>1, SeqFacts
<1>7. PipWords(seq, from) = All(R)
  BY <1>2 DEF PipWords, Each, WordGives
<1>8. \A i \in DOMAIN out : IsPy(R[i], kinds)
  BY <1>6, PipTokenIs
<1>9. R = [i \in DOMAIN out |-> R[i]] OBVIOUS
<1> HIDE DEF R, out
<1>10. IsPy(All(R), kinds)
  BY <1>6, <1>8, <1>9, EachIs
<1> QED BY <1>7, <1>10

LEMMA ShellBlockIs ==
  ASSUME NEW lines, IsShell(lines), NEW from, NEW kinds
  PROVE  IsPy(ShellBlock(lines, from), kinds)
<1>1. /\ IsSeq(lines)
      /\ \A l \in Range(lines) :
           IsSeq(l) /\ \A c \in Range(l) : c.install => IsItems(c.words)
  BY DEF IsShell, IsNested, IsList, IsSeq
<1>2. ASSUME NEW l \in Range(lines)
      PROVE  IsPy(LineOfShell(l, from), kinds)
  <2> DEFINE R == [i \in DOMAIN l |-> ChunkGives(l[i], from)]
  <2>1. \A i \in DOMAIN l : IsPy(R[i], kinds)
    <3>1. \A c \in Range(l) : IsPy(ChunkGives(c, from), kinds)
      BY <1>1, PipWordsIs, NothingIs DEF ChunkGives
    <3> QED BY <3>1, SeqFacts
  <2>2. R = [i \in DOMAIN l |-> R[i]] /\ LineOfShell(l, from) = All(R)
    BY DEF LineOfShell
  <2> HIDE DEF R
  <2>3. IsPy(All(R), kinds)
    BY <1>1, <2>1, <2>2, EachIs
  <2> QED BY <2>2, <2>3
<1> DEFINE R == [i \in DOMAIN lines |-> LineOfShell(lines[i], from)]
<1>3. \A i \in DOMAIN lines : IsPy(R[i], kinds)
  BY <1>2, SeqFacts
<1>4. R = [i \in DOMAIN lines |-> R[i]] /\ ShellBlock(lines, from) = All(R)
  BY DEF ShellBlock, Each, LineOfShell, ChunkGives
<1> HIDE DEF R
<1>5. IsPy(All(R), kinds)
  BY <1>1, <1>3, <1>4, EachIs
<1> QED BY <1>4, <1>5

LEMMA ToxTooDeep ==
  ASSUME NEW x, NEW deeper, NEW at, NEW above
  PROVE  ToxText(x, deeper, 0, at, above) = Joined(Noted(<<"tox depth", at>>), TokensGive(x[at], Of("tox.ini")))
BY DEF ToxText, Each, TokensGive

LEMMA ToxRead ==
  ASSUME NEW x, NEW deeper, NEW left, NEW at, NEW above, left # 0
  PROVE  ToxText(x, deeper, left, at, above) = RefsGive(x, deeper, at, above)
BY DEF ToxText, Each, RefsGive, RefGives

LEMMA ToxAre ==
  ASSUME NEW x, AreSections(x), NEW read,
         IsLevels("tox", x, Visits(DOMAIN x), MaxDepth, read)
  PROVE  \A left \in 0..MaxDepth : \A n \in DOMAIN x : \A above \in SUBSET DOMAIN x :
           /\ read[left][<<n, above>>] = ToxText(x, read[left - 1], left, n, above)
           /\ IsPy(read[left][<<n, above>>], {"tox cycle"})
<1> DEFINE N == MaxDepth
           G == DOMAIN x
           K == {"tox cycle"}
           Fine(left) == \A n \in G : \A above \in SUBSET G : IsPy(read[left][<<n, above>>], K)
           S == {left \in 0..N : Fine(left)}
<1>1. N \in Nat
  BY CapAssumption
<1>2. \A left \in 0..N : \A n \in G : \A above \in SUBSET G :
        read[left][<<n, above>>] = ToxText(x, read[left - 1], left, n, above)
  <2> SUFFICES ASSUME NEW left \in 0..N, NEW n \in G, NEW above \in SUBSET G
               PROVE  read[left][<<n, above>>] = ToxText(x, read[left - 1], left, n, above)
    OBVIOUS
  <2>1. <<n, above>> \in Visits(G) /\ <<n, above>>[1] = n /\ <<n, above>>[2] = above
    BY DEF Visits
  <2>2. read[left] = [c \in Visits(G) |-> Level("tox", x, read[left - 1], left, c)]
    BY DEF IsLevels
  <2>3. read[left][<<n, above>>] = Level("tox", x, read[left - 1], left, <<n, above>>)
    BY <2>1, <2>2
  <2> QED BY <2>1, <2>3 DEF Level
<1>4. \A y \in {"tox cycle", "tox depth"} : \A z : IsPy(Noted(<<y, z>>), K)
  <2> SUFFICES ASSUME NEW y \in {"tox cycle", "tox depth"}, NEW z
               PROVE  IsPy(Noted(<<y, z>>), K)
    OBVIOUS
  <2>1. <<y, z>>[1] = y /\ (y \notin Cycles \/ y \in K)
    BY DEF Cycles
  <2> QED BY <2>1, SmallResults DEF IsPy
<1> HIDE DEF K
<1>5. Fine(0)
  <2>1. 0 \in 0..N
    BY <1>1
  <2> SUFFICES ASSUME NEW n \in G, NEW above \in SUBSET G
               PROVE  IsPy(read[0][<<n, above>>], K)
    OBVIOUS
  <2>2. read[0][<<n, above>>] = ToxText(x, read[0 - 1], 0, n, above)
    BY <1>2, <2>1
  <2>3. ToxText(x, read[0 - 1], 0, n, above) = Joined(Noted(<<"tox depth", n>>), TokensGive(x[n], Of("tox.ini")))
    BY ToxTooDeep
  <2>4. IsPy(Noted(<<"tox depth", n>>), K)
    BY <1>4
  <2>5. IsPy(TokensGive(x[n], Of("tox.ini")), K)
    BY TokensAre DEF AreSections
  <2>6. IsPy(Joined(Noted(<<"tox depth", n>>), TokensGive(x[n], Of("tox.ini"))), K)
    BY <2>4, <2>5, JoinedIs DEF IsPy
  <2> QED BY <2>2, <2>3, <2>6
<1>6. ASSUME NEW left \in 1..N, Fine(left - 1)
      PROVE  Fine(left)
  <2> SUFFICES ASSUME NEW n \in G, NEW above \in SUBSET G
               PROVE  IsPy(read[left][<<n, above>>], K)
    OBVIOUS
  <2> DEFINE deeper == read[left - 1]
             L == x[n]
             R == [i \in DOMAIN L |-> RefGives(x, deeper, above, L[i])]
  <2>1. left # 0 /\ left \in 0..N
    BY <1>1
  <2>2. read[left][<<n, above>>] = ToxText(x, deeper, left, n, above)
    BY <1>2, <2>1
  <2>3. IsSeq(L) /\ \A l \in Range(L) : IsItem(l)
    BY DEF AreSections, IsItems, IsList, IsSeq
  <2>4. ASSUME NEW l \in Range(L)
        PROVE  IsPy(RefGives(x, deeper, above, l), K)
    <3>1. CASE l.kind # "ref"
      <4>1. RefGives(x, deeper, above, l) = PipToken(l, Of("tox.ini"))
        BY <3>1 DEF RefGives
      <4> QED BY <2>3, <4>1, PipTokenIs
    <3>2. CASE l.kind = "ref" /\ l.target \in above
      <4>1. RefGives(x, deeper, above, l) = Noted(<<"tox cycle", l.target>>)
        BY <3>2 DEF RefGives
      <4>2. IsPy(Noted(<<"tox cycle", l.target>>), K)
        BY <1>4
      <4> QED BY <4>1, <4>2
    <3>3. CASE l.kind = "ref" /\ l.target \notin above \cup G
      <4>1. RefGives(x, deeper, above, l) = Nothing
        BY <3>3 DEF RefGives
      <4> QED BY <4>1, NothingIs
    <3>4. CASE l.kind = "ref" /\ l.target \notin above /\ l.target \in G
      <4>1. RefGives(x, deeper, above, l) = deeper[<<l.target, above \cup {l.target}>>]
        BY <3>4 DEF RefGives
      <4>2. l.target \in G /\ above \cup {l.target} \in SUBSET G
        BY <3>4
      <4> QED BY <1>6, <4>1, <4>2
    <3> QED BY <3>1, <3>2, <3>3, <3>4
  <2>5. \A i \in DOMAIN L : IsPy(R[i], K)
    BY <2>4, SeqFacts
  <2>6. R = [i \in DOMAIN L |-> R[i]] OBVIOUS
  <2>7. ToxText(x, deeper, left, n, above) = All(R)
    BY <2>1, ToxRead DEF RefsGive
  <2> HIDE DEF R
  <2>8. IsPy(All(R), K)
    BY <2>3, <2>5, <2>6, EachIs
  <2> QED BY <2>2, <2>7, <2>8
<1>7. \A left \in 0..N : left \in S
  <2>1. 0 \in S
    BY <1>1, <1>5
  <2>2. \A i \in 1..N : i - 1 \in S => i \in S
    <3> HIDE DEF Fine
    <3>1. \A i \in 1..N : i \in 0..N
      BY <1>1
    <3> QED BY <1>6, <3>1
  <2> HIDE DEF S
  <2> QED BY <1>1, <2>1, <2>2, UpTo
<1> QED BY <1>2, <1>7 DEF K

LEMMA ToxValueIs ==
  ASSUME NEW x, AreSections(x), NEW start \in DOMAIN x
  PROVE  IsPy(ToxValue(x, start), {"tox cycle"})
<1>1. PICK read : /\ IsLevels("tox", x, Visits(DOMAIN x), MaxDepth, read)
                  /\ \A s : ToxValue(x, s) = read[MaxDepth][<<s, {s}>>]
  BY ToxUnfold
<1>2. MaxDepth \in 0..MaxDepth
  BY CapAssumption
<1>3. IsPy(read[MaxDepth][<<start, {start}>>], {"tox cycle"})
  BY <1>1, <1>2, ToxAre
<1> QED BY <1>1, <1>3

LEMMA SectionIs ==
  ASSUME NEW f, AreSections(f.sections), NEW s
  PROVE  /\ IsPy(SectionGives(f, s), {"tox cycle"})
         /\ SectionGives(f, s).notes =
              StartGives(f, <<s, "deps">>).notes \cup StartGives(f, <<s, "requires">>).notes
<1> DEFINE a == StartGives(f, <<s, "deps">>)
           b == StartGives(f, <<s, "requires">>)
           K == {"tox cycle"}
<1>1. SectionGives(f, s) = All(<<a, b>>)
  <2> DEFINE T == << <<s, "deps">>, <<s, "requires">> >>
             R == [i \in DOMAIN T |-> IF s \in ToxEnvironments /\ T[i] \in DOMAIN f.sections
                                      THEN ToxValue(f.sections, T[i]) ELSE Nothing]
  <2>1. DOMAIN T = 1..2 /\ T[1] = <<s, "deps">> /\ T[2] = <<s, "requires">> OBVIOUS
  <2>2. <<s, "deps">>[1] = s /\ <<s, "requires">>[1] = s OBVIOUS
  <2>3. SectionGives(f, s) = All(R)
    BY DEF SectionGives
  <2> HIDE DEF T
  <2>4. DOMAIN R = 1..2 /\ R[1] = a /\ R[2] = b /\ R = [i \in 1..2 |-> R[i]]
    BY <2>1, <2>2 DEF StartGives
  <2> HIDE DEF R, a, b
  <2>5. R = <<a, b>>
    BY <2>4
  <2> QED BY <2>3, <2>5
<1>2. IsPy(a, K) /\ IsPy(b, K)
  BY ToxValueIs, NothingIs DEF StartGives
<1> HIDE DEF a, b, K
<1>3. IsPy(All(<<a, b>>), K) /\ All(<<a, b>>).notes = a.notes \cup b.notes
  BY <1>2, AllOfFew
<1> QED BY <1>1, <1>3 DEF a, b, K

\* The notes of tox.ini are those of the values it starts from.
LEMMA ToxIniIs ==
  ASSUME NEW f, f.ok => IsTox(f)
  PROVE  /\ IsPy(ToxIni(f), {"tox cycle"})
         /\ f.ok => \A at \in DOMAIN f.sections :
              at[1] \in ToxEnvironments /\ at[2] \in {"deps", "requires"}
                => ToxValue(f.sections, at).notes \subseteq ToxIni(f).notes
         /\ \A y \in ToxIni(f).notes : y[1] \in Cycles =>
              /\ f.ok
              /\ \E at \in DOMAIN f.sections :
                   /\ at[1] \in ToxEnvironments /\ at[2] \in {"deps", "requires"}
                   /\ y \in ToxValue(f.sections, at).notes
<1> DEFINE seq == f.order
           R == [i \in DOMAIN seq |-> SectionGives(f, seq[i])]
           K == {"tox cycle"}
<1>1. ToxIni(f) = Parsed("tox.ini", f, All(R))
  BY DEF ToxIni, Each, SectionGives
<1>2. ASSUME f.ok
      PROVE  /\ IsPy(All(R), K)
             /\ \A i \in DOMAIN seq : SectionGives(f, seq[i]).notes \subseteq All(R).notes
             /\ \A y \in All(R).notes : \E i \in DOMAIN seq : y \in SectionGives(f, seq[i]).notes
  <2>1. IsSeq(seq) /\ AreSections(f.sections)
    BY <1>2 DEF IsTox, IsSeq, AreSections
  <2>2. \A i \in DOMAIN seq : IsResult(R[i], DOMAIN Normal, K)
    BY <2>1, SectionIs DEF IsPy
  <2>3. R = [i \in DOMAIN seq |-> R[i]] /\ \A i \in DOMAIN seq : R[i] = SectionGives(f, seq[i])
    OBVIOUS
  <2> HIDE DEF R, seq, K
  <2>4. /\ IsResult(All(R), DOMAIN Normal, K)
        /\ \A i \in DOMAIN seq : R[i].notes \subseteq All(R).notes
        /\ \A y \in All(R).notes : \E i \in DOMAIN seq : y \in R[i].notes
    BY <2>1, <2>2, <2>3, AllIs
  <2> QED BY <2>3, <2>4 DEF IsPy
<1> DEFINE r == All(R)
<1> HIDE DEF R, r
<1>3. IsPy(ToxIni(f), K) /\ (f.ok => ToxIni(f) = r)
      /\ (~ f.ok => \A y \in ToxIni(f).notes : y[1] \notin Cycles)
  <2>1. ToxIni(f) = Parsed("tox.ini", f, r) /\ (f.ok => IsPy(r, K))
    BY <1>1, <1>2 DEF r
  <2> HIDE DEF K
  <2> QED BY <2>1, ParsedIs
<1>4. ASSUME f.ok, NEW at \in DOMAIN f.sections,
             at[1] \in ToxEnvironments, at[2] \in {"deps", "requires"}
      PROVE  ToxValue(f.sections, at).notes \subseteq r.notes
  <2>1. at = <<at[1], at[2]>> /\ at[1] \in Range(seq) /\ AreSections(f.sections)
    BY <1>4 DEF IsTox, AreSections
  <2>2. PICK i \in DOMAIN seq : seq[i] = at[1]
    BY <2>1, SeqFacts
  <2>3. StartGives(f, at) = ToxValue(f.sections, at)
    BY <1>4 DEF StartGives
  <2>4. at = <<at[1], "deps">> \/ at = <<at[1], "requires">>
    BY <1>4, <2>1
  <2>5. StartGives(f, at).notes \subseteq SectionGives(f, at[1]).notes
    <3>1. SectionGives(f, at[1]).notes =
            StartGives(f, <<at[1], "deps">>).notes \cup StartGives(f, <<at[1], "requires">>).notes
      BY <2>1, SectionIs
    <3>2. CASE at = <<at[1], "deps">>
      BY <3>1, <3>2
    <3>3. CASE at = <<at[1], "requires">>
      BY <3>1, <3>3
    <3> QED BY <2>4, <3>2, <3>3
  <2> QED BY <1>2, <1>4, <2>2, <2>3, <2>5 DEF r
<1>5. ASSUME f.ok, NEW y \in r.notes
      PROVE  \E at \in DOMAIN f.sections :
               /\ at[1] \in ToxEnvironments /\ at[2] \in {"deps", "requires"}
               /\ y \in ToxValue(f.sections, at).notes
  <2>1. PICK i \in DOMAIN seq : y \in SectionGives(f, seq[i]).notes
    BY <1>2, <1>5 DEF r
  <2> DEFINE s == seq[i]
  <2>2. AreSections(f.sections)
    BY <1>5 DEF IsTox, AreSections
  <2>3. y \in StartGives(f, <<s, "deps">>).notes \/ y \in StartGives(f, <<s, "requires">>).notes
    <3>1. SectionGives(f, s).notes =
            StartGives(f, <<s, "deps">>).notes \cup StartGives(f, <<s, "requires">>).notes
      BY <2>2, SectionIs
    <3> QED BY <2>1, <3>1
  <2> HIDE DEF s
  <2>4. \A at : y \in StartGives(f, at).notes =>
          /\ at[1] \in ToxEnvironments /\ at \in DOMAIN f.sections
          /\ y \in ToxValue(f.sections, at).notes
    BY DEF StartGives, Nothing
  <2>5. <<s, "deps">>[2] = "deps" /\ <<s, "requires">>[2] = "requires" OBVIOUS
  <2>6. CASE y \in StartGives(f, <<s, "deps">>).notes
    <3> DEFINE at == <<s, "deps">>
    <3>1. at[2] = "deps" /\ y \in StartGives(f, at).notes
      BY <2>5, <2>6
    <3> HIDE DEF at
    <3> QED BY <2>4, <3>1
  <2>7. CASE y \in StartGives(f, <<s, "requires">>).notes
    <3> DEFINE at == <<s, "requires">>
    <3>1. at[2] = "requires" /\ y \in StartGives(f, at).notes
      BY <2>5, <2>7
    <3> HIDE DEF at
    <3> QED BY <2>4, <3>1
  <2> QED BY <2>3, <2>6, <2>7
<1> QED BY <1>3, <1>4, <1>5

LEMMA JobsAre ==
  ASSUME NEW jobs, IsList(jobs, IsShell), NEW from, NEW kinds
  PROVE  IsPy(JobsGive(jobs, from), kinds)
<1> DEFINE R == [i \in DOMAIN jobs |-> ShellBlock(jobs[i], from)]
<1>1. IsSeq(jobs) /\ \A i \in DOMAIN jobs : IsShell(jobs[i])
  BY SeqFacts DEF IsList, IsSeq
<1>2. \A i \in DOMAIN jobs : IsPy(R[i], kinds)
  BY <1>1, ShellBlockIs
<1>3. R = [i \in DOMAIN jobs |-> R[i]] /\ JobsGive(jobs, from) = All(R)
  BY DEF JobsGive
<1> HIDE DEF R
<1>4. IsPy(All(R), kinds)
  BY <1>1, <1>2, <1>3, EachIs
<1> QED BY <1>3, <1>4

LEMMA DockerfilesIs ==
  ASSUME NEW seq, IsList(seq, LAMBDA d : d.ok => IsShell(d.lines)), NEW kinds
  PROVE  IsPy(Dockerfiles(seq), kinds)
<1> DEFINE R == [i \in DOMAIN seq |-> DockerGives(seq[i])]
<1>1. IsSeq(seq) /\ \A d \in Range(seq) : d.ok => IsShell(d.lines)
  BY DEF IsList, IsSeq
<1>2. ASSUME NEW d \in Range(seq)
      PROVE  IsPy(DockerGives(d), kinds)
  <2> DEFINE r == ShellBlock(d.lines, Of(IF d.dir = None THEN d.name ELSE d.dir))
  <2>1. d.ok => IsPy(r, kinds)
    BY <1>1, ShellBlockIs
  <2>2. DockerGives(d) = Parsed(d.name, d, r)
    BY DEF DockerGives
  <2> HIDE DEF r
  <2> QED BY <2>1, <2>2, ParsedIs
<1>3. \A i \in DOMAIN seq : IsPy(R[i], kinds)
  BY <1>2, SeqFacts
<1>4. R = [i \in DOMAIN seq |-> R[i]] /\ Dockerfiles(seq) = All(R)
  BY DEF Dockerfiles, Each, DockerGives
<1> HIDE DEF R
<1>5. IsPy(All(R), kinds)
  BY <1>1, <1>3, <1>4, EachIs
<1> QED BY <1>4, <1>5

LEMMA WorkflowsIs ==
  ASSUME NEW seq, IsList(seq, LAMBDA w : w.ok => IsList(w.jobs, IsShell)), NEW kinds
  PROVE  IsPy(Workflows(seq), kinds)
<1> DEFINE R == [i \in DOMAIN seq |-> WorkflowGives(seq[i])]
<1>1. IsSeq(seq) /\ \A w \in Range(seq) : w.ok => IsList(w.jobs, IsShell)
  BY DEF IsList, IsSeq
<1>2. ASSUME NEW w \in Range(seq)
      PROVE  IsPy(WorkflowGives(w), kinds)
  <2> DEFINE r == JobsGive(w.jobs, Of(".github/workflows"))
  <2>1. w.ok => IsPy(r, kinds)
    BY <1>1, JobsAre
  <2>2. WorkflowGives(w) = Parsed("workflow", w, r)
    BY DEF WorkflowGives
  <2> HIDE DEF r
  <2> QED BY <2>1, <2>2, ParsedIs
<1>3. \A i \in DOMAIN seq : IsPy(R[i], kinds)
  BY <1>2, SeqFacts
<1>4. R = [i \in DOMAIN seq |-> R[i]] /\ Workflows(seq) = All(R)
  BY DEF Workflows, Each, WorkflowGives, JobsGive
<1> HIDE DEF R
<1>5. IsPy(All(R), kinds)
  BY <1>1, <1>3, <1>4, EachIs
<1> QED BY <1>4, <1>5

LEMMA GitlabCiIs ==
  ASSUME NEW f, f.ok => IsList(f.jobs, IsShell), NEW kinds
  PROVE  IsPy(GitlabCi(f), kinds)
<1> DEFINE r == JobsGive(f.jobs, Of(".gitlab-ci.yml"))
<1>1. f.ok => IsPy(r, kinds)
  BY JobsAre
<1>2. GitlabCi(f) = Parsed(".gitlab-ci.yml", f, r)
  BY DEF GitlabCi, Each, JobsGive
<1> HIDE DEF r
<1> QED BY <1>1, <1>2, ParsedIs

LEMMA NoxfileIs ==
  ASSUME NEW f, f.ok => IsList(f.calls, IsItems), NEW kinds
  PROVE  IsPy(Noxfile(f), kinds)
<1> DEFINE seq == f.calls
           R == [i \in DOMAIN seq |-> NoxGives(seq[i])]
           r == All(R)
<1>1. Noxfile(f) = Parsed("noxfile.py", f, r)
  BY DEF Noxfile, Each, NoxGives, TokensGive
<1>2. ASSUME f.ok PROVE IsPy(r, kinds)
  <2>1. IsSeq(seq) /\ \A i \in DOMAIN seq : IsItems(seq[i])
    BY <1>2, SeqFacts DEF IsList, IsSeq
  <2>2. IsPy(Noted(<<"dynamic", "noxfile.py">>), kinds)
    BY NoteIs DEF Cycles
  <2>3. \A i \in DOMAIN seq : IsPy(R[i], kinds)
    BY <2>1, <2>2, TokensAre DEF NoxGives
  <2>4. R = [i \in DOMAIN seq |-> R[i]] OBVIOUS
  <2> HIDE DEF R, seq
  <2> QED BY <2>1, <2>3, <2>4, EachIs
<1> HIDE DEF r
<1> QED BY <1>1, <1>2, ParsedIs

\* What tells of a cycle among these files comes from tox.ini.
LEMMA ContainersAndCiIs ==
  ASSUME NEW f, IsContainers(f)
  PROVE  /\ IsPy(ContainersAndCi(f), {"tox cycle"})
         /\ ToxIni(f.tox).notes \subseteq ContainersAndCi(f).notes
         /\ \A y \in ContainersAndCi(f).notes : y[1] \in Cycles => y \in ToxIni(f.tox).notes
<1> DEFINE K == {"tox cycle"}
           a == Dockerfiles(f.dockerfiles)
           b == Workflows(f.workflows)
           c == GitlabCi(f.gitlab)
           d == ToxIni(f.tox)
           e == Noxfile(f.nox)
           r == All(<<a, b, c, d, e>>)
<1>1. ContainersAndCi(f) = r
  BY DEF ContainersAndCi
<1>2. IsPy(a, {})
  BY DockerfilesIs DEF IsContainers
<1>3. IsPy(b, {})
  BY WorkflowsIs DEF IsContainers
<1>4. IsPy(c, {})
  BY GitlabCiIs DEF IsContainers
<1>5. IsPy(d, K)
  BY ToxIniIs DEF IsContainers
<1>6. IsPy(e, {})
  BY NoxfileIs DEF IsContainers
<1> HIDE DEF a, b, c, d, e, K
<1>7. IsPy(a, K) /\ IsPy(b, K) /\ IsPy(c, K) /\ IsPy(e, K)
  BY <1>2, <1>3, <1>4, <1>6, Weaker
<1>8. \A y \in a.notes \cup b.notes \cup c.notes \cup e.notes : y[1] \notin Cycles
  BY <1>2, <1>3, <1>4, <1>6, Weaker
<1>9. IsPy(r, K) /\ r.notes = a.notes \cup b.notes \cup c.notes \cup d.notes \cup e.notes
  BY <1>5, <1>7, AllOfFew
<1> HIDE DEF r
<1> QED BY <1>1, <1>8, <1>9 DEF d, K

\* A function takes finite sets to finite sets.
LEMMA ImageIsFinite ==
  ASSUME NEW f, NEW S, IsFiniteSet(S), S \subseteq DOMAIN f
  PROVE  IsFiniteSet({f[x] : x \in S})
<1> DEFINE T == {f[x] : x \in S}
           g == [x \in S |-> f[x]]
<1>1. g \in [S -> T] /\ \A t \in T : \E x \in S : g[x] = t OBVIOUS
<1>2. g \in Surjection(S, T)
  BY <1>1 DEF Surjection
<1> HIDE DEF T, g
<1>3. IsFiniteSet(T)
  BY <1>2, FS_Surjection
<1> QED BY <1>3 DEF T

LEMMA NormalNamesIs ==
  ASSUME NEW S, S \subseteq DOMAIN Normal, IsFiniteSet(S)
  PROVE  IsFiniteSet(NormalNames(S)) /\ NormalNames(S) \subseteq Path
<1>1. IsFiniteSet({Normal[n] : n \in S})
  BY ImageIsFinite
<1>2. {Normal[n] : n \in S} \subseteq Path
  BY NormalAssumption DEF Path
<1> QED BY <1>1, <1>2 DEF NormalNames

\* A sequence has finitely many elements.
LEMMA RangeIsFinite ==
  ASSUME NEW seq, IsSeq(seq)
  PROVE  IsFiniteSet(DOMAIN seq) /\ IsFiniteSet(Range(seq))
<1>1. DOMAIN seq = 1..Len(seq) /\ Len(seq) \in Nat
  BY SeqFacts
<1>2. IsFiniteSet(DOMAIN seq)
  BY <1>1, FS_Interval
<1>3. IsFiniteSet({seq[i] : i \in DOMAIN seq})
  BY <1>2, ImageIsFinite
<1>4. Range(seq) = {seq[i] : i \in DOMAIN seq}
  BY DEF Range
<1> QED BY <1>2, <1>3, <1>4

\* The last of some places of a sequence.
LEMMA LastOf ==
  ASSUME NEW n \in Nat, NEW S \in SUBSET (1..n), S # {}
  PROVE  (CHOOSE i \in S : \A j \in S : j <= i) \in S
<1>1. Max(S) \in S
  BY GreatestBelow
<1> DEFINE T == {n - x : x \in S}
<1>2. T \in SUBSET Nat /\ T # {}
  <2>1. \A x \in S : n - x \in Nat OBVIOUS
  <2> QED BY <2>1
<1>3. PICK t \in T : \A m \in T : t <= m
  <2> HIDE DEF T
  <2> QED BY <1>2, LeastNumber
<1>4. PICK x \in S : t = n - x OBVIOUS
<1>5. \A y \in S : t <= n - y
  <2>1. \A y \in S : n - y \in T OBVIOUS
  <2> HIDE DEF T
  <2> QED BY <1>3, <2>1
<1>6. \A y \in S : y <= x
  <2> SUFFICES ASSUME NEW y \in S PROVE y <= x OBVIOUS
  <2>1. x \in Nat /\ y \in Nat /\ n - x <= n - y
    BY <1>4, <1>5
  <2> QED BY <2>1
<1> QED BY <1>6

LEMMA KidsAre ==
  ASSUME NEW p, IsLocked(p), NEW uv
  PROVE  IsFiniteSet(Kids(p, uv)) /\ Kids(p, uv) \subseteq Path
<1>1. /\ IsFiniteSet(NormalNames(p.requires)) /\ NormalNames(p.requires) \subseteq Path
      /\ IsFiniteSet(NormalNames(p.dev)) /\ NormalNames(p.dev) \subseteq Path
  BY NormalNamesIs DEF IsLocked
<1>2. IsFiniteSet({})
  BY FS_EmptySet
<1> QED BY <1>1, <1>2, FS_Union DEF Kids

LEMMA GraphOfIs ==
  ASSUME NEW P, IsList(P, IsLocked), NEW uv
  PROVE  IsLockGraph(GraphOf(P, uv))
<1> DEFINE tabled == {x \in Range(P) : x.table}
           named(n) == {i \in DOMAIN P : P[i].table /\ Normal[P[i].name] = n}
           pick(n) == CHOOSE i \in named(n) : \A j \in named(n) : j <= i
           D == {Normal[p.name] : p \in tabled}
           g == GraphOf(P, uv)
<1>1. IsSeq(P) /\ \A p \in Range(P) : IsLocked(p)
  BY DEF IsList, IsSeq
<1>2. DOMAIN g = D /\ \A n \in D : g[n] = Kids(P[pick(n)], uv)
  BY DEF GraphOf
<1>3. IsFiniteSet(D) /\ D \subseteq Path
  <2> DEFINE h == [p \in Range(P) |-> Normal[p.name]]
  <2>1. IsFiniteSet(Range(P))
    BY <1>1, RangeIsFinite
  <2>2. IsFiniteSet(tabled)
    BY <2>1, FS_Subset
  <2>3. tabled \subseteq DOMAIN h OBVIOUS
  <2>4. D = {h[p] : p \in tabled} OBVIOUS
  <2>5. D \subseteq Path
    BY <1>1, NormalAssumption DEF IsLocked, IsPin, Path
  <2> HIDE DEF h, D, tabled
  <2>6. IsFiniteSet(D)
    BY <2>2, <2>3, <2>4, ImageIsFinite
  <2> QED BY <2>5, <2>6
<1>4. ASSUME NEW n \in D
      PROVE  IsFiniteSet(g[n]) /\ g[n] \subseteq Path
  <2>1. named(n) # {}
    <3>1. PICK p \in tabled : Normal[p.name] = n OBVIOUS
    <3>2. PICK i \in DOMAIN P : P[i] = p
      BY <3>1, SeqFacts
    <3> QED BY <3>1, <3>2
  <2>2. named(n) \in SUBSET (1..Len(P)) /\ Len(P) \in Nat
    BY <1>1, SeqFacts
  <2>3. pick(n) \in named(n)
    <3> DEFINE S == named(n)
    <3> HIDE DEF named
    <3> SUFFICES (CHOOSE i \in S : \A j \in S : j <= i) \in S OBVIOUS
    <3>1. S \in SUBSET (1..Len(P)) /\ Len(P) \in Nat /\ S # {}
      BY <2>1, <2>2
    <3> HIDE DEF S
    <3> QED BY <3>1, LastOf
  <2>4. IsLocked(P[pick(n)])
    <3>1. pick(n) \in DOMAIN P
      BY <2>3
    <3> HIDE DEF pick
    <3> QED BY <1>1, <3>1, SeqFacts
  <2>5. g[n] = Kids(P[pick(n)], uv)
    BY <1>2
  <2> HIDE DEF pick
  <2> QED BY <2>4, <2>5, KidsAre
<1> HIDE DEF g, D
<1> QED BY <1>2, <1>3, <1>4 DEF IsLockGraph, g

LEMMA EmptyGraph == IsLockGraph(<<>>)
<1>1. DOMAIN <<>> = {} OBVIOUS
<1>2. IsFiniteSet({})
  BY FS_EmptySet
<1> QED BY <1>1, <1>2 DEF IsLockGraph

LEMMA LockGraphsAre ==
  ASSUME NEW f, f.ok => IsList(f.packages, IsLocked)
  PROVE  IsLockGraph(PoetryGraph(f)) /\ IsLockGraph(UvGraph(f))
<1>1. PoetryGraph(f) = IF f.ok THEN GraphOf(f.packages, FALSE) ELSE <<>>
  BY DEF PoetryGraph, LockGraph, GraphOf, Kids
<1>2. UvGraph(f) = IF f.ok THEN GraphOf(f.packages, TRUE) ELSE <<>>
  BY DEF UvGraph, LockGraph, GraphOf, Kids, UvChildren
<1> QED BY <1>1, <1>2, GraphOfIs, EmptyGraph

-----------------------------------------------------------------------------
(* The parsers of npm. *)

\* Entries one after the other.
LEMMA EntriesTogether ==
  ASSUME NEW names, NEW s, IsEntries(s, names), NEW t, IsEntries(t, names)
  PROVE  IsEntries(s \o t, names) /\ Range(s \o t) = Range(s) \cup Range(t)
<1> DEFINE X == Range(s) \cup Range(t)
<1>1. s \in Seq(X) /\ t \in Seq(X)
  BY SeqFacts DEF IsEntries
<1> HIDE DEF X
<1>2. s \o t \in Seq(X) /\ Range(s \o t) = Range(s) \cup Range(t)
  BY <1>1, RangeOfConcat
<1>3. IsSeq(s \o t)
  BY <1>2, SeqFacts
<1> QED BY <1>2, <1>3 DEF IsEntries

LEMMA NoEntries ==
  ASSUME NEW names
  PROVE  IsEntries(<<>>, names) /\ Range(<<>>) = {}
<1>1. \A X : <<>> \in Seq(X) OBVIOUS
<1>2. Range(<<>>) = {}
  BY DEF Range
<1> QED BY <1>1, <1>2 DEF IsEntries, IsSeq

\* An entry for every pin.
LEMMA EntriesAre ==
  ASSUME NEW pins, AreNamed(pins), NEW from
  PROVE  /\ IsEntries(Entries(pins, from), Path)
         /\ \A n \in Pinned(pins) : \E e \in Range(Entries(pins, from)) :
              e.name = n /\ e.source = from /\ ~ e.transitive
<1> DEFINE E == Entries(pins, from)
<1>1. IsSeq(pins) /\ \A p \in Range(pins) : p.name \in Path
  BY DEF AreNamed, IsList, IsSeq, IsNamed, Path
<1>2. DOMAIN pins = 1..Len(pins) /\ Len(pins) \in Nat
  BY <1>1, SeqFacts
<1>3. E = [i \in 1..Len(pins) |-> E[i]] /\ DOMAIN E = DOMAIN pins
  BY <1>2 DEF Entries
<1>4. \A i \in DOMAIN pins :
        /\ E[i] = Entry(pins[i].name, pins[i].version, from)
        /\ IsEntry(E[i], Path) /\ E[i].name = pins[i].name /\ E[i].source = from /\ ~ E[i].transitive
  <2> SUFFICES ASSUME NEW i \in DOMAIN pins
               PROVE  /\ E[i] = Entry(pins[i].name, pins[i].version, from)
                      /\ IsEntry(E[i], Path) /\ E[i].name = pins[i].name /\ E[i].source = from
                      /\ ~ E[i].transitive
    OBVIOUS
  <2>1. E[i] = Entry(pins[i].name, pins[i].version, from)
    BY DEF Entries
  <2>2. pins[i].name \in Path
    BY <1>1, SeqFacts
  <2> HIDE DEF E
  <2> QED BY <2>1, <2>2 DEF Entry, IsEntry
<1> HIDE DEF E
<1>5. IsSeq(E)
  BY <1>2, <1>3, SeqFacts
<1>6. \A e \in Range(E) : \E i \in DOMAIN pins : e = E[i]
  BY <1>3 DEF Range
<1>7. \A i \in DOMAIN pins : E[i] \in Range(E)
  BY <1>3, SeqFacts
<1>8. \A n \in Pinned(pins) : \E i \in DOMAIN pins : pins[i].name = n
  BY SeqFacts DEF Pinned
<1> QED BY <1>4, <1>5, <1>6, <1>7, <1>8 DEF IsEntries, E

LEMMA NpmStarts ==
  /\ IsNpm(NpmNothing)
  /\ \A n : IsNpm(NpmNoted(n))
  /\ \A d, e : NpmNothing.deps = <<>> /\ [NpmNothing EXCEPT !.deps = d].deps = d
BY NoEntries DEF NpmNothing, NpmNoted, IsNpm

LEMMA PinsOfIs ==
  ASSUME NEW r, IsNpm(r), NEW pins, AreNamed(pins), NEW from
  PROVE  IsNpm(PinsOf(r, pins, from)) /\ IsNpm(RootPins(r, pins, from))
<1> DEFINE E == Entries(pins, from)
           q == PinsOf(r, pins, from)
           t == RootPins(r, pins, from)
<1>1. IsEntries(E, Path)
  BY EntriesAre
<1>2. IsEntries(r.deps \o E, Path)
  <2> HIDE DEF E
  <2> QED BY <1>1, EntriesTogether DEF IsNpm
<1>3. q.deps = r.deps \o E /\ q = [deps |-> q.deps, notes |-> q.notes, edges |-> q.edges]
  <2> HIDE DEF E
  <2>1. q = [r EXCEPT !.deps = @ \o E]
    BY DEF PinsOf, E
  <2>2. r = [deps |-> r.deps, notes |-> r.notes, edges |-> r.edges]
    BY DEF IsNpm
  <2> HIDE DEF q
  <2> QED BY <2>1, <2>2
<1> HIDE DEF q
<1>4. t.deps = q.deps /\ t = [deps |-> t.deps, notes |-> t.notes, edges |-> t.edges]
  <2> DEFINE c == Capped(q.edges \o EdgesFrom(NoName, pins))
  <2>1. t = [q EXCEPT !.edges = c]
    BY <1>3 DEF RootPins, q
  <2> HIDE DEF c, t
  <2> QED BY <1>3, <2>1
<1> QED BY <1>2, <1>3, <1>4 DEF IsNpm, q

\* The edges of the packages take nothing away.
LEMMA WithChildrenIs ==
  ASSUME NEW r, IsNpm(r), NEW packages, NEW file
  PROVE  IsNpm(WithChildren(r, packages, file))
<1> DEFINE c == ChildEdges(packages, Len(packages))
           s == Capped(r.edges \o c)
           N == r.notes \cup (IF IsFull(r, c) THEN {<<"edge cap", file>>} ELSE {})
           t == WithChildren(r, packages, file)
<1>1. t = [r EXCEPT !.edges = s, !.notes = N]
  BY DEF WithChildren, IsNpm
<1> HIDE DEF c, s, N, t
<1>2. t = [deps |-> r.deps, notes |-> N, edges |-> s]
  BY <1>1 DEF IsNpm
<1>3. t.deps = r.deps /\ t = [deps |-> t.deps, notes |-> t.notes, edges |-> t.edges]
  BY <1>2
<1> QED BY <1>3 DEF IsNpm, t

\* A file that can be read, or a note.
LEMMA NpmParsedIs ==
  ASSUME NEW file, NEW f, NEW r, f.ok => IsNpm(r)
  PROVE  IsNpm(NpmParsed(file, f, r)) /\ (f.ok => NpmParsed(file, f, r) = r)
BY NpmStarts DEF NpmParsed

\* Pins one section after the other, one package after the other.
LEMMA PinsTogether ==
  ASSUME NEW n \in Nat, NEW R, DOMAIN R = 1..n, R = [i \in 1..n |-> R[i]],
         \A i \in 1..n : AreNamed(R[i])
  PROVE  AreNamed(FlattenSeq(R))
<1>1. \A i \in 1..n : IsSeq(R[i]) /\ \A p \in Range(R[i]) : IsNamed(p)
  BY DEF AreNamed, IsList, IsSeq
<1>2. IsSeq(FlattenSeq(R)) /\ Range(FlattenSeq(R)) = UNION {Range(R[i]) : i \in 1..n}
  BY <1>1, RangeOfFlatten
<1>3. \A p \in Range(FlattenSeq(R)) : IsNamed(p)
  BY <1>1, <1>2
<1> QED BY <1>2, <1>3 DEF AreNamed, IsList, IsSeq

LEMMA FewNamed ==
  /\ AreNamed(<<>>)
  /\ \A p : IsNamed(p) => AreNamed(<<p>>)
<1>1. \A X : <<>> \in Seq(X) OBVIOUS
<1>2. \A p, X : p \in X => <<p>> \in Seq(X) OBVIOUS
<1>3. Range(<<>>) = {} /\ \A p : Range(<<p>>) = {p}
  BY DEF Range
<1> QED BY <1>1, <1>2, <1>3 DEF AreNamed, IsList

LEMMA PinsInIs ==
  ASSUME NEW f, HasSections(f), NEW chosen
  PROVE  AreNamed(PinsIn(f, chosen))
<1> DEFINE R == [i \in DOMAIN Sections |->
                   IF Sections[i] \in DOMAIN f.sections \cap chosen THEN f.sections[Sections[i]]
                   ELSE <<>>]
<1>1. DOMAIN Sections = 1..4
  BY DEF Sections
<1>2. DOMAIN R = 1..4 /\ R = [i \in 1..4 |-> R[i]]
  BY <1>1
<1>3. \A i \in 1..4 : AreNamed(R[i])
  BY <1>1, FewNamed DEF HasSections
<1>4. PinsIn(f, chosen) = FlattenSeq(R)
  BY DEF PinsIn
<1> HIDE DEF R
<1>5. AreNamed(FlattenSeq(R))
  BY <1>2, <1>3, PinsTogether
<1> QED BY <1>4, <1>5

LEMMA PackageJsonIs ==
  ASSUME NEW f, f.ok => HasSections(f)
  PROVE  /\ IsNpm(PackageJson(f))
         /\ f.ok => \A s \in Range(Sections) \cap DOMAIN f.sections : \A n \in Pinned(f.sections[s]) :
              \E e \in Range(PackageJson(f).deps) :
                e.name = n /\ e.source = Label("package.json", s, None) /\ ~ e.transitive
<1> DEFINE R == [i \in DOMAIN Sections |-> SectionPins(f, i)]
           d == FlattenSeq(R)
           r == [NpmNothing EXCEPT !.deps = d]
<1>1. DOMAIN Sections = 1..4
  BY DEF Sections
<1>2. PackageJson(f) = NpmParsed("package.json", f, r)
  BY DEF PackageJson, SectionPins
<1>3. ASSUME f.ok
      PROVE  /\ IsEntries(d, Path)
             /\ \A i \in 1..4 : Range(SectionPins(f, i)) \subseteq Range(d)
  <2>1. \A i \in 1..4 : IsEntries(SectionPins(f, i), Path)
    BY <1>1, <1>3, NoEntries, EntriesAre DEF SectionPins, HasSections
  <2>2. DOMAIN R = 1..4 /\ R = [i \in 1..4 |-> R[i]] /\ \A i \in 1..4 : R[i] = SectionPins(f, i)
    BY <1>1
  <2> HIDE DEF R
  <2>3. \A i \in 1..4 : IsSeq(R[i])
    BY <2>1, <2>2 DEF IsEntries
  <2>4. IsSeq(d) /\ Range(d) = UNION {Range(R[i]) : i \in 1..4}
    BY <2>2, <2>3, RangeOfFlatten
  <2> HIDE DEF d
  <2>5. IsEntries(d, Path)
    BY <2>1, <2>2, <2>4 DEF IsEntries
  <2> QED BY <2>2, <2>4, <2>5
<1> HIDE DEF d
<1>4. r = [deps |-> d, notes |-> {}, edges |-> <<>>]
  BY DEF NpmNothing
<1>5. r.deps = d /\ (f.ok => IsNpm(r))
  BY <1>3, <1>4 DEF IsNpm
<1> HIDE DEF r
<1>6. IsNpm(PackageJson(f)) /\ (f.ok => PackageJson(f) = r)
  BY <1>2, <1>5, NpmParsedIs
<1>7. ASSUME f.ok, NEW s \in Range(Sections) \cap DOMAIN f.sections, NEW n \in Pinned(f.sections[s])
      PROVE  \E e \in Range(d) :
               e.name = n /\ e.source = Label("package.json", s, None) /\ ~ e.transitive
  <2>1. PICK i \in 1..4 : Sections[i] = s
    BY <1>1 DEF Range
  <2>2. SectionPins(f, i) = Entries(f.sections[s], Label("package.json", s, None))
    BY <2>1 DEF SectionPins
  <2>3. AreNamed(f.sections[s])
    BY <1>7 DEF HasSections
  <2>4. \E e \in Range(SectionPins(f, i)) :
          e.name = n /\ e.source = Label("package.json", s, None) /\ ~ e.transitive
    BY <2>2, <2>3, EntriesAre
  <2> QED BY <1>3, <1>7, <2>4
<1> QED BY <1>5, <1>6, <1>7

LEMMA InstalledPinsIs ==
  ASSUME NEW r, NEW packages, AreNamed(packages)
  PROVE  AreNamed(InstalledPins(r, packages))
<1> DEFINE n == Len(packages)
           R == [i \in DOMAIN packages |->
                   IF IsFull(r, ChildEdges(packages, i - 1)) \/ packages[i].nested
                      \/ packages[i].version = None
                   THEN <<>> ELSE <<packages[i]>>]
<1>1. IsSeq(packages) /\ \A p \in Range(packages) : IsNamed(p)
  BY DEF AreNamed, IsList, IsSeq
<1>2. DOMAIN packages = 1..n /\ n \in Nat /\ \A i \in 1..n : IsNamed(packages[i])
  BY <1>1, SeqFacts
<1>3. DOMAIN R = 1..n /\ R = [i \in 1..n |-> R[i]]
  BY <1>2
<1>4. \A i \in 1..n : R[i] = <<>> \/ R[i] = <<packages[i]>>
  BY <1>2
<1>5. InstalledPins(r, packages) = FlattenSeq(R)
  BY DEF InstalledPins
<1> HIDE DEF R, n
<1>6. \A i \in 1..n : AreNamed(R[i])
  BY <1>2, <1>4, FewNamed
<1>7. AreNamed(FlattenSeq(R))
  BY <1>2, <1>3, <1>6, PinsTogether
<1> QED BY <1>5, <1>7

LEMMA NpmLockfileIs ==
  ASSUME NEW file, NEW f, f.ok => IsNpmLock(f)
  PROVE  IsNpm(NpmLockfile(file, f))
<1> DEFINE flat == PinsOf(NpmNothing, f.table, Of(file))
           root == RootPins(NpmNothing, PinsIn(f, Range(Sections)), Of(file))
           pins == InstalledPins(root, f.packages)
           full == WithChildren(PinsOf(root, pins, Of(file)), f.packages, file)
           r == IF f.flat THEN flat ELSE full
<1>1. f.ok /\ f.flat => IsNpm(flat)
  BY NpmStarts, PinsOfIs DEF IsNpmLock
<1>2. ASSUME f.ok, ~ f.flat PROVE IsNpm(full)
  <2>1. IsNpm(root)
    <3>1. AreNamed(PinsIn(f, Range(Sections)))
      BY <1>2, PinsInIs DEF IsNpmLock
    <3> QED BY <3>1, NpmStarts, PinsOfIs
  <2> HIDE DEF root
  <2>2. AreNamed(pins)
    BY <1>2, InstalledPinsIs DEF IsNpmLock
  <2> HIDE DEF pins
  <2>3. IsNpm(PinsOf(root, pins, Of(file)))
    BY <2>1, <2>2, PinsOfIs
  <2> QED BY <2>3, WithChildrenIs
<1>3. NpmLockfile(file, f) = NpmParsed(file, f, r)
  BY DEF NpmLockfile
<1>4. f.ok => IsNpm(r)
  BY <1>1, <1>2
<1> HIDE DEF r
<1> QED BY <1>3, <1>4, NpmParsedIs

\* Version 1 of yarn.lock is read line by line.
LEMMA YarnV1Is ==
  ASSUME NEW f, f.ok, IsYarnLock(f), ~ f.berry
  PROVE  IsNpm(YarnV1(f))
<1> DEFINE seq == f.lines
           n == Len(seq)
           base == [name |-> NoName, out |-> <<>>]
           Fine(a) == /\ a = [name |-> a.name, out |-> a.out]
                      /\ AreNamed(a.out) /\ a.name \in Seq(STRING)
<1>1. IsSeq(seq) /\ \A l \in Range(seq) : l.kind = "header" => l.name \in Seq(STRING)
  BY DEF IsYarnLock, IsList, IsSeq, IsNamed
<1>2. DOMAIN seq = 1..n /\ n \in Nat
  BY <1>1, SeqFacts
<1>3. PICK m : /\ m[0] = base /\ \A i \in 1..n : m[i] = YarnV1Line(m[i - 1], seq[i])
               /\ FoldLeft(YarnV1Line, base, seq) = m[n]
  <2>1. seq \in Seq(Range(seq))
    BY <1>1 DEF IsSeq
  <2> HIDE DEF base, seq
  <2> QED BY <2>1, FoldYarn
<1>4. \A s : AreNamed(s) => \A p : IsNamed(p) => AreNamed(Append(s, p))
  <2> SUFFICES ASSUME NEW s, AreNamed(s), NEW p, IsNamed(p) PROVE AreNamed(Append(s, p)) OBVIOUS
  <2> DEFINE X == Range(s) \cup {p}
  <2>1. s \in Seq(X) /\ p \in X /\ \A x \in X : IsNamed(x)
    BY SeqFacts DEF AreNamed, IsList, IsSeq
  <2> HIDE DEF X
  <2>2. Append(s, p) \in Seq(X)
    BY <2>1
  <2>3. IsSeq(Append(s, p)) /\ Range(Append(s, p)) \subseteq X
    BY <2>2, SeqFacts
  <2> QED BY <2>1, <2>3 DEF AreNamed, IsList, IsSeq
<1>5. ASSUME NEW a, Fine(a), NEW l, l.kind = "header" => l.name \in Seq(STRING)
      PROVE  Fine(YarnV1Line(a, l))
  <2>1. CASE l.kind = "header"
    <3>1. YarnV1Line(a, l) = [name |-> l.name, out |-> a.out]
      BY <1>5, <2>1 DEF YarnV1Line
    <3> QED BY <1>5, <2>1, <3>1
  <2>2. CASE l.kind = "blank"
    <3>1. YarnV1Line(a, l) = [name |-> NoName, out |-> a.out]
      BY <1>5, <2>2 DEF YarnV1Line
    <3>2. NoName \in Seq(STRING)
      BY DEF NoName
    <3> QED BY <1>5, <3>1, <3>2
  <2>3. CASE l.kind = "version" /\ a.name # NoName
    <3> DEFINE p == [name |-> a.name, version |-> l.version]
    <3>1. YarnV1Line(a, l) = [name |-> NoName, out |-> Append(a.out, p)]
      BY <2>3 DEF YarnV1Line
    <3>2. NoName \in Seq(STRING)
      BY DEF NoName
    <3>3. IsNamed(p)
      BY <1>5 DEF IsNamed
    <3> HIDE DEF p
    <3>4. AreNamed(Append(a.out, p))
      BY <1>4, <1>5, <3>3
    <3> QED BY <3>1, <3>2, <3>4
  <2>4. CASE l.kind \notin {"header", "blank"} /\ ~ (l.kind = "version" /\ a.name # NoName)
    <3>1. YarnV1Line(a, l) = a
      BY <2>4 DEF YarnV1Line
    <3> QED BY <1>5, <3>1
  <2> QED BY <2>1, <2>2, <2>3, <2>4
<1>6. Fine(base)
  <2>1. NoName \in Seq(STRING)
    BY DEF NoName
  <2> QED BY <2>1, FewNamed
<1> HIDE DEF Fine, base
<1>7. Fine(m[n])
  <2> DEFINE S == {i \in 0..n : Fine(m[i])}
  <2>1. 0 \in S
    BY <1>2, <1>3, <1>6
  <2>2. \A i \in 1..n : i - 1 \in S => i \in S
    <3> SUFFICES ASSUME NEW i \in 1..n, i - 1 \in S PROVE i \in S OBVIOUS
    <3>1. Fine(m[i - 1]) /\ m[i] = YarnV1Line(m[i - 1], seq[i]) /\ i \in 0..n
      BY <1>2, <1>3
    <3>2. seq[i].kind = "header" => seq[i].name \in Seq(STRING)
      BY <1>1, <1>2, SeqFacts
    <3>3. Fine(YarnV1Line(m[i - 1], seq[i]))
      BY <1>5, <3>1, <3>2
    <3> QED BY <3>1, <3>3
  <2>3. n \in 0..n
    BY <1>2
  <2> HIDE DEF S
  <2>4. n \in S
    <3> HIDE DEF n
    <3> QED BY <1>2, <2>1, <2>2, <2>3, UpTo
  <2> QED BY <2>4 DEF S
<1> DEFINE out == m[n].out
<1>8. AreNamed(out) /\ YarnV1(f) = RootPins(NpmNothing, out, Of("yarn.lock"))
  BY <1>3, <1>7 DEF YarnV1, Fine, base
<1> HIDE DEF out
<1> QED BY <1>8, NpmStarts, PinsOfIs

LEMMA YarnLockIs ==
  ASSUME NEW f, f.ok => IsYarnLock(f)
  PROVE  IsNpm(YarnLock(f))
<1> DEFINE r == IF f.berry THEN YarnBerry(f) ELSE YarnV1(f)
<1>1. f.ok => IsNpm(r)
  BY YarnV1Is, NpmStarts, PinsOfIs DEF YarnBerry, IsYarnLock
<1>2. YarnLock(f) = NpmParsed("yarn.lock", f, r)
  BY DEF YarnLock
<1> HIDE DEF r
<1> QED BY <1>1, <1>2, NpmParsedIs

LEMMA PnpmLockIs ==
  ASSUME NEW f, f.ok => HasSections(f)
  PROVE  IsNpm(PnpmLock(f))
<1> DEFINE a == PinsOf(NpmNothing, PinsIn(f, Range(Sections)), Of("pnpm-lock.yaml"))
           b == RootPins(NpmNothing, PinsIn(f, {"dependencies", "devDependencies"}), Of("pnpm-lock.yaml"))
           root == IF f.workspace THEN a ELSE b
           r == WithChildren(root, f.packages, "pnpm-lock.yaml")
<1>1. f.ok => IsNpm(a)
  <2>1. f.ok => AreNamed(PinsIn(f, Range(Sections)))
    BY PinsInIs
  <2> QED BY <2>1, NpmStarts, PinsOfIs
<1>2. f.ok => IsNpm(b)
  <2>1. f.ok => AreNamed(PinsIn(f, {"dependencies", "devDependencies"}))
    BY PinsInIs
  <2> QED BY <2>1, NpmStarts, PinsOfIs
<1> HIDE DEF a, b
<1>3. f.ok => IsNpm(r)
  BY <1>1, <1>2, WithChildrenIs
<1>4. PnpmLock(f) = NpmParsed("pnpm-lock.yaml", f, r)
  BY DEF PnpmLock, a, b
<1> HIDE DEF r
<1> QED BY <1>3, <1>4, NpmParsedIs

\* Pins of npm: and jsr:.
LEMMA DenoPinsIs ==
  ASSUME NEW pins, AreNamed(pins), NEW from
  PROVE  IsNpm(DenoPins(pins, from))
<1> DEFINE T == {i \in DOMAIN pins : pins[i].scheme \in {"npm", "jsr"}}
           s == Some(pins, T)
<1>1. Only(pins, LAMBDA p : p.scheme \in {"npm", "jsr"}) = s
  BY DEF Only, Some
<1>2. IsSeq(pins) /\ \A p \in Range(pins) : IsNamed(p)
  BY DEF AreNamed, IsList, IsSeq
<1>3. AreNamed(s)
  <2> HIDE DEF T
  <2>1. IsSeq(s) /\ Range(s) = {pins[i] : i \in T \cap DOMAIN pins}
    BY <1>2, SomeIs
  <2>2. \A p \in Range(s) : IsNamed(p)
    BY <1>2, <2>1, SeqFacts
  <2> QED BY <2>1, <2>2 DEF AreNamed, IsList, IsSeq
<1> HIDE DEF s
<1>4. DenoPins(pins, from) = PinsOf(NpmNothing, s, from)
  BY <1>1 DEF DenoPins
<1> QED BY <1>3, <1>4, NpmStarts, PinsOfIs

LEMMA OtherNpmFiles ==
  /\ \A f : (f.ok => AreNamed(f.packages)) => IsNpm(BunLock(f))
  /\ \A x : IsNpm(BunLockb(x))
  /\ \A file, f : (f.ok => AreNamed(f.imports)) => IsNpm(DenoJson(file, f))
  /\ \A f : (f.ok => AreNamed(f.specifiers)) => IsNpm(DenoLock(f))
  /\ \A file, f : IsNpm(NpmParsed(file, f, NpmNothing))
<1>1. ASSUME NEW f, f.ok => AreNamed(f.packages) PROVE IsNpm(BunLock(f))
  <2> DEFINE r == PinsOf(NpmNothing, f.packages, Of("bun.lock"))
  <2>1. f.ok => IsNpm(r)
    BY <1>1, NpmStarts, PinsOfIs
  <2>2. BunLock(f) = NpmParsed("bun.lock", f, r)
    BY DEF BunLock
  <2> HIDE DEF r
  <2> QED BY <2>1, <2>2, NpmParsedIs
<1>2. \A x : IsNpm(BunLockb(x))
  BY NpmStarts DEF BunLockb
<1>3. ASSUME NEW file, NEW f, f.ok => AreNamed(f.imports) PROVE IsNpm(DenoJson(file, f))
  BY <1>3, DenoPinsIs, NpmParsedIs DEF DenoJson
<1>4. ASSUME NEW f, f.ok => AreNamed(f.specifiers) PROVE IsNpm(DenoLock(f))
  BY <1>4, DenoPinsIs, NpmParsedIs DEF DenoLock
<1>5. \A file, f : IsNpm(NpmParsed(file, f, NpmNothing))
  BY NpmStarts, NpmParsedIs
<1> QED BY <1>1, <1>2, <1>3, <1>4, <1>5

-----------------------------------------------------------------------------
(* The parsers of Go. *)

LEMMA DirectFacts ==
  /\ AreDirect(<<>>) /\ Range(<<>>) = {}
  /\ \A s, e : AreDirect(s) /\ IsEntry(e, Path) /\ ~ e.transitive
                 => AreDirect(Append(s, e)) /\ Range(Append(s, e)) = Range(s) \cup {e}
<1>1. AreDirect(<<>>) /\ Range(<<>>) = {}
  BY NoEntries DEF AreDirect
<1>2. ASSUME NEW s, NEW e, AreDirect(s), IsEntry(e, Path), ~ e.transitive
      PROVE  AreDirect(Append(s, e)) /\ Range(Append(s, e)) = Range(s) \cup {e}
  <2> DEFINE X == Range(s) \cup {e}
             t == Append(s, e)
  <2>1. s \in Seq(X) /\ e \in X
    BY <1>2, SeqFacts DEF AreDirect, IsEntries
  <2>2. t \in Seq(X) /\ Len(t) = Len(s) + 1 /\ Len(s) \in Nat /\ t[Len(s) + 1] = e
        /\ \A i \in 1..Len(s) : t[i] = s[i]
    <3> HIDE DEF X
    <3> QED BY <2>1
  <2>3. Range(t) = X
    <3>1. DOMAIN t = 1..(Len(s) + 1) /\ DOMAIN s = 1..Len(s)
      <4> HIDE DEF X
      <4> QED BY <2>1, <2>2
    <3> HIDE DEF t
    <3>2. \A i \in 1..Len(s) : i \in 1..(Len(s) + 1)
      BY <2>2
    <3>3. Len(s) + 1 \in 1..(Len(s) + 1)
      BY <2>2
    <3>4. \A i \in 1..(Len(s) + 1) : i \in 1..Len(s) \/ i = Len(s) + 1
      BY <2>2
    <3>5. Range(t) \subseteq X
      BY <2>2, <3>1, <3>4 DEF Range
    <3>6. X \subseteq Range(t)
      BY <2>2, <3>1, <3>2, <3>3 DEF Range
    <3> QED BY <3>5, <3>6
  <2>4. IsSeq(t)
    <3> HIDE DEF X, t
    <3> QED BY <2>2, SeqFacts
  <2>5. \A x \in X : IsEntry(x, Path) /\ ~ x.transitive
    BY <1>2 DEF AreDirect, IsEntries
  <2> HIDE DEF t
  <2>6. AreDirect(t)
    <3> HIDE DEF X
    <3> QED BY <2>3, <2>4, <2>5 DEF AreDirect, IsEntries
  <2>7. AreDirect(t) /\ Range(t) = Range(s) \cup {e}
    BY <2>3, <2>6
  <2> QED BY <2>7 DEF t
<1> QED BY <1>1, <1>2

\* The same entries with something else said about them.
LEMMA DirectChanged ==
  ASSUME NEW s, AreDirect(s), NEW t, t = [i \in DOMAIN s |-> t[i]],
         \A i \in DOMAIN s : IsEntry(t[i], Path) /\ t[i].name = s[i].name
                             /\ t[i].transitive = s[i].transitive
  PROVE  /\ AreDirect(t)
         /\ {e.name : e \in Range(t)} = {e.name : e \in Range(s)}
<1>1. DOMAIN s = 1..Len(s) /\ Len(s) \in Nat /\ \A i \in DOMAIN s : ~ s[i].transitive
  BY SeqFacts DEF AreDirect, IsEntries
<1>2. IsSeq(t)
  BY <1>1, SeqFacts
<1>3. \A e \in Range(t) : \E i \in DOMAIN s : t[i] = e
  BY DEF Range
<1>4. \A e \in Range(s) : \E i \in DOMAIN s : s[i] = e
  BY DEF Range
<1>5. \A i \in DOMAIN s : t[i] \in Range(t) /\ s[i] \in Range(s)
  BY DEF Range
<1>6. AreDirect(t)
  BY <1>1, <1>2, <1>3 DEF AreDirect, IsEntries
<1> QED BY <1>3, <1>4, <1>5, <1>6

LEMMA OpenerNext ==
  ASSUME NEW lines, IsSeq(lines), NEW i \in DOMAIN lines
  PROVE  /\ lines[i].kind = "open" => Opener(lines, i + 1) = {i}
         /\ lines[i].kind = "close" => Opener(lines, i + 1) = {}
         /\ lines[i].kind \notin {"open", "close"} => Opener(lines, i + 1) = Opener(lines, i)
<1>1. i \in Nat /\ i >= 1 /\ (i + 1) - 1 = i
  BY SeqFacts
<1>2. \A j \in 1..i : j = i \/ j \in 1..(i - 1)
  BY <1>1
<1>3. \A j \in 1..(i - 1) : i \in (j + 1)..i /\ j \in 1..i /\ j # i
  BY <1>1
<1>4. (i + 1)..i = {}
  BY <1>1
<1>5. \A j \in 1..(i - 1) : (j + 1)..i = ((j + 1)..(i - 1)) \cup {i}
  BY <1>1
<1>6. i \in 1..i /\ i \notin 1..(i - 1)
  BY <1>1
<1>7. Opener(lines, i + 1) =
        {j \in 1..i : lines[j].kind = "open" /\ \A l \in (j + 1)..i : lines[l].kind \notin {"open", "close"}}
  BY <1>1 DEF Opener
<1>8. Opener(lines, i) =
        {j \in 1..(i - 1) : lines[j].kind = "open" /\ \A l \in (j + 1)..(i - 1) : lines[l].kind \notin {"open", "close"}}
  BY DEF Opener
<1>9. CASE lines[i].kind = "open"
  BY <1>2, <1>3, <1>4, <1>6, <1>7, <1>9
<1>10. CASE lines[i].kind = "close"
  BY <1>2, <1>3, <1>7, <1>10
<1>11. CASE lines[i].kind \notin {"open", "close"}
  <2>1. \A j \in Opener(lines, i + 1) : j \in Opener(lines, i)
    <3> SUFFICES ASSUME NEW j \in Opener(lines, i + 1) PROVE j \in Opener(lines, i) OBVIOUS
    <3>1. j \in 1..(i - 1)
      BY <1>2, <1>7, <1>11
    <3> QED BY <1>5, <1>7, <1>8, <3>1
  <2>2. \A j \in Opener(lines, i) : j \in Opener(lines, i + 1)
    BY <1>3, <1>5, <1>7, <1>8, <1>11
  <2> QED BY <1>11, <2>1, <2>2
<1> QED BY <1>9, <1>10, <1>11

LEMMA DirectiveIs ==
  ASSUME NEW lines, NEW i \in Nat, NEW l \in DOMAIN lines, NEW st,
         GoState(lines, i, st), NEW block, lines[l].item.path \in Path,
         block = "exclude" => l \in Stated(lines, "exclude"),
         NEW t, t = Directive(st, block, lines[l].item)
  PROVE  IsTaken(lines, l, st, block, t)
<1> DEFINE it == lines[l].item
<1>1. st = [block |-> st.block, deps |-> st.deps, excludes |-> st.excludes, replaces |-> st.replaces]
      /\ AreDirect(st.deps)
  BY DEF GoState
<1>2. CASE block = "require"
  <2> DEFINE e == Entry(it.path, it.version,
                        Label("go.mod", "require", IF it.indirect THEN "indirect" ELSE None))
  <2>1. IsEntry(e, Path) /\ e.name = it.path /\ ~ e.transitive
    BY DEF Entry, IsEntry
  <2>2. t = [st EXCEPT !.deps = Append(@, e)]
    BY <1>2 DEF Directive, Require
  <2> HIDE DEF e
  <2>3. t = [block |-> st.block, deps |-> Append(st.deps, e), excludes |-> st.excludes, replaces |-> st.replaces]
    BY <1>1, <2>2
  <2>4. AreDirect(Append(st.deps, e)) /\ Range(Append(st.deps, e)) = Range(st.deps) \cup {e}
    BY <1>1, <2>1, DirectFacts
  <2>5. t.deps = Append(st.deps, e) /\ t.block = st.block /\ t.excludes = st.excludes
        /\ t = [block |-> t.block, deps |-> t.deps, excludes |-> t.excludes, replaces |-> t.replaces]
    BY <2>3
  <2>6. AreDirect(t.deps) /\ Range(t.deps) = Range(st.deps) \cup {e}
    BY <2>4, <2>5
  <2>7. \A x \in t.excludes : \E n \in Stated(lines, "exclude") : x[1] = lines[n].item.path
    BY <2>5 DEF GoState
  <2>8. e \in Range(t.deps) /\ e.name = lines[l].item.path /\ \A x \in Range(st.deps) : x \in Range(t.deps)
    BY <2>1, <2>6
  <2> QED BY <1>2, <2>5, <2>6, <2>7, <2>8 DEF IsTaken
<1>3. CASE block = "replace"
  <2> DEFINE r == it.path :> [new |-> it.new, version |-> it.version] @@ st.replaces
  <2>1. t = [st EXCEPT !.replaces = r]
    BY <1>1, <1>3 DEF Directive, Replace
  <2> HIDE DEF r
  <2>2. t = [block |-> st.block, deps |-> st.deps, excludes |-> st.excludes, replaces |-> r]
    BY <1>1, <2>1
  <2> QED BY <1>1, <1>3, <2>2 DEF GoState, IsTaken
<1>4. CASE block = "exclude"
  <2> DEFINE x == <<it.path, it.version>>
  <2>1. t = [st EXCEPT !.excludes = @ \cup {x}]
    BY <1>4 DEF Directive, Exclude
  <2>2. x[1] = it.path OBVIOUS
  <2> HIDE DEF x
  <2>3. t = [block |-> st.block, deps |-> st.deps, excludes |-> st.excludes \cup {x}, replaces |-> st.replaces]
    BY <1>1, <2>1
  <2>4. \A y \in st.excludes : \E n \in Stated(lines, "exclude") : y[1] = lines[n].item.path
    BY DEF GoState
  <2>5. l \in Stated(lines, "exclude")
    BY <1>4
  <2> QED BY <1>1, <1>4, <2>2, <2>3, <2>4, <2>5 DEF IsTaken
<1>5. CASE block \notin {"require", "replace", "exclude"}
  <2>1. t = st
    BY <1>5 DEF Directive
  <2> QED BY <1>1, <1>5, <2>1 DEF GoState, IsTaken
<1> QED BY <1>2, <1>3, <1>4, <1>5

LEMMA GoLineIs ==
  ASSUME NEW lines, IsGoLines(lines), NEW i \in DOMAIN lines, NEW st, GoState(lines, i - 1, st)
  PROVE  GoState(lines, i, GoModLine(st, lines[i]))
<1> DEFINE line == lines[i]
           t == GoModLine(st, line)
<1>1. /\ IsSeq(lines) /\ i \in Nat /\ i - 1 \in Nat /\ (i - 1) + 1 = i
      /\ line.kind \in {"single", "item"} => line.item.path \in Path
      /\ line.kind = "open" => line.block # None
  <2>1. i \in Nat /\ i >= 1 /\ line \in Range(lines) /\ IsSeq(lines)
    BY SeqFacts DEF IsGoLines
  <2>2. i - 1 \in Nat /\ (i - 1) + 1 = i
    BY <2>1
  <2> QED BY <2>1, <2>2 DEF IsGoLines
<1>2. \A l \in Stated(lines, "require") : l <= i => l <= i - 1 \/ l = i
  <2>1. \A l \in Stated(lines, "require") : l \in Nat
    BY <1>1, SeqFacts DEF Stated
  <2> QED BY <1>1, <2>1
<1>3. /\ st = [block |-> st.block, deps |-> st.deps, excludes |-> st.excludes, replaces |-> st.replaces]
      /\ AreDirect(st.deps)
      /\ Opener(lines, i) = {} => st.block = None
      /\ \A j \in Opener(lines, i) : lines[j].block = st.block /\ st.block # None
      /\ \A l \in Stated(lines, "require") :
           l <= i - 1 => \E e \in Range(st.deps) : e.name = lines[l].item.path
      /\ \A x \in st.excludes : \E l \in Stated(lines, "exclude") : x[1] = lines[l].item.path
  BY <1>1 DEF GoState
<1>4. \A block : i \in Stated(lines, block) =>
        \/ line.kind = "single" /\ line.block = block /\ Opener(lines, i) = {}
        \/ line.kind = "item" /\ \E j \in Opener(lines, i) : lines[j].block = block
  BY DEF Stated
<1>5. CASE line.kind = "open"
  <2>1. t = [st EXCEPT !.block = line.block]
    BY <1>5 DEF GoModLine
  <2>2. t = [block |-> line.block, deps |-> st.deps, excludes |-> st.excludes, replaces |-> st.replaces]
    <3> HIDE DEF t
    <3> QED BY <1>3, <2>1
  <2>3. Opener(lines, i + 1) = {i}
    BY <1>1, <1>5, OpenerNext
  <2>4. i \notin Stated(lines, "require")
    BY <1>4, <1>5
  <2> HIDE DEF t
  <2> QED BY <1>1, <1>2, <1>3, <1>5, <2>2, <2>3, <2>4 DEF GoState, t
<1>6. CASE line.kind = "close"
  <2>1. t = [st EXCEPT !.block = None]
    BY <1>6 DEF GoModLine
  <2>2. t = [block |-> None, deps |-> st.deps, excludes |-> st.excludes, replaces |-> st.replaces]
    <3> HIDE DEF t
    <3> QED BY <1>3, <2>1
  <2>3. Opener(lines, i + 1) = {}
    BY <1>1, <1>6, OpenerNext
  <2>4. i \notin Stated(lines, "require")
    BY <1>4, <1>6
  <2> HIDE DEF t
  <2> QED BY <1>1, <1>2, <1>3, <1>6, <2>2, <2>3, <2>4 DEF GoState, t
<1>7. ASSUME NEW block, line.kind \in {"single", "item"}, t = Directive(st, block, line.item),
             block \in {"require", "exclude"} => i \in Stated(lines, block),
             \A b \in {"require"} : i \in Stated(lines, b) => block = b
      PROVE  GoState(lines, i, t)
  <2>1. GoState(lines, i - 1, st) /\ i - 1 \in Nat /\ lines[i].item.path \in Path
        /\ (block = "exclude" => i \in Stated(lines, "exclude"))
        /\ t = Directive(st, block, lines[i].item)
    BY <1>1, <1>7
  <2> HIDE DEF t
  <2> DEFINE j == i - 1
  <2>9. GoState(lines, j, st) /\ j \in Nat /\ i \in DOMAIN lines
    BY <2>1
  <2> HIDE DEF j
  <2>8. IsTaken(lines, i, st, block, t)
    BY <2>1, <2>9, DirectiveIs
  <2>2. /\ t = [block |-> t.block, deps |-> t.deps, excludes |-> t.excludes, replaces |-> t.replaces]
        /\ t.block = st.block
        /\ AreDirect(t.deps)
        /\ \A e \in Range(st.deps) : e \in Range(t.deps)
        /\ block = "require" => \E e \in Range(t.deps) : e.name = lines[i].item.path
        /\ \A x \in t.excludes : \E n \in Stated(lines, "exclude") : x[1] = lines[n].item.path
    BY <2>8 DEF IsTaken
  <2>3. Opener(lines, i + 1) = Opener(lines, i)
    BY <1>1, <1>7, OpenerNext
  <2>4. \A l \in Stated(lines, "require") :
          l <= i => \E e \in Range(t.deps) : e.name = lines[l].item.path
    <3> SUFFICES ASSUME NEW l \in Stated(lines, "require"), l <= i
                 PROVE  \E e \in Range(t.deps) : e.name = lines[l].item.path
      OBVIOUS
    <3>1. CASE l = i
      BY <1>7, <2>2, <3>1
    <3>2. CASE l <= i - 1
      BY <1>3, <2>2, <3>2
    <3> QED BY <1>2, <3>1, <3>2
  <2> QED BY <1>3, <2>2, <2>3, <2>4 DEF GoState
<1>8. CASE line.kind = "single" /\ st.block = None
  <2>1. Opener(lines, i) = {}
    BY <1>3, <1>8
  <2>2. t = Directive(st, line.block, line.item)
    BY <1>8 DEF GoModLine
  <2>3. \A b : i \in Stated(lines, b) <=> line.block = b
    BY <1>8, <2>1 DEF Stated
  <2> DEFINE block == line.block
  <2>4. line.kind \in {"single", "item"} /\ t = Directive(st, block, line.item)
        /\ (block \in {"require", "exclude"} => i \in Stated(lines, block))
        /\ \A b \in {"require"} : i \in Stated(lines, b) => block = b
    BY <1>8, <2>2, <2>3
  <2> HIDE DEF t, block
  <2>5. GoState(lines, i, t)
    BY <1>7, <2>4
  <2> QED BY <2>5 DEF t
<1>9. CASE line.kind = "item" /\ st.block # None
  <2>1. Opener(lines, i) # {}
    BY <1>3, <1>9
  <2>2. t = Directive(st, st.block, line.item)
    BY <1>9 DEF GoModLine
  <2>3. \A b : i \in Stated(lines, b) <=> st.block = b
    BY <1>3, <1>9, <2>1 DEF Stated
  <2> DEFINE block == st.block
  <2>4. line.kind \in {"single", "item"} /\ t = Directive(st, block, line.item)
        /\ (block \in {"require", "exclude"} => i \in Stated(lines, block))
        /\ \A b \in {"require"} : i \in Stated(lines, b) => block = b
    BY <1>9, <2>2, <2>3
  <2> HIDE DEF t, block
  <2>5. GoState(lines, i, t)
    BY <1>7, <2>4
  <2> QED BY <2>5 DEF t
<1>10. CASE /\ line.kind \notin {"open", "close"}
            /\ ~ (line.kind = "single" /\ st.block = None)
            /\ ~ (line.kind = "item" /\ st.block # None)
  <2>1. t = st
    BY <1>10 DEF GoModLine
  <2>2. Opener(lines, i + 1) = Opener(lines, i)
    BY <1>1, <1>10, OpenerNext
  <2>3. i \notin Stated(lines, "require")
    BY <1>3, <1>4, <1>10
  <2> HIDE DEF t
  <2> QED BY <1>2, <1>3, <2>1, <2>2, <2>3 DEF GoState, t
<1> QED BY <1>5, <1>6, <1>8, <1>9, <1>10

\* What Append does to a sequence.
LEMMA AppendIs ==
  ASSUME NEW s, IsSeq(s), NEW e
  PROVE  /\ IsSeq(Append(s, e)) /\ Range(Append(s, e)) = Range(s) \cup {e}
         /\ Len(s) \in Nat /\ DOMAIN s = 1..Len(s)
         /\ DOMAIN Append(s, e) = 1..(Len(s) + 1)
         /\ Append(s, e)[Len(s) + 1] = e
         /\ \A i \in 1..Len(s) : Append(s, e)[i] = s[i]
<1> DEFINE X == Range(s) \cup {e}
           t == Append(s, e)
<1>1. s \in Seq(X) /\ e \in X /\ DOMAIN s = 1..Len(s)
  BY SeqFacts
<1>2. t \in Seq(X) /\ Len(t) = Len(s) + 1 /\ Len(s) \in Nat /\ t[Len(s) + 1] = e
      /\ \A i \in 1..Len(s) : t[i] = s[i]
  <2> HIDE DEF X
  <2> QED BY <1>1
<1>3. DOMAIN t = 1..(Len(s) + 1)
  <2> HIDE DEF X
  <2> QED BY <1>1, <1>2
<1>4. IsSeq(t)
  <2> HIDE DEF X, t
  <2> QED BY <1>2, SeqFacts
<1>5. Range(t) = X
  <2> HIDE DEF t
  <2>1. \A i \in 1..Len(s) : i \in 1..(Len(s) + 1)
    BY <1>2
  <2>2. Len(s) + 1 \in 1..(Len(s) + 1)
    BY <1>2
  <2>3. \A i \in 1..(Len(s) + 1) : i \in 1..Len(s) \/ i = Len(s) + 1
    BY <1>2
  <2>4. Range(t) \subseteq X
    BY <1>1, <1>2, <1>3, <2>3 DEF Range
  <2>5. X \subseteq Range(t)
    BY <1>1, <1>2, <1>3, <2>1, <2>2 DEF Range
  <2> QED BY <2>4, <2>5
<1> QED BY <1>1, <1>2, <1>3, <1>4, <1>5

\* A new name at the end.
LEMMA OneMore ==
  ASSUME NEW s, OneEach(s), NEW e, IsEntry(e, Path), e.name \notin Names(s)
  PROVE  OneEach(Append(s, e)) /\ Names(Append(s, e)) = Names(s) \cup {e.name}
<1> DEFINE t == Append(s, e)
<1>1. /\ IsSeq(t) /\ Range(t) = Range(s) \cup {e}
      /\ Len(s) \in Nat /\ DOMAIN s = 1..Len(s) /\ DOMAIN t = 1..(Len(s) + 1)
      /\ t[Len(s) + 1] = e
      /\ \A i \in 1..Len(s) : t[i] = s[i]
  BY AppendIs DEF OneEach, IsEntries
<1> HIDE DEF t
<1>2. \A i \in DOMAIN t : i \in DOMAIN s \/ i = Len(s) + 1
  BY <1>1
<1>3. \A i \in DOMAIN s : s[i].name # e.name
  BY SeqFacts DEF Names
<1>4. \A i, j \in DOMAIN t : t[i].name = t[j].name => i = j
  BY <1>1, <1>2, <1>3 DEF OneEach
<1>5. IsEntries(t, Path)
  BY <1>1 DEF OneEach, IsEntries
<1>6. Names(t) = Names(s) \cup {e.name}
  BY <1>1 DEF Names
<1> QED BY <1>4, <1>5, <1>6 DEF OneEach, t

\* Other entries for the same names.
LEMMA SameNames ==
  ASSUME NEW s, OneEach(s), NEW t, t = [i \in DOMAIN s |-> t[i]],
         \A i \in DOMAIN s : IsEntry(t[i], Path) /\ t[i].name = s[i].name
  PROVE  OneEach(t) /\ Names(t) = Names(s)
<1>1. DOMAIN s = 1..Len(s) /\ Len(s) \in Nat
  BY SeqFacts DEF OneEach, IsEntries
<1>2. IsSeq(t) /\ DOMAIN t = DOMAIN s
  BY <1>1, SeqFacts
<1>3. \A e \in Range(t) : \E i \in DOMAIN s : t[i] = e
  BY <1>2, SeqFacts
<1>4. \A e \in Range(s) : \E i \in DOMAIN s : s[i] = e
  BY SeqFacts
<1>5. \A i \in DOMAIN s : t[i] \in Range(t) /\ s[i] \in Range(s)
  BY <1>2, SeqFacts
<1>6. OneEach(t)
  BY <1>2, <1>3 DEF OneEach, IsEntries
<1> QED BY <1>3, <1>4, <1>5, <1>6 DEF Names

LEMMA PositionIs ==
  ASSUME NEW s, NEW n
  PROVE  PositionOf(s, n) = {} <=> n \notin Names(s)
<1>1. \A e \in Range(s) : \E i \in DOMAIN s : s[i] = e
  BY SeqFacts
<1>2. \A i \in DOMAIN s : s[i] \in Range(s)
  BY SeqFacts
<1> QED BY <1>1, <1>2 DEF PositionOf, Names

\* The first entry of a name stays.
LEMMA AddNewIs ==
  ASSUME NEW s, OneEach(s), NEW e, IsEntry(e, Path)
  PROVE  OneEach(AddNew(s, e)) /\ Names(AddNew(s, e)) = Names(s) \cup {e.name}
<1>1. CASE PositionOf(s, e.name) = {}
  <2>1. AddNew(s, e) = Append(s, e)
    BY <1>1 DEF AddNew
  <2>2. e.name \notin Names(s)
    BY <1>1, PositionIs
  <2> QED BY <2>1, <2>2, OneMore
<1>2. CASE PositionOf(s, e.name) # {}
  <2>1. AddNew(s, e) = s
    BY <1>2 DEF AddNew
  <2>2. e.name \in Names(s)
    BY <1>2, PositionIs
  <2> QED BY <2>1, <2>2
<1> QED BY <1>1, <1>2

LEMMA CollectedNext ==
  ASSUME NEW base, NEW seq, NEW i \in Nat, i # 0, NEW s, Collected(base, seq, i - 1, s),
         NEW t, OneEach(t), Names(t) = Names(s) \cup {seq[i].name}
  PROVE  Collected(base, seq, i, t)
<1>1. 1..i = (1..(i - 1)) \cup {i} OBVIOUS
<1> QED BY <1>1 DEF Collected

LEMMA CollectedAll ==
  ASSUME NEW base, NEW seq, IsSeq(seq), NEW s, Collected(base, seq, Len(seq), s)
  PROVE  OneEach(s) /\ Names(s) = Names(base) \cup Names(seq)
<1>1. DOMAIN seq = 1..Len(seq)
  BY SeqFacts
<1>2. {seq[j].name : j \in 1..Len(seq)} = Names(seq)
  BY <1>1, SeqFacts DEF Names
<1> QED BY <1>2 DEF Collected

LEMMA AddAllIs ==
  ASSUME NEW base, OneEach(base), NEW seq, IsEntries(seq, Path)
  PROVE  /\ OneEach(FoldLeft(AddNew, base, seq))
         /\ Names(FoldLeft(AddNew, base, seq)) = Names(base) \cup Names(seq)
<1>1. IsSeq(seq) /\ Len(seq) \in Nat /\ DOMAIN seq = 1..Len(seq)
      /\ \A i \in 1..Len(seq) : IsEntry(seq[i], Path)
  BY SeqFacts DEF IsEntries
<1>2. seq \in Seq(Range(seq))
  BY <1>1 DEF IsSeq
<1>3. PICK m : /\ m[0] = base /\ \A i \in 1..Len(seq) : m[i] = AddNew(m[i - 1], seq[i])
               /\ FoldLeft(AddNew, base, seq) = m[Len(seq)]
  BY <1>2, FoldNew
<1> DEFINE S == {i \in 0..Len(seq) : Collected(base, seq, i, m[i])}
<1>4. 0 \in S
  <2>1. {seq[j].name : j \in 1..0} = {} OBVIOUS
  <2> QED BY <1>1, <1>3, <2>1 DEF Collected
<1>5. ASSUME NEW i \in 1..Len(seq), i - 1 \in S PROVE i \in S
  <2>1. i \in Nat /\ i # 0 /\ i \in 0..Len(seq)
    BY <1>1
  <2>2. Collected(base, seq, i - 1, m[i - 1]) /\ OneEach(m[i - 1])
    BY <1>5 DEF Collected
  <2>3. OneEach(AddNew(m[i - 1], seq[i]))
        /\ Names(AddNew(m[i - 1], seq[i])) = Names(m[i - 1]) \cup {seq[i].name}
    BY <1>1, <2>2, AddNewIs
  <2>4. Collected(base, seq, i, m[i])
    BY <1>3, <2>1, <2>2, <2>3, CollectedNext
  <2> QED BY <2>1, <2>4
<1>6. \A i \in 0..Len(seq) : i \in S
  <2> HIDE DEF S
  <2> QED BY <1>1, <1>4, <1>5, UpTo
<1>7. Collected(base, seq, Len(seq), m[Len(seq)])
  BY <1>1, <1>6
<1> QED BY <1>1, <1>3, <1>7, CollectedAll

\* A later entry of a module replaces one without a version, at its place.
LEMMA MergeGoIs ==
  ASSUME NEW acc, acc = [deps |-> acc.deps, notes |-> acc.notes], OneEach(acc.deps),
         NEW e, IsEntry(e, Path)
  PROVE  /\ MergeGo(acc, e) = [deps |-> MergeGo(acc, e).deps, notes |-> MergeGo(acc, e).notes]
         /\ OneEach(MergeGo(acc, e).deps)
         /\ Names(MergeGo(acc, e).deps) = Names(acc.deps) \cup {e.name}
<1>1. CASE PositionOf(acc.deps, e.name) = {}
  <2>1. MergeGo(acc, e) = [deps |-> Append(acc.deps, e), notes |-> acc.notes]
    BY <1>1 DEF MergeGo
  <2>2. e.name \notin Names(acc.deps)
    BY <1>1, PositionIs
  <2>3. OneEach(Append(acc.deps, e)) /\ Names(Append(acc.deps, e)) = Names(acc.deps) \cup {e.name}
    BY <2>2, OneMore
  <2> QED BY <2>1, <2>3
<1>2. CASE PositionOf(acc.deps, e.name) # {}
  <2> DEFINE i == CHOOSE j \in PositionOf(acc.deps, e.name) : TRUE
  <2>1. i \in DOMAIN acc.deps /\ acc.deps[i].name = e.name
    BY <1>2 DEF PositionOf
  <2>2. e.name \in Names(acc.deps)
    BY <1>2, PositionIs
  <2>3. MergeGo(acc, e) = IF e.version # None /\ acc.deps[i].version = None
                          THEN [acc EXCEPT !.deps[i] = e] ELSE acc
    BY <1>2 DEF MergeGo
  <2> HIDE DEF i
  <2>4. CASE e.version # None /\ acc.deps[i].version = None
    <3> DEFINE t == [acc.deps EXCEPT ![i] = e]
    <3>1. MergeGo(acc, e) = [deps |-> t, notes |-> acc.notes]
      BY <2>3, <2>4
    <3>2. t = [j \in DOMAIN acc.deps |-> t[j]] OBVIOUS
    <3>3. \A j \in DOMAIN acc.deps : IsEntry(t[j], Path) /\ t[j].name = acc.deps[j].name
      BY <2>1, SeqFacts DEF OneEach, IsEntries
    <3> HIDE DEF t
    <3>4. OneEach(t) /\ Names(t) = Names(acc.deps)
      BY <3>2, <3>3, SameNames
    <3> QED BY <2>2, <3>1, <3>4
  <2>5. CASE ~ (e.version # None /\ acc.deps[i].version = None)
    BY <2>2, <2>3, <2>5
  <2> QED BY <2>4, <2>5
<1> QED BY <1>1, <1>2

LEMMA DeduplicateGoIs ==
  ASSUME NEW seq, IsEntries(seq, Path)
  PROVE  OneEach(DeduplicateGo(seq).deps) /\ Names(DeduplicateGo(seq).deps) = Names(seq)
<1> DEFINE base == Nothing
<1>1. IsSeq(seq) /\ Len(seq) \in Nat /\ DOMAIN seq = 1..Len(seq)
      /\ \A i \in 1..Len(seq) : IsEntry(seq[i], Path)
  BY SeqFacts DEF IsEntries
<1>2. seq \in Seq(Range(seq))
  BY <1>1 DEF IsSeq
<1>3. DeduplicateGo(seq) = FoldLeft(MergeGo, base, seq)
  BY DEF DeduplicateGo
<1>4. base = [deps |-> base.deps, notes |-> base.notes] /\ OneEach(base.deps) /\ Names(base.deps) = {}
  BY NoEntries DEF Nothing, OneEach, Names
<1> HIDE DEF base
<1>5. PICK m : /\ m[0] = base /\ \A i \in 1..Len(seq) : m[i] = MergeGo(m[i - 1], seq[i])
               /\ FoldLeft(MergeGo, base, seq) = m[Len(seq)]
  BY <1>2, FoldGo
<1> DEFINE S == {i \in 0..Len(seq) : m[i] = [deps |-> m[i].deps, notes |-> m[i].notes]
                                     /\ Collected(<<>>, seq, i, m[i].deps)}
<1>6. Names(<<>>) = {}
  BY NoEntries DEF Names
<1>7. 0 \in S
  <2>1. {seq[j].name : j \in 1..0} = {} OBVIOUS
  <2> QED BY <1>1, <1>4, <1>5, <1>6, <2>1 DEF Collected
<1>8. ASSUME NEW i \in 1..Len(seq), i - 1 \in S PROVE i \in S
  <2> DEFINE a == m[i - 1]
             d == a.deps
             b == MergeGo(a, seq[i])
             t == b.deps
  <2>1. i \in Nat /\ i # 0 /\ i \in 0..Len(seq) /\ IsEntry(seq[i], Path)
    BY <1>1
  <2>2. a = [deps |-> a.deps, notes |-> a.notes] /\ Collected(<<>>, seq, i - 1, d) /\ OneEach(a.deps)
    BY <1>8 DEF Collected
  <2>3. m[i] = b
    BY <1>5
  <2>4. /\ b = [deps |-> b.deps, notes |-> b.notes]
        /\ OneEach(b.deps) /\ Names(b.deps) = Names(a.deps) \cup {seq[i].name}
    <3> HIDE DEF a
    <3> QED BY <2>1, <2>2, MergeGoIs
  <2> HIDE DEF a, b
  <2>5. OneEach(t) /\ Names(t) = Names(d) \cup {seq[i].name}
    BY <2>4
  <2>6. Collected(<<>>, seq, i, t)
    <3> HIDE DEF t, d
    <3> QED BY <2>1, <2>2, <2>5, CollectedNext
  <2> QED BY <2>1, <2>3, <2>4, <2>6
<1>9. \A i \in 0..Len(seq) : i \in S
  <2> HIDE DEF S
  <2> QED BY <1>1, <1>7, <1>8, UpTo
<1>10. Collected(<<>>, seq, Len(seq), m[Len(seq)].deps)
  <2>1. Len(seq) \in 0..Len(seq)
    BY <1>1
  <2>2. Len(seq) \in S
    <3> HIDE DEF S
    <3> QED BY <1>9, <2>1
  <2> QED BY <2>2
<1>11. OneEach(m[Len(seq)].deps) /\ Names(m[Len(seq)].deps) = Names(<<>>) \cup Names(seq)
  BY <1>1, <1>10, CollectedAll
<1> QED BY <1>3, <1>5, <1>6, <1>11

\* The reader of go.mod at the end of the file.
LEMMA GoModLinesAre ==
  ASSUME NEW lines, IsGoLines(lines)
  PROVE  GoState(lines, Len(lines), FoldLeft(GoModLine, GoModStart, lines))
<1> DEFINE base == GoModStart
<1>1. IsSeq(lines) /\ Len(lines) \in Nat /\ DOMAIN lines = 1..Len(lines) /\ lines \in Seq(Range(lines))
  BY SeqFacts DEF IsGoLines, IsSeq
<1>2. GoState(lines, 0, base)
  <2>1. base = [block |-> base.block, deps |-> base.deps, excludes |-> base.excludes,
                replaces |-> base.replaces]
        /\ base.deps = <<>> /\ base.block = None /\ base.excludes = {}
    BY DEF GoModStart
  <2> HIDE DEF base
  <2>2. Opener(lines, 0 + 1) = {}
    BY DEF Opener
  <2>3. \A l \in Stated(lines, "require") : ~ (l <= 0)
    BY <1>1 DEF Stated
  <2> QED BY <2>1, <2>2, <2>3, DirectFacts DEF GoState
<1> HIDE DEF base
<1>3. PICK m : /\ m[0] = base /\ \A i \in 1..Len(lines) : m[i] = GoModLine(m[i - 1], lines[i])
               /\ FoldLeft(GoModLine, base, lines) = m[Len(lines)]
  BY <1>1, FoldGoMod
<1> DEFINE S == {i \in 0..Len(lines) : GoState(lines, i, m[i])}
<1>4. 0 \in S
  BY <1>1, <1>2, <1>3
<1>5. ASSUME NEW i \in 1..Len(lines), i - 1 \in S PROVE i \in S
  <2> DEFINE a == m[i - 1]
  <2>1. i \in DOMAIN lines /\ i \in 0..Len(lines) /\ GoState(lines, i - 1, a)
    BY <1>1, <1>5
  <2>2. m[i] = GoModLine(a, lines[i])
    BY <1>3
  <2> HIDE DEF a
  <2>3. GoState(lines, i, GoModLine(a, lines[i]))
    BY <2>1, GoLineIs
  <2> QED BY <2>1, <2>2, <2>3
<1>6. \A i \in 0..Len(lines) : i \in S
  <2> HIDE DEF S
  <2> QED BY <1>1, <1>4, <1>5, UpTo
<1>7. Len(lines) \in 0..Len(lines)
  BY <1>1
<1> QED BY <1>3, <1>6, <1>7 DEF base

\* A replacement changes the version alone.
LEMMA ReplacedIs ==
  ASSUME NEW d, IsEntry(d, Path), NEW r
  PROVE  /\ IsEntry(Replaced(d, r), Path)
         /\ Replaced(d, r).name = d.name /\ Replaced(d, r).transitive = d.transitive
<1>1. \A v : [d EXCEPT !.version = v] =
               [name |-> d.name, version |-> v, source |-> d.source, transitive |-> d.transitive]
  BY DEF IsEntry
<1>2. Replaced(d, r) = d \/ \E v : Replaced(d, r) = [d EXCEPT !.version = v]
  BY DEF Replaced
<1>3. CASE Replaced(d, r) = d
  BY <1>3
<1>4. ASSUME NEW v, Replaced(d, r) = [d EXCEPT !.version = v]
      PROVE  /\ IsEntry(Replaced(d, r), Path)
             /\ Replaced(d, r).name = d.name /\ Replaced(d, r).transitive = d.transitive
  <2>1. Replaced(d, r) = [name |-> d.name, version |-> v, source |-> d.source,
                          transitive |-> d.transitive]
    BY <1>1, <1>4
  <2> QED BY <2>1 DEF IsEntry
<1> QED BY <1>2, <1>3, <1>4

\* What is required and not excluded is an entry.
LEMMA GoModIs ==
  ASSUME NEW f, f.ok => IsGoLines(f.lines)
  PROVE  /\ IsEntries(GoMod(f).deps, Path)
         /\ f.ok => \A l \in Stated(f.lines, "require") :
              \/ f.lines[l].item.path \in Names(GoMod(f).deps)
              \/ \E x \in Stated(f.lines, "exclude") : f.lines[l].item.path = f.lines[x].item.path
<1> DEFINE st == FoldLeft(GoModLine, GoModStart, f.lines)
           deps == st.deps
           t == [i \in DOMAIN deps |-> Replaced(deps[i], st.replaces)]
           T == {i \in DOMAIN t : <<t[i].name, t[i].version>> \notin st.excludes}
           kept == Some(t, T)
           whole == [Nothing EXCEPT !.deps = kept]
<1>1. GoMod(f) = Parsed("go.mod", f, whole)
  <2>1. Only(t, LAMBDA d : <<d.name, d.version>> \notin st.excludes) = kept
    <3> HIDE DEF t
    <3> QED BY DEF Only, Some
  <2> QED BY <2>1 DEF GoMod
<1>2. whole.deps = kept
  <2> HIDE DEF kept
  <2> QED BY DEF Nothing
<1>3. CASE ~ f.ok
  <2>1. GoMod(f).deps = <<>>
    <3> HIDE DEF whole
    <3> QED BY <1>1, <1>3 DEF Parsed, Noted
  <2> QED BY <1>3, <2>1, NoEntries
<1>4. CASE f.ok
  <2>1. GoState(f.lines, Len(f.lines), st) /\ IsSeq(f.lines)
    <3>1. IsGoLines(f.lines)
      BY <1>4
    <3> QED BY <3>1, GoModLinesAre DEF IsGoLines
  <2> HIDE DEF st
  <2>2. AreDirect(deps) /\ \A i \in DOMAIN deps : IsEntry(deps[i], Path)
    BY <2>1, SeqFacts DEF GoState, AreDirect, IsEntries
  <2> HIDE DEF deps
  <2>3. t = [i \in DOMAIN deps |-> t[i]] OBVIOUS
  <2>4. \A i \in DOMAIN deps : t[i] = Replaced(deps[i], st.replaces) OBVIOUS
  <2> HIDE DEF t
  <2>5. \A i \in DOMAIN deps : IsEntry(t[i], Path) /\ t[i].name = deps[i].name
                               /\ t[i].transitive = deps[i].transitive
    BY <2>2, <2>4, ReplacedIs
  <2>6. AreDirect(t) /\ {e.name : e \in Range(t)} = {e.name : e \in Range(deps)}
    BY <2>2, <2>3, <2>5, DirectChanged
  <2>7. IsSeq(t) /\ \A e \in Range(t) : IsEntry(e, Path)
    BY <2>6 DEF AreDirect, IsEntries
  <2>8. IsSeq(kept) /\ Range(kept) = {t[i] : i \in T \cap DOMAIN t}
    <3> HIDE DEF T
    <3> QED BY <2>7, SomeIs
  <2>9. IsEntries(kept, Path)
    <3>2. \A i \in DOMAIN t : t[i] \in Range(t)
      BY SeqFacts
    <3>1. \A e \in Range(kept) : e \in Range(t)
      <4> HIDE DEF T, kept
      <4> QED BY <2>8, <3>2
    <3> HIDE DEF kept
    <3> QED BY <2>7, <2>8, <3>1 DEF IsEntries
  <2>10. \A e \in Range(t) : e \in Range(kept) \/ <<e.name, e.version>> \in st.excludes
    <3> SUFFICES ASSUME NEW e \in Range(t), <<e.name, e.version>> \notin st.excludes
                 PROVE  e \in Range(kept)
      OBVIOUS
    <3>1. PICK i \in DOMAIN t : t[i] = e
      BY SeqFacts
    <3>2. i \in T
      BY <3>1
    <3> HIDE DEF T, kept
    <3> QED BY <2>8, <3>1, <3>2
  <2>11. GoMod(f).deps = kept
    <3> HIDE DEF whole
    <3> QED BY <1>1, <1>2, <1>4 DEF Parsed
  <2> HIDE DEF kept
  <2>12. ASSUME NEW l \in Stated(f.lines, "require")
         PROVE  \/ f.lines[l].item.path \in Names(kept)
                \/ \E x \in Stated(f.lines, "exclude") : f.lines[l].item.path = f.lines[x].item.path
    <3>1. l <= Len(f.lines)
      BY <2>1, SeqFacts DEF Stated
    <3>2. \E e \in Range(deps) : e.name = f.lines[l].item.path
      BY <2>1, <3>1 DEF GoState, deps
    <3>3. PICK e \in Range(t) : e.name = f.lines[l].item.path
      BY <2>6, <3>2
    <3>4. CASE e \in Range(kept)
      BY <3>3, <3>4 DEF Names
    <3>5. CASE <<e.name, e.version>> \in st.excludes
      <4> DEFINE x == <<e.name, e.version>>
      <4>1. x[1] = e.name OBVIOUS
      <4> HIDE DEF x
      <4>2. x \in st.excludes
        BY <3>5 DEF x
      <4> QED BY <2>1, <3>3, <4>1, <4>2 DEF GoState
    <3> QED BY <2>10, <3>4, <3>5
  <2> QED BY <2>9, <2>11, <2>12
<1> QED BY <1>3, <1>4

\* go.sum and the vendored modules change entries at their places.
LEMMA EntriesChanged ==
  ASSUME NEW s, IsEntries(s, Path), NEW t, t = [i \in DOMAIN s |-> t[i]],
         \A i \in DOMAIN s : IsEntry(t[i], Path) /\ t[i].name = s[i].name
  PROVE  IsEntries(t, Path) /\ Names(t) = Names(s)
<1>1. DOMAIN s = 1..Len(s) /\ Len(s) \in Nat
  BY SeqFacts DEF IsEntries
<1>2. IsSeq(t) /\ DOMAIN t = DOMAIN s
  BY <1>1, SeqFacts
<1>3. \A e \in Range(t) : \E i \in DOMAIN s : t[i] = e
  BY <1>2, SeqFacts
<1>4. \A e \in Range(s) : \E i \in DOMAIN s : s[i] = e
  BY SeqFacts
<1>5. \A i \in DOMAIN s : t[i] \in Range(t) /\ s[i] \in Range(s)
  BY <1>2, SeqFacts
<1>6. IsEntries(t, Path)
  BY <1>2, <1>3 DEF IsEntries
<1> QED BY <1>3, <1>4, <1>5, <1>6 DEF Names

LEMMA VersionChanged ==
  ASSUME NEW d, IsEntry(d, Path), NEW v
  PROVE  IsEntry([d EXCEPT !.version = v], Path) /\ [d EXCEPT !.version = v].name = d.name
<1>1. [d EXCEPT !.version = v] =
        [name |-> d.name, version |-> v, source |-> d.source, transitive |-> d.transitive]
  BY DEF IsEntry
<1> DEFINE e == [d EXCEPT !.version = v]
<1>2. e = [name |-> d.name, version |-> v, source |-> d.source, transitive |-> d.transitive]
  BY <1>1
<1> HIDE DEF e
<1>3. IsEntry(e, Path) /\ e.name = d.name
  BY <1>2 DEF IsEntry
<1> QED BY <1>3 DEF e

LEMMA SectionChanged ==
  ASSUME NEW d, IsEntry(d, Path), NEW s
  PROVE  IsEntry([d EXCEPT !.source.section = s], Path)
         /\ [d EXCEPT !.source.section = s].name = d.name
<1> DEFINE e == [d EXCEPT !.source.section = s]
           l == [d.source EXCEPT !.section = s]
<1>1. e = [d EXCEPT !.source = l] OBVIOUS
<1> HIDE DEF l
<1>2. e = [name |-> d.name, version |-> d.version, source |-> l, transitive |-> d.transitive]
  BY <1>1 DEF IsEntry
<1> HIDE DEF e
<1>3. IsEntry(e, Path) /\ e.name = d.name
  BY <1>2 DEF IsEntry
<1> QED BY <1>3 DEF e

LEMMA GoSumIs ==
  ASSUME NEW deps, IsEntries(deps, Path), NEW f
  PROVE  IsEntries(GoSum(f, deps), Path) /\ Names(GoSum(f, deps)) = Names(deps)
<1> DEFINE r == FoldLeft(LAMBDA m, l : l.path :> l.version @@ m, <<>>, f.lines)
           t == [i \in DOMAIN deps |->
                  IF deps[i].name \in DOMAIN r
                  THEN [deps[i] EXCEPT !.version = r[deps[i].name]] ELSE deps[i]]
<1>1. GoSum(f, deps) = IF ~ f.ok THEN deps ELSE t
  BY DEF GoSum
<1> HIDE DEF r
<1>2. t = [i \in DOMAIN deps |-> t[i]] OBVIOUS
<1>3. \A i \in DOMAIN deps : IsEntry(deps[i], Path)
  BY SeqFacts DEF IsEntries
<1>4. \A i \in DOMAIN deps : IsEntry(t[i], Path) /\ t[i].name = deps[i].name
  <2> SUFFICES ASSUME NEW i \in DOMAIN deps PROVE IsEntry(t[i], Path) /\ t[i].name = deps[i].name
    OBVIOUS
  <2> DEFINE v == r[deps[i].name]
  <2>1. t[i] = IF deps[i].name \in DOMAIN r THEN [deps[i] EXCEPT !.version = v] ELSE deps[i]
    OBVIOUS
  <2> HIDE DEF v, t
  <2>2. IsEntry([deps[i] EXCEPT !.version = v], Path) /\ [deps[i] EXCEPT !.version = v].name = deps[i].name
    BY <1>3, VersionChanged
  <2> QED BY <1>3, <2>1, <2>2
<1> HIDE DEF t
<1>5. IsEntries(t, Path) /\ Names(t) = Names(deps)
  BY <1>2, <1>4, EntriesChanged
<1> QED BY <1>1, <1>5

LEMMA VendoredIs ==
  ASSUME NEW deps, IsEntries(deps, Path), NEW f
  PROVE  IsEntries(Vendored(f, deps), Path) /\ Names(Vendored(f, deps)) = Names(deps)
<1> DEFINE t == [i \in DOMAIN deps |-> IF deps[i].name \in f.modules
                                       THEN [deps[i] EXCEPT !.source.section = "require (vendored)"]
                                       ELSE deps[i]]
<1>1. Vendored(f, deps) = IF ~ f.ok THEN deps ELSE t
  BY DEF Vendored
<1>2. t = [i \in DOMAIN deps |-> t[i]] OBVIOUS
<1>3. \A i \in DOMAIN deps : IsEntry(deps[i], Path)
  BY SeqFacts DEF IsEntries
<1>4. \A i \in DOMAIN deps : IsEntry(t[i], Path) /\ t[i].name = deps[i].name
  <2> SUFFICES ASSUME NEW i \in DOMAIN deps PROVE IsEntry(t[i], Path) /\ t[i].name = deps[i].name
    OBVIOUS
  <2> DEFINE e == [deps[i] EXCEPT !.source.section = "require (vendored)"]
  <2>1. t[i] = IF deps[i].name \in f.modules THEN e ELSE deps[i] OBVIOUS
  <2>2. IsEntry(e, Path) /\ e.name = deps[i].name
    BY <1>3, SectionChanged
  <2> HIDE DEF e, t
  <2> QED BY <1>3, <2>1, <2>2
<1> HIDE DEF t
<1>5. IsEntries(t, Path) /\ Names(t) = Names(deps)
  BY <1>2, <1>4, EntriesChanged
<1> QED BY <1>1, <1>5

-----------------------------------------------------------------------------
(* The parsers of NuGet. *)

\* Some of the elements of a list of projects.
LEMMA SomeProjects ==
  ASSUME NEW seq, IsProjectList(seq), NEW T
  PROVE  IsProjectList(Some(seq, T))
<1>1. IsSeq(seq) /\ \A p \in Range(seq) : IsProjectFile(p)
  BY DEF IsProjectList, IsList, IsSeq, IsProjectFile
<1>2. IsSeq(Some(seq, T)) /\ Range(Some(seq, T)) = {seq[i] : i \in T \cap DOMAIN seq}
  BY <1>1, SomeIs
<1>3. \A i \in DOMAIN seq : seq[i] \in Range(seq)
  BY SeqFacts
<1>4. \A p \in Range(Some(seq, T)) : p \in Range(seq)
  BY <1>2, <1>3
<1>5. \A p, q \in Range(Some(seq, T)) : p.path = q.path => p = q
  BY <1>4 DEF IsProjectList
<1>6. \A p \in Range(Some(seq, T)) : p.ok => AreNamed(p.references)
  BY <1>1, <1>4 DEF IsProjectFile
<1>7. Some(seq, T) \in Seq(Range(Some(seq, T)))
  BY <1>2 DEF IsSeq
<1> HIDE DEF Some
<1> QED BY <1>5, <1>6, <1>7 DEF IsProjectList, IsList

LEMMA ProjectsOfIs ==
  ASSUME NEW f, IsProjectList(f.found), IsProjectList(f.listed)
  PROVE  IsProjectList(ProjectsOf(f))
<1>1. CASE f.solution = "none"
  <2> DEFINE T == {i \in DOMAIN f.found : ~ f.found[i].built}
  <2>1. ProjectsOf(f) = Some(f.found, T)
    BY <1>1 DEF ProjectsOf, Only, Some
  <2> HIDE DEF T
  <2> QED BY <2>1, SomeProjects
<1>2. CASE f.solution = "read"
  <2> DEFINE T == {i \in DOMAIN f.listed : f.listed[i].exists /\ ~ f.listed[i].outside}
  <2>1. ProjectsOf(f) = Some(f.listed, T)
    BY <1>2 DEF ProjectsOf, Only, Some
  <2> HIDE DEF T
  <2> QED BY <2>1, SomeProjects
<1>3. CASE f.solution \notin {"none", "read"}
  <2>1. ProjectsOf(f) = <<>>
    BY <1>3 DEF ProjectsOf
  <2>2. Range(<<>>) = {} /\ IsSeq(<<>>)
    BY NoEntries DEF IsEntries
  <2> QED BY <2>1, <2>2 DEF IsProjectList, IsList, IsSeq
<1> QED BY <1>1, <1>2, <1>3

\* A project gives every package that it references.
LEMMA ProjectFileIs ==
  ASSUME NEW p, IsProjectFile(p), NEW central
  PROVE  /\ IsResult(ProjectFile(p, central), Path, {"none"})
         /\ p.ok => \A n \in Pinned(p.references) : n \in Names(ProjectFile(p, central).deps)
<1> DEFINE refs == p.references
           from == Label(p.path, "PackageReference", None)
           R == [i \in DOMAIN refs |-> One(refs[i].name, ReferenceVersion(refs[i], central), from)]
<1>1. ProjectFile(p, central) = Parsed(p.path, p, All(R))
  BY DEF ProjectFile, Each
<1>2. CASE ~ p.ok
  <2> DEFINE y == <<"unreadable", p.path>>
  <2>1. ProjectFile(p, central) = Noted(y)
    <3> HIDE DEF R
    <3> QED BY <1>1, <1>2 DEF Parsed
  <2>2. y[1] \notin Cycles
    BY DEF Cycles
  <2> HIDE DEF y
  <2>3. IsResult(Noted(y), Path, {"none"})
    BY <2>2, SmallResults
  <2> QED BY <1>2, <2>1, <2>3
<1>3. CASE p.ok
  <2>1. ProjectFile(p, central) = All(R)
    <3> HIDE DEF R
    <3> QED BY <1>1, <1>3 DEF Parsed
  <2>2. IsSeq(refs) /\ \A i \in DOMAIN refs : refs[i].name \in Path
    BY <1>3, SeqFacts DEF IsProjectFile, AreNamed, IsList, IsNamed, IsSeq, Path
  <2>3. R = [i \in DOMAIN refs |-> R[i]] OBVIOUS
  <2>4. \A i \in DOMAIN refs : IsResult(R[i], Path, {"none"}) /\ Gives(R[i], refs[i].name, from)
    <3> SUFFICES ASSUME NEW i \in DOMAIN refs
                 PROVE  IsResult(R[i], Path, {"none"}) /\ Gives(R[i], refs[i].name, from)
      OBVIOUS
    <3> DEFINE n == refs[i].name
               v == ReferenceVersion(refs[i], central)
    <3>1. R[i] = One(n, v, from) /\ n \in Path
      BY <2>2
    <3> HIDE DEF R, n, v, from
    <3>2. IsResult(One(n, v, from), Path, {"none"}) /\ Gives(One(n, v, from), n, from)
      BY <3>1, SmallResults
    <3> QED BY <3>1, <3>2 DEF n
  <2> HIDE DEF R, from
  <2>5. /\ IsResult(All(R), Path, {"none"})
        /\ \A i \in DOMAIN refs : \A n, g : Gives(R[i], n, g) => Gives(All(R), n, g)
    <3> HIDE DEF refs
    <3> QED BY <2>2, <2>3, <2>4, AllIs
  <2>6. \A i \in DOMAIN refs : Gives(All(R), refs[i].name, from)
    BY <2>4, <2>5
  <2>7. \A n \in Pinned(refs) : Gives(All(R), n, from)
    BY <2>6, SeqFacts DEF Pinned
  <2> QED BY <1>3, <2>1, <2>5, <2>7 DEF Gives, Names
<1> QED BY <1>2, <1>3

\* A project is read where it is listed first.
LEMMA ProjectFilesAre ==
  ASSUME NEW f, IsProjectList(f.found), IsProjectList(f.listed), NEW central
  PROVE  /\ OneEach(ProjectFiles(f, central).deps)
         /\ \A p \in Range(ProjectsOf(f)) : p.ok =>
              Pinned(p.references) \subseteq Names(ProjectFiles(f, central).deps)
<1> DEFINE P == ProjectsOf(f)
           R == [i \in DOMAIN P |-> ProjectGives(P, i, central)]
           all == All(R)
<1>1. IsProjectList(P)
  BY ProjectsOfIs
<1>2. ProjectFiles(f, central).deps = FoldLeft(AddNew, <<>>, all.deps)
  BY DEF ProjectFiles, ProjectGives
<1> HIDE DEF P
<1>3. IsSeq(P) /\ DOMAIN P = 1..Len(P) /\ \A i \in DOMAIN P : P[i] \in Range(P) /\ IsProjectFile(P[i])
  BY <1>1, SeqFacts DEF IsProjectList, IsList, IsSeq, IsProjectFile
<1>4. R = [i \in DOMAIN P |-> R[i]] OBVIOUS
<1>5. \A i \in DOMAIN P : R[i] = ProjectGives(P, i, central) OBVIOUS
<1>6. \A i \in DOMAIN P : IsResult(R[i], Path, {"none"})
  BY <1>3, <1>5, ProjectFileIs, SmallResults DEF ProjectGives
<1> HIDE DEF R
<1>7. /\ IsResult(all, Path, {"none"})
      /\ \A i \in DOMAIN P : \A n, g : Gives(R[i], n, g) => Gives(all, n, g)
  BY <1>3, <1>4, <1>6, AllIs
<1>8. \A i \in DOMAIN P : \A e \in Range(R[i].deps) : e \in Range(all.deps)
  <2>1. /\ DOMAIN R = DOMAIN P
        /\ all.deps = FlattenSeq([i \in DOMAIN R |-> R[i].deps])
    BY <1>4 DEF All
  <2> DEFINE F == [i \in DOMAIN R |-> R[i].deps]
  <2>2. \A i \in 1..Len(P) : F[i] = R[i].deps /\ IsSeq(F[i])
    BY <1>3, <1>6, <2>1 DEF IsResult, IsEntries
  <2>3. Len(P) \in Nat /\ DOMAIN F = 1..Len(P) /\ F = [i \in 1..Len(P) |-> F[i]]
    BY <1>3, <2>1, SeqFacts
  <2> HIDE DEF F
  <2>4. Range(FlattenSeq(F)) = UNION {Range(F[i]) : i \in 1..Len(P)}
    BY <2>2, <2>3, RangeOfFlatten
  <2> QED BY <1>3, <2>1, <2>2, <2>4 DEF F
<1> HIDE DEF all
<1>9. IsEntries(all.deps, Path)
  BY <1>7 DEF IsResult
<1>10. OneEach(<<>>) /\ Names(<<>>) = {}
  BY NoEntries DEF OneEach, Names
<1>11. OneEach(FoldLeft(AddNew, <<>>, all.deps))
       /\ Names(FoldLeft(AddNew, <<>>, all.deps)) = Names(all.deps)
  BY <1>9, <1>10, AddAllIs
<1>12. ASSUME NEW p \in Range(P), p.ok
       PROVE  Pinned(p.references) \subseteq Names(all.deps)
  <2> DEFINE S == {i \in DOMAIN P : P[i] = p}
  <2>1. S \in SUBSET Nat /\ S # {}
    BY <1>3, SeqFacts
  <2>2. PICK i \in S : \A j \in S : i <= j
    <3> HIDE DEF S
    <3> QED BY <2>1, LeastNumber
  <2>3. ~ Visited(P, i)
    <3> SUFFICES ASSUME NEW j \in 1..(i - 1), P[j].path = P[i].path PROVE FALSE
      BY DEF Visited
    <3>1. j \in 1..Len(P) /\ ~ (i <= j)
      BY <1>3, <2>2
    <3>2. P[j] = p
      BY <1>1, <1>3, <2>2, <3>1 DEF IsProjectList
    <3> QED BY <1>3, <2>2, <3>1, <3>2
  <2>4. i \in DOMAIN P /\ R[i] = ProjectFile(p, central) /\ IsProjectFile(p)
    BY <1>3, <1>5, <2>2, <2>3 DEF ProjectGives
  <2>5. Pinned(p.references) \subseteq Names(R[i].deps)
    BY <1>12, <2>4, ProjectFileIs
  <2> QED BY <1>8, <2>4, <2>5 DEF Names
<1> QED BY <1>2, <1>11, <1>12 DEF P

LEMMA PackagesConfigIs ==
  ASSUME NEW f, f.ok => AreNamed(f.packages), NEW deps, OneEach(deps)
  PROVE  OneEach(PackagesConfig(f, deps)) /\ Names(deps) \subseteq Names(PackagesConfig(f, deps))
<1>1. CASE ~ f.ok
  BY <1>1 DEF PackagesConfig
<1>2. CASE f.ok
  <2> DEFINE from == Of("packages.config")
             seq == Entries(f.packages, from)
  <2>1. PackagesConfig(f, deps) = FoldLeft(AddNew, deps, seq)
    BY <1>2 DEF PackagesConfig
  <2>2. IsEntries(seq, Path)
    <3> HIDE DEF from
    <3> QED BY <1>2, EntriesAre
  <2> HIDE DEF seq
  <2> QED BY <2>1, <2>2, AddAllIs
<1> QED BY <1>1, <1>2

LEMMA ResolveIs ==
  ASSUME NEW s, OneEach(s), NEW p, IsNamed(p)
  PROVE  OneEach(Resolve(s, p)) /\ Names(Resolve(s, p)) = Names(s) \cup {p.name}
<1>1. CASE PositionOf(s, p.name) = {}
  <2> DEFINE e == Entry(p.name, p.version, Of("packages.lock.json"))
  <2>1. Resolve(s, p) = Append(s, e)
    BY <1>1 DEF Resolve
  <2>2. IsEntry(e, Path) /\ e.name = p.name
    BY DEF Entry, IsEntry, IsNamed, Path
  <2>3. e.name \notin Names(s)
    BY <1>1, <2>2, PositionIs
  <2> HIDE DEF e
  <2> QED BY <2>1, <2>2, <2>3, OneMore
<1>2. CASE PositionOf(s, p.name) # {}
  <2> DEFINE t == [i \in DOMAIN s |-> IF s[i].name = p.name
                                      THEN [s[i] EXCEPT !.version = p.version] ELSE s[i]]
  <2>1. Resolve(s, p) = t
    BY <1>2 DEF Resolve
  <2>2. p.name \in Names(s)
    BY <1>2, PositionIs
  <2>3. t = [i \in DOMAIN s |-> t[i]] OBVIOUS
  <2>4. \A i \in DOMAIN s : IsEntry(t[i], Path) /\ t[i].name = s[i].name
    <3> SUFFICES ASSUME NEW i \in DOMAIN s PROVE IsEntry(t[i], Path) /\ t[i].name = s[i].name
      OBVIOUS
    <3> DEFINE d == s[i]
               v == p.version
    <3>1. IsEntry(d, Path)
      BY SeqFacts DEF OneEach, IsEntries
    <3>2. t[i] = IF d.name = p.name THEN [d EXCEPT !.version = v] ELSE d OBVIOUS
    <3> HIDE DEF d, v, t
    <3>3. IsEntry([d EXCEPT !.version = v], Path) /\ [d EXCEPT !.version = v].name = d.name
      BY <3>1, VersionChanged
    <3> QED BY <3>1, <3>2, <3>3 DEF d
  <2> HIDE DEF t
  <2>5. OneEach(t) /\ Names(t) = Names(s)
    BY <2>3, <2>4, SameNames
  <2> QED BY <2>1, <2>2, <2>5
<1> QED BY <1>1, <1>2

LEMMA PackagesLockIs ==
  ASSUME NEW f, f.ok => AreNamed(f.packages), NEW deps, OneEach(deps)
  PROVE  OneEach(PackagesLock(f, deps)) /\ Names(deps) \subseteq Names(PackagesLock(f, deps))
<1>1. CASE ~ f.ok
  BY <1>1 DEF PackagesLock
<1>2. CASE f.ok
  <2> DEFINE seq == f.packages
  <2>1. PackagesLock(f, deps) = FoldLeft(Resolve, deps, seq)
    BY <1>2 DEF PackagesLock
  <2>2. IsSeq(seq) /\ Len(seq) \in Nat /\ DOMAIN seq = 1..Len(seq) /\ seq \in Seq(Range(seq))
        /\ \A i \in 1..Len(seq) : IsNamed(seq[i])
    BY <1>2, SeqFacts DEF AreNamed, IsList, IsSeq
  <2> HIDE DEF seq
  <2>3. PICK m : /\ m[0] = deps /\ \A i \in 1..Len(seq) : m[i] = Resolve(m[i - 1], seq[i])
                 /\ FoldLeft(Resolve, deps, seq) = m[Len(seq)]
    BY <2>2, FoldLock
  <2> DEFINE S == {i \in 0..Len(seq) : Collected(deps, seq, i, m[i])}
  <2>4. 0 \in S
    <3>1. {seq[j].name : j \in 1..0} = {} OBVIOUS
    <3> QED BY <2>2, <2>3, <3>1 DEF Collected
  <2>5. ASSUME NEW i \in 1..Len(seq), i - 1 \in S PROVE i \in S
    <3>1. i \in Nat /\ i # 0 /\ i \in 0..Len(seq)
      BY <2>2
    <3>2. Collected(deps, seq, i - 1, m[i - 1]) /\ OneEach(m[i - 1])
      BY <2>5 DEF Collected
    <3>3. OneEach(Resolve(m[i - 1], seq[i]))
          /\ Names(Resolve(m[i - 1], seq[i])) = Names(m[i - 1]) \cup {seq[i].name}
      BY <2>2, <3>2, ResolveIs
    <3>4. Collected(deps, seq, i, m[i])
      BY <2>3, <3>1, <3>2, <3>3, CollectedNext
    <3> QED BY <3>1, <3>4
  <2>6. \A i \in 0..Len(seq) : i \in S
    <3> HIDE DEF S
    <3> QED BY <2>2, <2>4, <2>5, UpTo
  <2>7. Collected(deps, seq, Len(seq), m[Len(seq)])
    BY <2>2, <2>6
  <2>8. OneEach(m[Len(seq)]) /\ Names(m[Len(seq)]) = Names(deps) \cup Names(seq)
    BY <2>2, <2>7, CollectedAll
  <2> QED BY <2>1, <2>3, <2>8
<1> QED BY <1>1, <1>2

-----------------------------------------------------------------------------
(* Merging the entries of a name. *)

LEMMA StrengthIsNat ==
  ASSUME NEW eco, NEW from
  PROVE  Strength(eco, from) \in Nat
<1>1. \A file : PythonFileRank(file) \in Nat
  BY DEF PythonFileRank
<1>2. NpmRank(from) \in Nat
  BY DEF NpmRank, NpmFileRank
<1> QED BY <1>1, <1>2 DEF Strength, PythonRank

LEMMA MineSame ==
  ASSUME NEW eco, NEW seq, NEW i \in Nat, i # 0, NEW n, Called(eco, seq[i]) # n
  PROVE  Mine(eco, seq, i, n) = Mine(eco, seq, i - 1, n)
<1>1. 1..i = (1..(i - 1)) \cup {i} /\ i \notin 1..(i - 1) OBVIOUS
<1> QED BY <1>1 DEF Mine

LEMMA MineMore ==
  ASSUME NEW eco, NEW seq, NEW i \in Nat, i # 0, NEW n, Called(eco, seq[i]) = n
  PROVE  MineGrows(eco, seq, i, n)
<1>1. 1..i = (1..(i - 1)) \cup {i} /\ i \notin 1..(i - 1) OBVIOUS
<1> QED BY <1>1 DEF Mine, MineGrows

\* An entry of another name changes nothing.
LEMMA OwnsOther ==
  ASSUME NEW eco, NEW seq, NEW i \in Nat, i # 0, NEW d, IsOwned(eco, seq, i - 1, d),
         Called(eco, seq[i]) # d.name
  PROVE  IsOwned(eco, seq, i, d)
<1> DEFINE n == d.name
<1>0. Called(eco, seq[i]) # n OBVIOUS
<1>1. Mine(eco, seq, i, n) = Mine(eco, seq, i - 1, n)
  <2> HIDE DEF n
  <2> QED BY <1>0, MineSame
<1>2. Best(eco, seq, i, d.name) = Best(eco, seq, i - 1, d.name)
  BY <1>1 DEF Best
<1> QED BY <1>1, <1>2 DEF IsOwned

\* The first entry of a name.
LEMMA OwnsFirst ==
  ASSUME NEW eco, NEW seq, NEW i \in Nat, i # 0, NEW d,
         Called(eco, seq[i]) = d.name, Mine(eco, seq, i - 1, d.name) = {},
         d.source = seq[i].source, d.version = seq[i].version, d.transitive = seq[i].transitive
  PROVE  IsOwned(eco, seq, i, d)
<1> DEFINE n == d.name
<1>0. Called(eco, seq[i]) = n /\ Mine(eco, seq, i - 1, n) = {} OBVIOUS
<1>1. Mine(eco, seq, i, n) = {i}
  <2> HIDE DEF n
  <2>1. MineGrows(eco, seq, i, n)
    BY <1>0, MineMore
  <2> QED BY <1>0, <2>1 DEF MineGrows
<1>2. Strength(eco, seq[i].source) <= Strength(eco, seq[i].source)
  BY StrengthIsNat
<1>3. Best(eco, seq, i, d.name) = {i}
  BY <1>1, <1>2 DEF Best
<1> QED BY <1>1, <1>3 DEF IsOwned

LEMMA OwnsNext ==
  ASSUME NEW eco, NEW seq, NEW i \in Nat, i # 0, NEW cur, IsOwned(eco, seq, i - 1, cur),
         NEW e, e = seq[i], Called(eco, e) = cur.name, NEW d, IsKept(eco, cur, e, d)
  PROVE  IsOwned(eco, seq, i, d)
<1> DEFINE n == cur.name
           M == Mine(eco, seq, i - 1, n)
           B == Best(eco, seq, i - 1, n)
           S(j) == Strength(eco, seq[j].source)
<1>1. Mine(eco, seq, i, n) = M \cup {i} /\ i \notin M
  <2>1. Called(eco, seq[i]) = n OBVIOUS
  <2>2. M = Mine(eco, seq, i - 1, n) OBVIOUS
  <2> HIDE DEF n, M, B, S
  <2>3. MineGrows(eco, seq, i, n)
    BY <2>1, MineMore
  <2> QED BY <2>2, <2>3 DEF MineGrows
<1>2. PICK b \in B : seq[b].source = cur.source
  BY DEF IsOwned
<1>3. b \in M /\ \A l \in M : S(l) <= S(b)
  BY <1>2 DEF Best
<1>4. \A j : S(j) \in Nat
  BY StrengthIsNat
<1>5. d.name = n /\ S(b) = Strength(eco, cur.source) /\ S(i) = Strength(eco, e.source)
  BY <1>2 DEF IsKept
<1>6. \A j \in B : S(j) = S(b) /\ j \in M
  <2>1. \A j \in B : j \in M /\ S(b) <= S(j) /\ S(j) <= S(b)
    BY <1>3 DEF Best
  <2> QED BY <1>4, <2>1
<1>7. \A j \in M : S(j) = S(b) => j \in B
  BY <1>3 DEF Best
<1> DEFINE C == Best(eco, seq, i, n)
<1>8. C = {j \in M \cup {i} : \A l \in M \cup {i} : S(l) <= S(j)}
  BY <1>1 DEF Best
<1>9. eco = "pypi" => \A j \in M \cup {i} : ~ seq[j].transitive => ~ d.transitive
  BY DEF IsOwned, IsKept
<1>10. \A j \in B : seq[j].version # None /\ (\A l \in B : seq[l].version = seq[j].version)
                      => cur.version = seq[j].version
  BY DEF IsOwned
<1>11. /\ S(i) > S(b) => d.source = e.source /\ (e.version # None => d.version = e.version)
       /\ ~ S(i) > S(b) => /\ d.source = cur.source
                           /\ cur.version # None => d.version = cur.version
                           /\ S(i) = S(b) => d.version = cur.version
  BY <1>5 DEF IsKept
<1> HIDE DEF B, M, S, C, n
<1>12. CASE S(i) > S(b)
  <2>1. C = {i}
    <3>1. S(b) <= S(i) /\ ~ S(i) <= S(b) /\ S(i) <= S(i)
      BY <1>4, <1>12
    <3>2. \A l \in M : S(l) <= S(i)
      BY <1>3, <1>4, <3>1
    <3>3. \A j \in M : ~ S(i) <= S(j)
      BY <1>3, <1>4, <1>12
    <3> QED BY <1>8, <3>1, <3>2, <3>3
  <2>2. d.source = e.source /\ (e.version # None => d.version = e.version)
    BY <1>11, <1>12
  <2>3. /\ \E j \in C : seq[j].source = d.source
        /\ \A j \in C : seq[j].version # None => d.version = seq[j].version
    BY <2>1, <2>2
  <2> QED BY <1>1, <1>5, <1>9, <2>3 DEF IsOwned, C, M, n
<1>13. CASE S(i) = S(b)
  <2>1. C = B \cup {i}
    <3>1. \A l \in M \cup {i} : S(l) <= S(i) /\ S(l) <= S(b)
      BY <1>3, <1>4, <1>13
    <3>2. \A j \in M : S(b) <= S(j) => S(j) = S(b)
      BY <1>3, <1>4
    <3>3. \A j \in C : j \in B \cup {i}
      BY <1>3, <1>7, <1>8, <3>2
    <3>4. \A j \in B \cup {i} : j \in C
      BY <1>6, <1>8, <3>1
    <3> QED BY <3>3, <3>4
  <2>2. d.source = cur.source /\ d.version = cur.version
    BY <1>4, <1>11, <1>13
  <2>3. \E j \in C : seq[j].source = d.source
    BY <1>2, <2>1, <2>2
  <2>4. \A j \in C : seq[j].version # None /\ (\A l \in C : seq[l].version = seq[j].version)
                       => d.version = seq[j].version
    <3> SUFFICES ASSUME NEW j \in C, seq[j].version # None,
                        \A l \in C : seq[l].version = seq[j].version
                 PROVE  d.version = seq[j].version
      OBVIOUS
    <3>1. seq[b].version = seq[j].version /\ \A l \in B : seq[l].version = seq[b].version
      BY <1>2, <2>1
    <3>2. cur.version = seq[b].version
      BY <1>2, <1>10, <3>1
    <3> QED BY <2>2, <3>1, <3>2
  <2> QED BY <1>1, <1>5, <1>9, <2>3, <2>4 DEF IsOwned, C, M, n
<1>14. CASE ~ S(i) > S(b) /\ S(i) # S(b)
  <2>1. C = B
    <3>1. ~ S(b) <= S(i) /\ S(i) <= S(b)
      BY <1>4, <1>14
    <3>2. \A j \in M : S(b) <= S(j) => S(j) = S(b)
      BY <1>3, <1>4
    <3>3. \A j \in C : j \in B
      BY <1>3, <1>7, <1>8, <3>1, <3>2
    <3>4. \A j \in B : j \in C
      BY <1>3, <1>6, <1>8, <3>1
    <3> QED BY <3>3, <3>4
  <2>2. d.source = cur.source /\ (cur.version # None => d.version = cur.version)
    BY <1>11, <1>14
  <2>3. \E j \in C : seq[j].source = d.source
    BY <1>2, <2>1, <2>2
  <2>4. \A j \in C : seq[j].version # None /\ (\A l \in C : seq[l].version = seq[j].version)
                       => d.version = seq[j].version
    BY <1>10, <2>1, <2>2
  <2> QED BY <1>1, <1>5, <1>9, <2>3, <2>4 DEF IsOwned, C, M, n
<1> QED BY <1>12, <1>13, <1>14

LEMMA CalledIs ==
  ASSUME NEW eco, NEW e, IsEntry(e, NamesOf(eco))
  PROVE  Called(eco, e) \in Path
  BY NormalAssumption DEF IsEntry, NamesOf, Called, Path

\* Nothing of the name so far.
LEMMA MineIsNone ==
  ASSUME NEW eco, NEW seq, NEW i, NEW s, Merged(eco, seq, i, s), NEW n,
         n \notin Left(eco), n \notin Names(s)
  PROVE  Mine(eco, seq, i, n) = {}
  BY DEF Merged, Mine

LEMMA NamesNext ==
  ASSUME NEW eco, NEW seq, NEW i \in Nat, i # 0, NEW s, Merged(eco, seq, i - 1, s),
         NEW names, Called(eco, seq[i]) \in Left(eco) => names = Names(s),
         Called(eco, seq[i]) \notin Left(eco) => names = Names(s) \cup {Called(eco, seq[i])}
  PROVE  names = {Called(eco, seq[j]) : j \in 1..i} \ Left(eco)
<1>1. 1..i = (1..(i - 1)) \cup {i} OBVIOUS
<1>2. Names(s) = {Called(eco, seq[j]) : j \in 1..(i - 1)} \ Left(eco)
  BY DEF Merged
<1> QED BY <1>1, <1>2

\* A name that is left out.
LEMMA MergedLeft ==
  ASSUME NEW eco, NEW seq, NEW i \in Nat, i # 0, NEW s, Merged(eco, seq, i - 1, s),
         Called(eco, seq[i]) \in Left(eco)
  PROVE  Merged(eco, seq, i, s)
<1>1. \A x \in DOMAIN s : s[x].name # Called(eco, seq[i])
  <2>1. \A x \in DOMAIN s : s[x].name \in Names(s)
    BY SeqFacts DEF Names
  <2> QED BY <2>1 DEF Merged
<1>2. \A x \in DOMAIN s : IsOwned(eco, seq, i, s[x])
  <2> SUFFICES ASSUME NEW x \in DOMAIN s PROVE IsOwned(eco, seq, i, s[x]) OBVIOUS
  <2> DEFINE d == s[x]
  <2>1. IsOwned(eco, seq, i - 1, d) /\ Called(eco, seq[i]) # d.name
    BY <1>1 DEF Merged
  <2> HIDE DEF d
  <2>2. IsOwned(eco, seq, i, d)
    BY <2>1, OwnsOther
  <2> QED BY <2>2 DEF d
<1>3. Names(s) = {Called(eco, seq[j]) : j \in 1..i} \ Left(eco)
  <2> DEFINE names == Names(s)
  <2>1. (Called(eco, seq[i]) \in Left(eco) => names = Names(s))
        /\ (Called(eco, seq[i]) \notin Left(eco) => names = Names(s) \cup {Called(eco, seq[i])})
    OBVIOUS
  <2> HIDE DEF names
  <2>2. names = {Called(eco, seq[j]) : j \in 1..i} \ Left(eco)
    BY <2>1, NamesNext
  <2> QED BY <2>2 DEF names
<1> QED BY <1>2, <1>3 DEF Merged

\* A name that is new.
LEMMA MergedNew ==
  ASSUME NEW eco, NEW seq, NEW i \in Nat, i # 0, NEW s, Merged(eco, seq, i - 1, s),
         NEW d, IsEntry(d, Path), d.name = Called(eco, seq[i]), d.name \notin Left(eco),
         d.name \notin Names(s), d.source = seq[i].source, d.version = seq[i].version,
         d.transitive = seq[i].transitive
  PROVE  Merged(eco, seq, i, Append(s, d))
<1> DEFINE t == Append(s, d)
           n == Called(eco, seq[i])
<1>1. OneEach(s)
  BY DEF Merged
<1>2. OneEach(t) /\ Names(t) = Names(s) \cup {d.name}
  BY <1>1, OneMore
<1>3. /\ Len(s) \in Nat /\ DOMAIN s = 1..Len(s) /\ DOMAIN t = 1..(Len(s) + 1)
      /\ t[Len(s) + 1] = d
      /\ \A x \in 1..Len(s) : t[x] = s[x]
  BY <1>1, AppendIs DEF OneEach, IsEntries
<1>4. \A x \in DOMAIN t : t[x] = d \/ (x \in DOMAIN s /\ t[x] = s[x])
  <2>1. \A x \in 1..(Len(s) + 1) : x \in 1..Len(s) \/ x = Len(s) + 1
    BY <1>3
  <2> SUFFICES ASSUME NEW x \in DOMAIN t PROVE t[x] = d \/ (x \in DOMAIN s /\ t[x] = s[x]) OBVIOUS
  <2> HIDE DEF t
  <2>2. x \in 1..(Len(s) + 1)
    BY <1>3
  <2>3. CASE x \in 1..Len(s)
    BY <1>3, <2>3
  <2>4. CASE x = Len(s) + 1
    <3>1. t[x] = t[Len(s) + 1]
      BY <2>4
    <3>2. t[Len(s) + 1] = d
      BY <1>3
    <3> QED BY <3>1, <3>2
  <2> QED BY <2>1, <2>2, <2>3, <2>4
<1>5. Mine(eco, seq, i - 1, n) = {}
  BY MineIsNone
<1>6. IsOwned(eco, seq, i, d)
  BY <1>5, OwnsFirst
<1>7. ASSUME NEW x \in DOMAIN s PROVE IsOwned(eco, seq, i, s[x])
  <2> DEFINE c == s[x]
  <2>1. IsOwned(eco, seq, i - 1, c) /\ Called(eco, seq[i]) # c.name
    BY SeqFacts DEF Merged, Names
  <2> HIDE DEF c
  <2>2. IsOwned(eco, seq, i, c)
    BY <2>1, OwnsOther
  <2> QED BY <2>2 DEF c
<1> HIDE DEF t
<1>8. \A x \in DOMAIN t : IsOwned(eco, seq, i, t[x])
  BY <1>4, <1>6, <1>7
<1>9. Names(t) = {Called(eco, seq[j]) : j \in 1..i} \ Left(eco)
  <2> DEFINE names == Names(t)
  <2>1. (Called(eco, seq[i]) \in Left(eco) => names = Names(s))
        /\ (Called(eco, seq[i]) \notin Left(eco) => names = Names(s) \cup {Called(eco, seq[i])})
    BY <1>2
  <2> HIDE DEF names
  <2>2. names = {Called(eco, seq[j]) : j \in 1..i} \ Left(eco)
    BY <2>1, NamesNext
  <2> QED BY <2>2 DEF names
<1> QED BY <1>2, <1>8, <1>9 DEF Merged, t

\* A name that was met.
LEMMA MergedAgain ==
  ASSUME NEW eco, NEW seq, NEW i \in Nat, i # 0, NEW s, Merged(eco, seq, i - 1, s),
         NEW x \in DOMAIN s, s[x].name = Called(eco, seq[i]),
         NEW d, IsEntry(d, Path), IsKept(eco, s[x], seq[i], d)
  PROVE  Merged(eco, seq, i, [s EXCEPT ![x] = d])
<1> DEFINE t == [s EXCEPT ![x] = d]
           cur == s[x]
           e == seq[i]
<1>1. OneEach(s) /\ \A y \in DOMAIN s : IsOwned(eco, seq, i - 1, s[y])
  BY DEF Merged
<1>2. d.name = s[x].name
  BY DEF IsKept
<1>3. t = [y \in DOMAIN s |-> t[y]] OBVIOUS
<1>4. \A y \in DOMAIN s : t[y] = IF y = x THEN d ELSE s[y] OBVIOUS
<1>5. IsOwned(eco, seq, i, d)
  <2>1. IsOwned(eco, seq, i - 1, cur) /\ e = seq[i] /\ Called(eco, e) = cur.name /\ IsKept(eco, cur, e, d)
    BY <1>1
  <2> HIDE DEF cur, e
  <2> QED BY <2>1, OwnsNext
<1>6. ASSUME NEW y \in DOMAIN s, y # x PROVE IsOwned(eco, seq, i, s[y])
  <2> DEFINE c == s[y]
  <2>1. IsOwned(eco, seq, i - 1, c) /\ Called(eco, seq[i]) # c.name
    BY <1>1, <1>6 DEF OneEach
  <2> HIDE DEF c
  <2>2. IsOwned(eco, seq, i, c)
    BY <2>1, OwnsOther
  <2> QED BY <2>2 DEF c
<1>7. \A y \in DOMAIN s : IsEntry(s[y], Path)
  BY <1>1, SeqFacts DEF OneEach, IsEntries
<1> HIDE DEF t
<1>8. \A y \in DOMAIN s : IsEntry(t[y], Path) /\ t[y].name = s[y].name
  BY <1>2, <1>4, <1>7
<1>9. OneEach(t) /\ Names(t) = Names(s)
  BY <1>1, <1>3, <1>8, SameNames
<1>10. \A y \in DOMAIN t : IsOwned(eco, seq, i, t[y])
  BY <1>3, <1>4, <1>5, <1>6
<1>11. Called(eco, seq[i]) \in Names(s)
  BY SeqFacts DEF Names
<1>12. Names(t) = {Called(eco, seq[j]) : j \in 1..i} \ Left(eco)
  <2> DEFINE names == Names(t)
  <2>1. (Called(eco, seq[i]) \in Left(eco) => names = Names(s))
        /\ (Called(eco, seq[i]) \notin Left(eco) => names = Names(s) \cup {Called(eco, seq[i])})
    BY <1>9, <1>11
  <2> HIDE DEF names
  <2>2. names = {Called(eco, seq[j]) : j \in 1..i} \ Left(eco)
    BY <2>1, NamesNext
  <2> QED BY <2>2 DEF names
<1> QED BY <1>9, <1>10, <1>12 DEF Merged, t

\* What Python and npm keep of two entries.
LEMMA KeptIs ==
  ASSUME NEW cur, IsEntry(cur, Path), NEW e, IsEntry(e, DOMAIN Normal),
         NEW d, d = [Kept(cur, e) EXCEPT !.transitive = cur.transitive /\ e.transitive]
  PROVE  IsEntry(d, Path) /\ IsKept("pypi", cur, e, d)
<1> DEFINE flag == cur.transitive /\ e.transitive
<1>1. cur = [name |-> cur.name, version |-> cur.version, source |-> cur.source,
             transitive |-> cur.transitive]
      /\ cur.name \in Path /\ cur.transitive \in BOOLEAN /\ e.transitive \in BOOLEAN
  BY DEF IsEntry
<1>2. flag \in BOOLEAN
  BY <1>1
<1>3. \A a, b, c, f : [[name |-> a, version |-> b, source |-> c, transitive |-> f]
                         EXCEPT !.transitive = flag]
                       = [name |-> a, version |-> b, source |-> c, transitive |-> flag]
  OBVIOUS
<1> DEFINE S(from) == PythonRank(from)
<1>4. S(e.source) \in Nat /\ S(cur.source) \in Nat
  <2>1. \A from : Strength("pypi", from) = PythonRank(from)
    BY DEF Strength
  <2> QED BY <2>1, StrengthIsNat
<1>5. CASE S(e.source) > S(cur.source)
  <2> DEFINE v == IF e.version # None THEN e.version ELSE cur.version
  <2>1. Kept(cur, e) = [cur EXCEPT !.source = e.source, !.version = v]
    <3>1. ~ S(e.source) < S(cur.source)
      BY <1>4, <1>5
    <3> QED BY <1>5, <3>1 DEF Kept
  <2> HIDE DEF v, flag
  <2>2. Kept(cur, e) = [name |-> cur.name, version |-> v, source |-> e.source,
                        transitive |-> cur.transitive]
    BY <1>1, <2>1
  <2>3. d = [name |-> cur.name, version |-> v, source |-> e.source, transitive |-> flag]
    BY <1>3, <2>2 DEF flag
  <2>5. d.name = cur.name /\ d.source = e.source /\ (e.version # None => d.version = e.version)
        /\ d.transitive = flag
    BY <2>3 DEF v
  <2>4. IsEntry(d, Path)
    BY <1>1, <1>2, <2>3, <2>5 DEF IsEntry
  <2> QED BY <1>5, <2>4, <2>5 DEF IsKept, Strength, flag
<1>6. CASE S(e.source) < S(cur.source) /\ cur.version = None
  <2> DEFINE v == e.version
  <2>1. Kept(cur, e) = [cur EXCEPT !.version = v]
    <3>1. ~ S(e.source) > S(cur.source)
      BY <1>4, <1>6
    <3> QED BY <1>6, <3>1 DEF Kept
  <2> HIDE DEF v, flag
  <2>2. Kept(cur, e) = [name |-> cur.name, version |-> v, source |-> cur.source,
                        transitive |-> cur.transitive]
    BY <1>1, <2>1
  <2>3. d = [name |-> cur.name, version |-> v, source |-> cur.source, transitive |-> flag]
    BY <1>3, <2>2 DEF flag
  <2>5. d.name = cur.name /\ d.source = cur.source /\ d.transitive = flag
    BY <2>3
  <2>4. IsEntry(d, Path)
    BY <1>1, <1>2, <2>3, <2>5 DEF IsEntry
  <2>6. ~ S(e.source) > S(cur.source) /\ S(e.source) # S(cur.source)
    BY <1>4, <1>6
  <2> QED BY <1>6, <2>4, <2>5, <2>6 DEF IsKept, Strength, flag
<1>7. CASE ~ S(e.source) > S(cur.source) /\ ~ (S(e.source) < S(cur.source) /\ cur.version = None)
  <2>1. Kept(cur, e) = cur
    BY <1>7 DEF Kept
  <2> HIDE DEF flag
  <2>3. d = [name |-> cur.name, version |-> cur.version, source |-> cur.source, transitive |-> flag]
    BY <1>1, <1>3, <2>1 DEF flag
  <2>5. d.name = cur.name /\ d.source = cur.source /\ d.version = cur.version /\ d.transitive = flag
    BY <2>3
  <2>4. IsEntry(d, Path)
    BY <1>1, <1>2, <2>3, <2>5 DEF IsEntry
  <2> QED BY <1>7, <2>4, <2>5 DEF IsKept, Strength, flag
<1> QED BY <1>5, <1>6, <1>7

LEMMA KeptNpmIs ==
  ASSUME NEW cur, IsEntry(cur, Path), NEW e, IsEntry(e, Path), e.name = cur.name,
         NEW d, d = KeptNpm(cur, e)
  PROVE  IsEntry(d, Path) /\ IsKept("npm", cur, e, d)
<1> DEFINE S(from) == NpmRank(from)
<1>4. S(e.source) \in Nat /\ S(cur.source) \in Nat
  <2>1. \A from : Strength("npm", from) = NpmRank(from)
    BY DEF Strength
  <2> QED BY <2>1, StrengthIsNat
<1>5. CASE S(e.source) > S(cur.source)
  <2>1. d = e
    <3>1. ~ S(e.source) < S(cur.source)
      BY <1>4, <1>5
    <3> QED BY <1>5, <3>1 DEF KeptNpm
  <2> QED BY <1>5, <2>1 DEF IsKept, Strength
<1>6. CASE S(e.source) < S(cur.source) /\ cur.version = None
  <2> DEFINE v == e.version
  <2>6. ~ S(e.source) > S(cur.source) /\ S(e.source) # S(cur.source)
    BY <1>4, <1>6
  <2>1. d = [cur EXCEPT !.version = v]
    BY <1>6, <2>6 DEF KeptNpm
  <2> HIDE DEF v
  <2>2. d = [name |-> cur.name, version |-> v, source |-> cur.source,
             transitive |-> cur.transitive]
    BY <2>1 DEF IsEntry
  <2>4. IsEntry(d, Path)
    BY <2>2 DEF IsEntry
  <2>5. d.name = cur.name /\ d.source = cur.source
    BY <2>2
  <2> QED BY <1>6, <2>4, <2>5, <2>6 DEF IsKept, Strength
<1>7. CASE ~ S(e.source) > S(cur.source) /\ ~ (S(e.source) < S(cur.source) /\ cur.version = None)
  <2>1. d = cur
    BY <1>7 DEF KeptNpm
  <2> QED BY <1>7, <2>1 DEF IsKept, Strength
<1> QED BY <1>5, <1>6, <1>7

LEMMA MergePythonIs ==
  ASSUME NEW seq, NEW i \in Nat, i # 0, IsEntry(seq[i], DOMAIN Normal),
         NEW acc, IsTableOf("pypi", seq, i - 1, acc)
  PROVE  IsTableOf("pypi", seq, i, MergePython(acc, seq[i]))
<1> DEFINE e == seq[i]
           n == Normal[e.name]
           s == acc.deps
           new == MergePython(acc, e)
<1>1. /\ acc = [deps |-> acc.deps, notes |-> acc.notes] /\ Merged("pypi", seq, i - 1, s)
      /\ \A y \in acc.notes : y[1] \notin Cycles
      /\ n = Called("pypi", seq[i]) /\ Left("pypi") = Stdlib
      /\ n \in Path
  BY CalledIs, NormalAssumption DEF IsTableOf, Called, Left, IsEntry, Path
<1>2. CASE n \in Stdlib
  <2> DEFINE y == <<"stdlib", n>>
  <2>1. new = [acc EXCEPT !.notes = @ \cup {y}]
    BY <1>2 DEF MergePython
  <2>2. y[1] \notin Cycles
    BY DEF Cycles
  <2> HIDE DEF y
  <2>3. new = [deps |-> s, notes |-> acc.notes \cup {y}]
    BY <1>1, <2>1
  <2>4. Merged("pypi", seq, i, s)
    BY <1>1, <1>2, MergedLeft
  <2> QED BY <1>1, <2>2, <2>3, <2>4 DEF IsTableOf
<1>3. CASE n \notin Stdlib /\ PositionOf(s, n) = {}
  <2> DEFINE d == [e EXCEPT !.name = n]
  <2>1. new = [acc EXCEPT !.deps = Append(@, d)]
    BY <1>3 DEF MergePython
  <2>2. d = [name |-> n, version |-> e.version, source |-> e.source, transitive |-> e.transitive]
    BY DEF IsEntry
  <2>3. e.transitive \in BOOLEAN
    BY DEF IsEntry
  <2> HIDE DEF d
  <2>4. IsEntry(d, Path) /\ d.name = n
    BY <1>1, <2>2, <2>3 DEF IsEntry
  <2>5. d.source = seq[i].source /\ d.version = seq[i].version /\ d.transitive = seq[i].transitive
    BY <2>2
  <2>6. n \notin Names(s)
    BY <1>3, PositionIs
  <2> HIDE DEF n, s
  <2>7. Merged("pypi", seq, i, Append(s, d))
    BY <1>1, <1>3, <2>4, <2>5, <2>6, MergedNew
  <2>8. new = [deps |-> Append(s, d), notes |-> acc.notes]
    BY <1>1, <2>1 DEF s
  <2> QED BY <1>1, <2>7, <2>8 DEF IsTableOf
<1>4. CASE n \notin Stdlib /\ PositionOf(s, n) # {}
  <2> DEFINE x == CHOOSE j \in PositionOf(s, n) : TRUE
             cur == s[x]
             d == [Kept(cur, e) EXCEPT !.transitive = cur.transitive /\ e.transitive]
             clash == Conflict(cur, e) /\ PythonRank(cur.source) # PythonRank(e.source)
             more == IF clash THEN {<<"conflict", n>>} ELSE {}
  <2>1. x \in DOMAIN s /\ cur.name = n
    BY <1>4 DEF PositionOf
  <2>2. new = [deps |-> [s EXCEPT ![x] = d], notes |-> acc.notes \cup more]
    BY <1>4 DEF MergePython
  <2>3. \A y \in more : y[1] \notin Cycles
    <3> DEFINE y == <<"conflict", n>>
    <3>1. y[1] \notin Cycles
      BY DEF Cycles
    <3>2. more = {y} \/ more = {} OBVIOUS
    <3> HIDE DEF y, more
    <3> QED BY <3>1, <3>2
  <2>4. IsEntry(cur, Path)
    BY <1>1, <2>1, SeqFacts DEF Merged, OneEach, IsEntries
  <2>5. IsEntry(d, Path) /\ IsKept("pypi", cur, e, d)
    <3> HIDE DEF cur, e
    <3> QED BY <2>4, KeptIs DEF e
  <2>6. IsKept("pypi", s[x], seq[i], d) /\ s[x].name = Called("pypi", seq[i])
    BY <1>1, <2>1, <2>5
  <2> HIDE DEF d, more, x, s
  <2>7. Merged("pypi", seq, i, [s EXCEPT ![x] = d])
    BY <1>1, <2>1, <2>5, <2>6, MergedAgain
  <2> QED BY <1>1, <2>2, <2>3, <2>7 DEF IsTableOf
<1> QED BY <1>2, <1>3, <1>4

LEMMA MergeNpmIs ==
  ASSUME NEW seq, NEW i \in Nat, i # 0, IsEntry(seq[i], Path),
         NEW acc, IsTableOf("npm", seq, i - 1, acc)
  PROVE  IsTableOf("npm", seq, i, MergeNpm(acc, seq[i]))
<1> DEFINE e == seq[i]
           n == e.name
           s == acc.deps
           new == MergeNpm(acc, e)
<1>1. /\ acc = [deps |-> acc.deps, notes |-> acc.notes] /\ Merged("npm", seq, i - 1, s)
      /\ \A y \in acc.notes : y[1] \notin Cycles
      /\ n = Called("npm", seq[i]) /\ Left("npm") = NotNpm \cup {NoName}
      /\ n \in Path
  BY DEF IsTableOf, Called, Left, IsEntry, Path
<1>2. CASE n \in NotNpm \cup {NoName}
  <2> DEFINE y == <<"invalid name", n>>
             new2 == IF n = NoName THEN acc.notes ELSE acc.notes \cup {y}
  <2>1. new = IF n = NoName THEN acc ELSE [acc EXCEPT !.notes = @ \cup {y}]
    BY <1>2 DEF MergeNpm
  <2>2. y[1] \notin Cycles
    BY DEF Cycles
  <2> HIDE DEF y
  <2>3. new = [deps |-> s, notes |-> new2]
    BY <1>1, <2>1
  <2>4. Merged("npm", seq, i, s)
    BY <1>1, <1>2, MergedLeft
  <2>5. \A z \in new2 : z[1] \notin Cycles
    BY <1>1, <2>2
  <2> HIDE DEF new2
  <2> QED BY <1>1, <2>3, <2>4, <2>5 DEF IsTableOf
<1>3. CASE n \notin NotNpm \cup {NoName} /\ PositionOf(s, n) = {}
  <2>1. new = [acc EXCEPT !.deps = Append(@, e)]
    BY <1>3 DEF MergeNpm
  <2>6. n \notin Names(s)
    BY <1>3, PositionIs
  <2>5. e.source = seq[i].source /\ e.version = seq[i].version /\ e.transitive = seq[i].transitive
        /\ IsEntry(e, Path) /\ e.name = n /\ n \notin Left("npm")
    BY <1>1, <1>3
  <2> HIDE DEF s, e
  <2>7. Merged("npm", seq, i, Append(s, e))
    BY <1>1, <2>5, <2>6, MergedNew
  <2>8. new = [deps |-> Append(s, e), notes |-> acc.notes]
    BY <1>1, <2>1 DEF s
  <2> QED BY <1>1, <2>7, <2>8 DEF IsTableOf, e
<1>4. CASE n \notin NotNpm \cup {NoName} /\ PositionOf(s, n) # {}
  <2> DEFINE x == CHOOSE j \in PositionOf(s, n) : TRUE
             cur == s[x]
             d == KeptNpm(cur, e)
             clash == Conflict(cur, e) /\ NpmRank(cur.source) # NpmRank(e.source)
             more == IF clash THEN {<<"conflict", n>>} ELSE {}
  <2>1. x \in DOMAIN s /\ cur.name = n
    BY <1>4 DEF PositionOf
  <2>2. new = [deps |-> [s EXCEPT ![x] = d], notes |-> acc.notes \cup more]
    BY <1>4 DEF MergeNpm
  <2>3. \A y \in more : y[1] \notin Cycles
    <3> DEFINE y == <<"conflict", n>>
    <3>1. y[1] \notin Cycles
      BY DEF Cycles
    <3>2. more = {y} \/ more = {} OBVIOUS
    <3> HIDE DEF y, more
    <3> QED BY <3>1, <3>2
  <2>4. IsEntry(cur, Path)
    BY <1>1, <2>1, SeqFacts DEF Merged, OneEach, IsEntries
  <2>5. IsEntry(d, Path) /\ IsKept("npm", cur, e, d)
    <3>1. IsEntry(e, Path) /\ e.name = cur.name
      BY <2>1
    <3> HIDE DEF cur, e
    <3> QED BY <2>4, <3>1, KeptNpmIs
  <2>6. IsKept("npm", s[x], seq[i], d) /\ s[x].name = Called("npm", seq[i])
    BY <1>1, <2>1, <2>5
  <2> HIDE DEF d, more, x, s
  <2>7. Merged("npm", seq, i, [s EXCEPT ![x] = d])
    BY <1>1, <2>1, <2>5, <2>6, MergedAgain
  <2> QED BY <1>1, <2>2, <2>3, <2>7 DEF IsTableOf
<1> QED BY <1>2, <1>3, <1>4

LEMMA NothingMerged ==
  ASSUME NEW eco, NEW seq
  PROVE  IsTableOf(eco, seq, 0, Nothing)
<1>1. Nothing.deps = <<>> /\ Nothing.notes = {} /\ Nothing = [deps |-> Nothing.deps, notes |-> Nothing.notes]
  BY DEF Nothing
<1>2. OneEach(<<>>) /\ Names(<<>>) = {} /\ DOMAIN <<>> = {}
  BY NoEntries DEF OneEach, Names
<1>3. {Called(eco, seq[j]) : j \in 1..0} = {} OBVIOUS
<1>4. Merged(eco, seq, 0, <<>>)
  BY <1>2, <1>3 DEF Merged
<1> QED BY <1>1, <1>4 DEF IsTableOf

\* All entries of a project, merged.
LEMMA DeduplicatePythonIs ==
  ASSUME NEW seq, IsEntries(seq, DOMAIN Normal)
  PROVE  IsTableOf("pypi", seq, Len(seq), DeduplicatePython(seq))
<1> DEFINE base == Nothing
<1>1. IsSeq(seq) /\ Len(seq) \in Nat /\ DOMAIN seq = 1..Len(seq) /\ seq \in Seq(Range(seq))
      /\ \A i \in 1..Len(seq) : IsEntry(seq[i], DOMAIN Normal)
  BY SeqFacts DEF IsEntries, IsSeq
<1>2. DeduplicatePython(seq) = FoldLeft(MergePython, base, seq)
  BY DEF DeduplicatePython
<1>3. IsTableOf("pypi", seq, 0, base)
  BY NothingMerged
<1> HIDE DEF base
<1>4. PICK m : /\ m[0] = base /\ \A i \in 1..Len(seq) : m[i] = MergePython(m[i - 1], seq[i])
               /\ FoldLeft(MergePython, base, seq) = m[Len(seq)]
  BY <1>1, FoldPython
<1> DEFINE S == {i \in 0..Len(seq) : IsTableOf("pypi", seq, i, m[i])}
<1>5. 0 \in S
  BY <1>1, <1>3, <1>4
<1>6. ASSUME NEW i \in 1..Len(seq), i - 1 \in S PROVE i \in S
  <2>1. i \in Nat /\ i # 0 /\ i \in 0..Len(seq) /\ IsTableOf("pypi", seq, i - 1, m[i - 1])
    BY <1>1, <1>6
  <2>2. IsTableOf("pypi", seq, i, MergePython(m[i - 1], seq[i]))
    BY <1>1, <2>1, MergePythonIs
  <2> QED BY <1>4, <2>1, <2>2
<1>7. \A i \in 0..Len(seq) : i \in S
  <2> HIDE DEF S
  <2> QED BY <1>1, <1>5, <1>6, UpTo
<1> QED BY <1>1, <1>2, <1>4, <1>7

LEMMA DeduplicateNpmIs ==
  ASSUME NEW seq, IsEntries(seq, Path)
  PROVE  IsTableOf("npm", seq, Len(seq), DeduplicateNpm(seq))
<1> DEFINE base == Nothing
<1>1. IsSeq(seq) /\ Len(seq) \in Nat /\ DOMAIN seq = 1..Len(seq) /\ seq \in Seq(Range(seq))
      /\ \A i \in 1..Len(seq) : IsEntry(seq[i], Path)
  BY SeqFacts DEF IsEntries, IsSeq
<1>2. DeduplicateNpm(seq) = FoldLeft(MergeNpm, base, seq)
  BY DEF DeduplicateNpm
<1>3. IsTableOf("npm", seq, 0, base)
  BY NothingMerged
<1> HIDE DEF base
<1>4. PICK m : /\ m[0] = base /\ \A i \in 1..Len(seq) : m[i] = MergeNpm(m[i - 1], seq[i])
               /\ FoldLeft(MergeNpm, base, seq) = m[Len(seq)]
  BY <1>1, FoldNpm
<1> DEFINE S == {i \in 0..Len(seq) : IsTableOf("npm", seq, i, m[i])}
<1>5. 0 \in S
  BY <1>1, <1>3, <1>4
<1>6. ASSUME NEW i \in 1..Len(seq), i - 1 \in S PROVE i \in S
  <2>1. i \in Nat /\ i # 0 /\ i \in 0..Len(seq) /\ IsTableOf("npm", seq, i - 1, m[i - 1])
    BY <1>1, <1>6
  <2>2. IsTableOf("npm", seq, i, MergeNpm(m[i - 1], seq[i]))
    BY <1>1, <2>1, MergeNpmIs
  <2> QED BY <1>4, <2>1, <2>2
<1>7. \A i \in 0..Len(seq) : i \in S
  <2> HIDE DEF S
  <2> QED BY <1>1, <1>5, <1>6, UpTo
<1> QED BY <1>1, <1>2, <1>4, <1>7

-----------------------------------------------------------------------------
(* Collecting the dependencies of a project. *)

LEMMA RangeOfThree == \A a, b, c : Range(<<a, b, c>>) = {a, b, c}
  BY DEF Range

LEMMA RangeOfFive == \A a, b, c, d, e : Range(<<a, b, c, d, e>>) = {a, b, c, d, e}
  BY DEF Range

LEMMA RangeOfEleven ==
  ASSUME NEW t, DOMAIN t = 1..11
  PROVE  Range(t) = {t[1], t[2], t[3], t[4], t[5], t[6], t[7], t[8], t[9], t[10], t[11]}
  BY DEF Range

LEMMA OrderIs ==
  /\ Range(Order.pypi) = {"requirements.txt", "pyproject.toml", "setup.py", "setup.cfg", "Pipfile",
                          "Pipfile.lock", "poetry.lock", "uv.lock", "test requirements",
                          "environment.yml", "containers and CI"}
  /\ Range(Order.npm) = {"package.json", "package-lock.json", "npm-shrinkwrap.json", "yarn.lock",
                         "pnpm-lock.yaml", "bun.lock", "bun.lockb", "deno.json", "deno.jsonc",
                         "deno.lock", ".npmrc"}
  /\ Range(Order.go) = {"go.mod", "go.sum", "vendor/modules.txt"}
  /\ Range(Order.nuget) = {"Directory.Packages.props", "projects", "packages.config",
                           "packages.lock.json", "nuget.config"}
<1>5. Range(Order.pypi) = {"requirements.txt", "pyproject.toml", "setup.py", "setup.cfg", "Pipfile",
                      "Pipfile.lock", "poetry.lock", "uv.lock", "test requirements",
                      "environment.yml", "containers and CI"}
  <2> DEFINE t == Order.pypi
  <2>1. /\ DOMAIN t = 1..11
        /\ t[1] = "requirements.txt"
        /\ t[2] = "pyproject.toml"
        /\ t[3] = "setup.py"
        /\ t[4] = "setup.cfg"
        /\ t[5] = "Pipfile"
        /\ t[6] = "Pipfile.lock"
        /\ t[7] = "poetry.lock"
        /\ t[8] = "uv.lock"
        /\ t[9] = "test requirements"
        /\ t[10] = "environment.yml"
        /\ t[11] = "containers and CI"
    BY DEF Order
  <2> HIDE DEF t
  <2>2. Range(t) = {t[1], t[2], t[3], t[4], t[5], t[6], t[7], t[8], t[9], t[10], t[11]}
    BY <2>1, RangeOfEleven
  <2> QED BY <2>1, <2>2 DEF t
<1>6. Range(Order.npm) = {"package.json", "package-lock.json", "npm-shrinkwrap.json", "yarn.lock",
                      "pnpm-lock.yaml", "bun.lock", "bun.lockb", "deno.json", "deno.jsonc",
                      "deno.lock", ".npmrc"}
  <2> DEFINE t == Order.npm
  <2>1. /\ DOMAIN t = 1..11
        /\ t[1] = "package.json"
        /\ t[2] = "package-lock.json"
        /\ t[3] = "npm-shrinkwrap.json"
        /\ t[4] = "yarn.lock"
        /\ t[5] = "pnpm-lock.yaml"
        /\ t[6] = "bun.lock"
        /\ t[7] = "bun.lockb"
        /\ t[8] = "deno.json"
        /\ t[9] = "deno.jsonc"
        /\ t[10] = "deno.lock"
        /\ t[11] = ".npmrc"
    BY DEF Order
  <2> HIDE DEF t
  <2>2. Range(t) = {t[1], t[2], t[3], t[4], t[5], t[6], t[7], t[8], t[9], t[10], t[11]}
    BY <2>1, RangeOfEleven
  <2> QED BY <2>1, <2>2 DEF t
<1>7. Range(Order.go) = {"go.mod", "go.sum", "vendor/modules.txt"}
  BY RangeOfThree DEF Order
<1>8. Range(Order.nuget) = {"Directory.Packages.props", "projects", "packages.config",
                            "packages.lock.json", "nuget.config"}
  BY RangeOfFive DEF Order
<1> QED BY <1>5, <1>6, <1>7, <1>8

\* No step is called like the last two.
LEMMA StepNames ==
  ASSUME NEW p, p.eco \in Ecosystems
  PROVE  "deduplicate" \notin Steps(p) /\ "hand over" \notin Steps(p)
<1>2. \A x \in Range(Order.pypi) \cup Range(Order.npm) \cup Range(Order.go) \cup Range(Order.nuget) :
        x # "deduplicate" /\ x # "hand over"
  BY OrderIs
<1>1. "deduplicate" \notin Range(Order[p.eco]) /\ "hand over" \notin Range(Order[p.eco])
  BY <1>2 DEF Ecosystems
<1> QED BY <1>1 DEF Steps

\* The first of the steps ahead.
LEMMA FirstStep ==
  ASSUME NEW s, IsSeq(s), NEW t, t = s \o End
  PROVE  /\ t # <<>>
         /\ s = <<>> => Head(t) = "deduplicate" /\ Tail(t) = <<"hand over">>
         /\ s # <<>> => /\ Head(t) = Head(s) /\ Tail(t) = Tail(s) \o End
                        /\ IsSeq(Tail(s)) /\ Head(s) \in Range(s)
                        /\ Range(Tail(s)) \subseteq Range(s)
                        /\ \A x \in Range(s) : x = Head(s) \/ x \in Range(Tail(s))
<1> DEFINE X == Range(s) \cup {"deduplicate", "hand over"}
<1>1. s \in Seq(X) /\ End \in Seq(X) /\ DOMAIN s = 1..Len(s)
  <2>1. s \in Seq(X)
    BY SeqFacts
  <2>2. "deduplicate" \in X /\ "hand over" \in X OBVIOUS
  <2> HIDE DEF X
  <2>5. \A a, b \in X : <<a, b>> \in Seq(X) OBVIOUS
  <2>3. End \in Seq(X)
    BY <2>2, <2>5 DEF End
  <2>4. DOMAIN s = 1..Len(s)
    BY <2>1
  <2> QED BY <2>1, <2>3, <2>4
<1> HIDE DEF X
<1>2. CASE s = <<>>
  <2>1. t = End
    BY <1>1, <1>2
  <2>2. \A a, b : Head(<<a, b>>) = a /\ Tail(<<a, b>>) = <<b>> /\ <<a, b>> # <<>> OBVIOUS
  <2> QED BY <1>2, <2>1, <2>2 DEF End
<1>3. CASE s # <<>>
  <2>1. /\ t \in Seq(X) /\ t # <<>> /\ Head(t) = Head(s) /\ Tail(t) = Tail(s) \o End
        /\ Tail(s) \in Seq(X) /\ Head(s) = s[1] /\ Len(s) \in Nat /\ Len(s) >= 1
    BY <1>1, <1>3
  <2>2. \A i \in DOMAIN Tail(s) : Tail(s)[i] = s[i + 1] /\ i + 1 \in 1..Len(s)
    BY <1>1, <1>3
  <2>3. \A i \in 1..Len(s) : i = 1 \/ (i - 1 \in DOMAIN Tail(s) /\ Tail(s)[i - 1] = s[i])
    BY <1>1, <1>3
  <2>4. 1 \in DOMAIN s
    BY <1>1, <2>1
  <2>5. IsSeq(Tail(s))
    BY <2>1, SeqFacts
  <2>6. Range(Tail(s)) \subseteq Range(s)
    BY <1>1, <2>2 DEF Range
  <2>7. \A x \in Range(s) : x = Head(s) \/ x \in Range(Tail(s))
    BY <1>1, <2>1, <2>3 DEF Range
  <2>8. Head(s) \in Range(s)
    BY <2>1, <2>4 DEF Range
  <2> QED BY <1>3, <2>1, <2>5, <2>6, <2>7, <2>8
<1> QED BY <1>2, <1>3

LEMMA PythonGivesIs ==
  ASSUME NEW x, NEW st, NEW r
  PROVE  /\ st \in Declaring => PythonReads(x, st, r) = PythonGives(x, st)
         /\ st \in Locking => PythonGives(x, st) = Nothing
<1>1. CASE st \in Declaring
  BY <1>1 DEF Declaring, Locking, PythonReads, PythonGives
<1>2. CASE st \in Locking
  BY <1>2 DEF Declaring, Locking, PythonReads, PythonGives
<1>3. CASE st \notin Declaring \cup Locking
  BY <1>3
<1> QED BY <1>1, <1>2, <1>3 DEF Declaring, Locking

\* A file of a project of Python that is one of the steps.
LEMMA PythonFileIs ==
  ASSUME NEW x, PythonFiles(x), NEW n \in DOMAIN x, n # "containers and CI", x[n].ok
  PROVE  PythonFile(n, x[n])
BY DEF PythonFiles

LEMMA RequirementsTxtIs ==
  ASSUME NEW x, PythonFiles(x), "requirements.txt" \in DOMAIN x
  PROVE  IsPy(Requirements(x, "requirements.txt"), {"cycle"})
<1>1. RequirementsAreLists(x)
  BY DEF PythonFiles
<1>2. x["requirements.txt"].ok => "requirements.txt" \in Requirementlike(x)
  BY <1>1 DEF RequirementsAreLists
<1> QED BY <1>1, <1>2, RequirementsIs

\* More kinds of cycles may be noted.
LEMMA MoreKinds ==
  ASSUME NEW r, NEW kinds, IsPy(r, kinds), NEW more, kinds \subseteq more
  PROVE  IsPy(r, more)
BY DEF IsPy, IsResult

LEMMA DeclaringIs ==
  ASSUME NEW x, PythonFiles(x), NEW st \in Declaring, Present(x, st)
  PROVE  IsPy(PythonGives(x, st), Cycles)
<1>0. st # "test requirements" => st \in DOMAIN x
  BY DEF Present, Declaring
<1>1. CASE st = "requirements.txt"
  <2>1. IsPy(Requirements(x, "requirements.txt"), {"cycle"})
    BY <1>0, <1>1, RequirementsTxtIs
  <2>2. IsPy(Requirements(x, "requirements.txt"), Cycles)
    BY <2>1, MoreKinds DEF Cycles
  <2> QED BY <1>1, <2>2 DEF PythonGives
<1>2. CASE st = "pyproject.toml"
  <2> DEFINE f == x["pyproject.toml"]
  <2>1. f.ok => PythonFile("pyproject.toml", f)
    BY <1>0, <1>2, PythonFileIs
  <2>2. f.ok => IsPyproject(f)
    BY <2>1 DEF PythonFile
  <2> HIDE DEF f
  <2>3. IsPy(PyprojectToml(f), {"group cycle"})
    BY <2>2, PyprojectTomlIs
  <2>4. IsPy(PyprojectToml(f), Cycles)
    BY <2>3, MoreKinds DEF Cycles
  <2> QED BY <1>2, <2>4 DEF PythonGives, f
<1>3. CASE st = "setup.cfg"
  <2> DEFINE f == x["setup.cfg"]
  <2>1. f.ok => PythonFile("setup.cfg", f)
    BY <1>0, <1>3, PythonFileIs
  <2>2. f.ok => IsItems(f.install) /\ IsList(f.extras, IsTable)
    BY <2>1 DEF PythonFile
  <2> HIDE DEF f
  <2>3. IsPy(SetupCfg(f), Cycles)
    BY <2>2, SetupCfgIs
  <2> QED BY <1>3, <2>3 DEF PythonGives, f
<1>4. CASE st = "Pipfile"
  <2> DEFINE f == x["Pipfile"]
  <2>1. f.ok => PythonFile("Pipfile", f)
    BY <1>0, <1>4, PythonFileIs
  <2>2. f.ok => IsPinned(f.packages) /\ IsPinned(f.dev)
    BY <2>1 DEF PythonFile
  <2> HIDE DEF f
  <2>3. IsPy(Pipfile(f), Cycles)
    BY <2>2, PipfileIs
  <2> QED BY <1>4, <2>3 DEF PythonGives, f
<1>5. CASE st = "test requirements"
  <2>1. RequirementsAreLists(x)
    BY DEF PythonFiles
  <2>2. IsPy(TestRequirementFiles(x), {"cycle"})
    BY <2>1, TestRequirementFilesIs
  <2>3. IsPy(TestRequirementFiles(x), Cycles)
    BY <2>2, MoreKinds DEF Cycles
  <2> QED BY <1>5, <2>3 DEF PythonGives
<1>6. CASE st = "containers and CI"
  <2> DEFINE f == x["containers and CI"]
  <2>1. IsContainers(f)
    BY <1>0, <1>6 DEF PythonFiles
  <2> HIDE DEF f
  <2>2. IsPy(ContainersAndCi(f), {"tox cycle"})
    BY <2>1, ContainersAndCiIs
  <2>3. IsPy(ContainersAndCi(f), Cycles)
    BY <2>2, MoreKinds DEF Cycles
  <2> QED BY <1>6, <2>3 DEF PythonGives, f
<1> QED BY <1>1, <1>2, <1>3, <1>4, <1>5, <1>6 DEF Declaring

LEMMA LockingIs ==
  ASSUME NEW x, PythonFiles(x), NEW st \in Locking, Present(x, st), NEW r
  PROVE  IsPy(PythonReads(x, st, r), {})
<1>0. /\ st # "environment.yml" => st \in DOMAIN x
      /\ st = "environment.yml" => CondaFile(x) \in DOMAIN x
  BY DEF Present, Locking
<1>1. CASE st = "setup.py"
  <2> DEFINE f == x["setup.py"]
  <2>1. f.ok => PythonFile("setup.py", f)
    BY <1>0, <1>1, PythonFileIs
  <2>2. f.ok => IsSetupPy(f)
    BY <2>1 DEF PythonFile
  <2> HIDE DEF f
  <2>3. IsPy(SetupPy(f), {})
    BY <2>2, SetupPyIs
  <2> QED BY <1>1, <2>3 DEF PythonReads, f
<1>2. CASE st = "Pipfile.lock"
  <2> DEFINE f == x["Pipfile.lock"]
  <2>1. f.ok => PythonFile("Pipfile.lock", f)
    BY <1>0, <1>2, PythonFileIs
  <2>2. f.ok => IsPinned(f.default) /\ IsPinned(f.develop)
    BY <2>1 DEF PythonFile
  <2> HIDE DEF f
  <2>3. IsPy(PipfileLock(f), {})
    BY <2>2, PipfileLockIs
  <2> QED BY <1>2, <2>3 DEF PythonReads, f
<1>3. CASE st = "poetry.lock"
  <2> DEFINE f == x["poetry.lock"]
  <2>1. f.ok => PythonFile("poetry.lock", f)
    BY <1>0, <1>3, PythonFileIs
  <2>2. f.ok => IsList(f.packages, IsLocked)
    BY <2>1 DEF PythonFile
  <2> HIDE DEF f
  <2>3. IsPy(PoetryLock(f, r), {})
    BY <2>2, PoetryLockIs
  <2> QED BY <1>3, <2>3 DEF PythonReads, f
<1>4. CASE st = "uv.lock"
  <2> DEFINE f == x["uv.lock"]
  <2>1. f.ok => PythonFile("uv.lock", f)
    BY <1>0, <1>4, PythonFileIs
  <2>2. f.ok => IsList(f.packages, IsLocked)
    BY <2>1 DEF PythonFile
  <2> HIDE DEF f
  <2>3. IsPy(UvLock(f), {})
    BY <2>2, UvLockIs
  <2> QED BY <1>4, <2>3 DEF PythonReads, f
<1>5. CASE st = "environment.yml"
  <2> DEFINE f == x[CondaFile(x)]
  <2>0. CondaFile(x) \in {"environment.yml", "environment.yaml"}
    BY DEF CondaFile
  <2>1. f.ok => PythonFile(CondaFile(x), f)
    BY <1>0, <1>5, <2>0, PythonFileIs
  <2>2. f.ok => IsList(f.items, LAMBDA i : IF i.kind = "pip" THEN IsTable(i) ELSE IsItem(i))
    BY <2>0, <2>1 DEF PythonFile
  <2> HIDE DEF f
  <2>3. IsPy(EnvironmentYml(f), {})
    BY <2>2, EnvironmentYmlIs
  <2> QED BY <1>5, <2>3 DEF PythonReads, f
<1> QED BY <1>1, <1>2, <1>3, <1>4, <1>5 DEF Locking

\* What a step of Python adds, and where its cycles come from.
LEMMA PythonReadsIs ==
  ASSUME NEW x, PythonFiles(x), NEW st \in Range(Order.pypi), Present(x, st), NEW r
  PROVE  /\ IsPy(PythonReads(x, st, r), Cycles)
         /\ \A y \in PythonReads(x, st, r).notes : y[1] \in Cycles => y \in PythonGives(x, st).notes
         /\ Range(PythonGives(x, st).deps) \subseteq Range(PythonReads(x, st, r).deps)
         /\ PythonGives(x, st).notes \subseteq PythonReads(x, st, r).notes
<1>0. st \in Declaring \/ st \in Locking
  BY OrderIs DEF Declaring, Locking
<1>1. CASE st \in Declaring
  <2>1. PythonReads(x, st, r) = PythonGives(x, st)
    BY <1>1, PythonGivesIs
  <2>2. IsPy(PythonGives(x, st), Cycles)
    BY <1>1, DeclaringIs
  <2> QED BY <2>1, <2>2
<1>2. CASE st \in Locking
  <2> DEFINE q == PythonReads(x, st, r)
  <2>1. PythonGives(x, st) = Nothing
    BY <1>2, PythonGivesIs
  <2>2. IsPy(q, {})
    BY <1>2, LockingIs
  <2> HIDE DEF q
  <2>3. IsPy(q, Cycles) /\ \A y \in q.notes : y[1] \notin Cycles
    BY <2>2, Weaker
  <2>4. Nothing.deps = <<>> /\ Nothing.notes = {}
    BY DEF Nothing
  <2>5. Range(Nothing.deps) = {}
    BY <2>4 DEF Range
  <2> QED BY <2>1, <2>3, <2>4, <2>5 DEF q
<1> QED BY <1>0, <1>1, <1>2

\* One step done.
LEMMA Advance ==
  ASSUME NEW p, NEW t, NEW r, NEW g, NEW n, Ahead(p, t, r, g, n),
         NEW st, t # <<>>, Head(t) = st, st # "deduplicate",
         NEW r2, NEW g2, NEW n2, Gathered(p, r2, g2, n2), Fulfilled(p, st, r2, n2),
         \A x \in Steps(p) : x # st /\ Fulfilled(p, x, r, n) => Fulfilled(p, x, r2, n2)
  PROVE  Ahead(p, Tail(t), r2, g2, n2)
<1>1. PICK s : t = s \o End /\ Collecting(p, s, r, g, n)
  BY DEF Ahead
<1>2. IsProject(p) /\ IsSeq(s) /\ Range(s) \subseteq Steps(p)
  BY <1>1 DEF Collecting
<1>3. \A x \in Steps(p) : x \in Range(s) \/ Fulfilled(p, x, r, n)
  BY <1>1 DEF Collecting
<1>4. /\ t # <<>>
      /\ s = <<>> => Head(t) = "deduplicate" /\ Tail(t) = <<"hand over">>
      /\ s # <<>> => /\ Head(t) = Head(s) /\ Tail(t) = Tail(s) \o End
                     /\ IsSeq(Tail(s)) /\ Head(s) \in Range(s)
                     /\ Range(Tail(s)) \subseteq Range(s)
                     /\ \A x \in Range(s) : x = Head(s) \/ x \in Range(Tail(s))
  BY <1>1, <1>2, FirstStep
<1>5. s # <<>>
  BY <1>4
<1> DEFINE u == Tail(s)
<1>6. /\ Tail(t) = u \o End /\ IsSeq(u) /\ Range(u) \subseteq Steps(p)
      /\ \A x \in Range(s) : x = st \/ x \in Range(u)
  BY <1>2, <1>4, <1>5
<1> HIDE DEF u
<1>7. \A x \in Steps(p) : x \in Range(u) \/ Fulfilled(p, x, r2, n2)
  BY <1>3, <1>6
<1>8. Collecting(p, u, r2, g2, n2)
  BY <1>2, <1>6, <1>7 DEF Collecting
<1> QED BY <1>6, <1>8 DEF Ahead

\* The step at the head is one of the project's, until there is none.
LEMMA AheadIs ==
  ASSUME NEW p, NEW t, NEW r, NEW g, NEW n, Ahead(p, t, r, g, n)
  PROVE  /\ IsProject(p) /\ Gathered(p, r, g, n) /\ t # <<>>
         /\ Head(t) # "deduplicate" => Head(t) \in Steps(p)
         /\ p.eco \in Ecosystems =>
              /\ Head(t) # "hand over"
              /\ Head(t) = "deduplicate" =>
                   /\ Tail(t) = <<"hand over">>
                   /\ \A x \in Steps(p) : Fulfilled(p, x, r, n)
<1>1. PICK s : t = s \o End /\ Collecting(p, s, r, g, n)
  BY DEF Ahead
<1>2. IsProject(p) /\ IsSeq(s) /\ Range(s) \subseteq Steps(p) /\ Gathered(p, r, g, n)
  BY <1>1 DEF Collecting
<1>3. \A x \in Steps(p) : x \in Range(s) \/ Fulfilled(p, x, r, n)
  BY <1>1 DEF Collecting
<1>4. /\ t # <<>>
      /\ s = <<>> => Head(t) = "deduplicate" /\ Tail(t) = <<"hand over">>
      /\ s # <<>> => /\ Head(t) = Head(s) /\ Tail(t) = Tail(s) \o End
                     /\ IsSeq(Tail(s)) /\ Head(s) \in Range(s)
                     /\ Range(Tail(s)) \subseteq Range(s)
                     /\ \A x \in Range(s) : x = Head(s) \/ x \in Range(Tail(s))
  BY <1>1, <1>2, FirstStep
<1>5. CASE s = <<>>
  <2>1. Range(s) = {}
    BY <1>5 DEF Range
  <2> QED BY <1>2, <1>3, <1>4, <1>5, <2>1
<1>6. CASE s # <<>>
  <2>1. Head(t) \in Steps(p)
    BY <1>2, <1>4, <1>6
  <2>2. ASSUME p.eco \in Ecosystems
        PROVE  Head(t) # "deduplicate" /\ Head(t) # "hand over"
    <3>1. "deduplicate" \notin Steps(p) /\ "hand over" \notin Steps(p)
      BY <2>2, StepNames
    <3> QED BY <2>1, <3>1
  <2> QED BY <1>2, <1>4, <2>1, <2>2
<1> QED BY <1>5, <1>6

\* A step that adds entries and notes.
LEMMA Adding ==
  ASSUME NEW p, NEW t, NEW r, NEW g, NEW n, Ahead(p, t, r, g, n),
         NEW st, Head(t) = st, st # "deduplicate", p.eco \in {"pypi", "npm"},
         NEW d, IsEntries(d, NamesOf(p.eco)), NEW m, NEW g2, IsLockGraph(g2),
         p.eco = "pypi" => \A y \in m : y[1] \in Cycles => y \in PythonGives(p.files, st).notes,
         Fulfilled(p, st, d, m)
  PROVE  Ahead(p, Tail(t), r \o d, g2, n \cup m)
<1>1. t # <<>> /\ Gathered(p, r, g, n) /\ st \in Steps(p)
  BY AheadIs
<1>2. IsEntries(r, NamesOf(p.eco))
  BY <1>1 DEF Gathered
<1>3. IsEntries(r \o d, NamesOf(p.eco)) /\ Range(r \o d) = Range(r) \cup Range(d)
  BY <1>2, EntriesTogether
<1> DEFINE r2 == r \o d
           n2 == n \cup m
<1>4. IsEntries(r2, NamesOf(p.eco)) /\ Range(r2) = Range(r) \cup Range(d)
  BY <1>3
<1>5. n \subseteq n2 /\ m \subseteq n2 /\ \A y \in n2 : y \in n \/ y \in m OBVIOUS
<1> HIDE DEF r2, n2
<1>6. p.eco = "pypi" =>
        \A y \in n2 : y[1] \in Cycles => \E x \in Steps(p) : y \in PythonGives(p.files, x).notes
  BY <1>1, <1>5 DEF Gathered
<1>7. Gathered(p, r2, g2, n2)
  BY <1>4, <1>6 DEF Gathered
<1>8. \A x : Fulfilled(p, x, r, n) => Fulfilled(p, x, r2, n2)
  BY <1>4, <1>5 DEF Fulfilled
<1>9. Fulfilled(p, st, r2, n2)
  BY <1>4, <1>5 DEF Fulfilled
<1>10. Ahead(p, Tail(t), r2, g2, n2)
  BY <1>1, <1>7, <1>8, <1>9, Advance
<1> QED BY <1>10 DEF r2, n2

LEMMA PythonActions ==
  ASSUME ReadsPython
  PROVE  \E st \in Range(Order.pypi) :
           /\ Added(st, PythonReads(files, st, raw)) /\ project.eco = "pypi"
           /\ \/ graph' = graph
              \/ st = "poetry.lock" /\ graph' = PoetryGraph(files["poetry.lock"])
              \/ st = "uv.lock" /\ graph' = UvGraph(files["uv.lock"])
<1> DEFINE Goal(st) == /\ Added(st, PythonReads(files, st, raw)) /\ project.eco = "pypi"
                       /\ \/ graph' = graph
                          \/ st = "poetry.lock" /\ graph' = PoetryGraph(files["poetry.lock"])
                          \/ st = "uv.lock" /\ graph' = UvGraph(files["uv.lock"])
<1>0. ASSUME NEW st, NEW r, Python(st, r), r = PythonReads(files, st, raw)
      PROVE  Added(st, PythonReads(files, st, raw)) /\ project.eco = "pypi"
  BY <1>0 DEF Python, Turn, Adds, Added
<1>1. CASE RequirementsTxtStep
  <2>1. PythonReads(files, "requirements.txt", raw) = Requirements(files, "requirements.txt")
    BY DEF PythonReads
  <2>2. Goal("requirements.txt")
    BY <1>0, <1>1, <2>1 DEF RequirementsTxtStep
  <2> QED BY <2>2, OrderIs
<1>2. CASE PyprojectStep
  <2>1. PythonReads(files, "pyproject.toml", raw) = PyprojectToml(files["pyproject.toml"])
    BY DEF PythonReads
  <2>2. Goal("pyproject.toml")
    BY <1>0, <1>2, <2>1 DEF PyprojectStep
  <2> QED BY <2>2, OrderIs
<1>3. CASE SetupPyStep
  <2>1. PythonReads(files, "setup.py", raw) = SetupPy(files["setup.py"])
    BY DEF PythonReads
  <2>2. Goal("setup.py")
    BY <1>0, <1>3, <2>1 DEF SetupPyStep
  <2> QED BY <2>2, OrderIs
<1>4. CASE SetupCfgStep
  <2>1. PythonReads(files, "setup.cfg", raw) = SetupCfg(files["setup.cfg"])
    BY DEF PythonReads
  <2>2. Goal("setup.cfg")
    BY <1>0, <1>4, <2>1 DEF SetupCfgStep
  <2> QED BY <2>2, OrderIs
<1>5. CASE PipfileStep
  <2>1. PythonReads(files, "Pipfile", raw) = Pipfile(files["Pipfile"])
    BY DEF PythonReads
  <2>2. Goal("Pipfile")
    BY <1>0, <1>5, <2>1 DEF PipfileStep
  <2> QED BY <2>2, OrderIs
<1>6. CASE PipfileLockStep
  <2>1. PythonReads(files, "Pipfile.lock", raw) = PipfileLock(files["Pipfile.lock"])
    BY DEF PythonReads
  <2>2. Goal("Pipfile.lock")
    BY <1>0, <1>6, <2>1 DEF PipfileLockStep
  <2> QED BY <2>2, OrderIs
<1>7. CASE PoetryLockStep
  <2>1. PythonReads(files, "poetry.lock", raw) = PoetryLock(files["poetry.lock"], raw)
    BY DEF PythonReads
  <2>2. Goal("poetry.lock")
    BY <1>0, <1>7, <2>1 DEF PoetryLockStep
  <2> QED BY <2>2, OrderIs
<1>8. CASE UvLockStep
  <2>1. PythonReads(files, "uv.lock", raw) = UvLock(files["uv.lock"])
    BY DEF PythonReads
  <2>2. Goal("uv.lock")
    BY <1>0, <1>8, <2>1 DEF UvLockStep
  <2> QED BY <2>2, OrderIs
<1>9. CASE TestRequirementsStep
  <2>1. PythonReads(files, "test requirements", raw) = TestRequirementFiles(files)
    BY DEF PythonReads
  <2>2. Goal("test requirements")
    BY <1>0, <1>9, <2>1 DEF TestRequirementsStep
  <2> QED BY <2>2, OrderIs
<1>10. CASE EnvironmentStep
  <2>1. PythonReads(files, "environment.yml", raw) = EnvironmentYml(files[CondaFile(files)])
    BY DEF PythonReads
  <2>2. Goal("environment.yml")
    BY <1>0, <1>10, <2>1 DEF EnvironmentStep
  <2> QED BY <2>2, OrderIs
<1>11. CASE ContainersStep
  <2>1. PythonReads(files, "containers and CI", raw) = ContainersAndCi(files["containers and CI"])
    BY DEF PythonReads
  <2>2. Goal("containers and CI")
    BY <1>0, <1>11, <2>1 DEF ContainersStep
  <2> QED BY <2>2, OrderIs
<1> QED
  BY <1>1, <1>2, <1>3, <1>4, <1>5, <1>6, <1>7, <1>8, <1>9, <1>10, <1>11 DEF ReadsPython, PythonStep

LEMMA PythonKeeps ==
  ASSUME Ahead(project, todo, raw, graph, notes), ReadsPython
  PROVE  /\ Ahead(project', todo', raw', graph', notes')
         /\ UNCHANGED <<project, declared>>
<1>1. PICK st \in Range(Order.pypi) :
        /\ Added(st, PythonReads(files, st, raw)) /\ project.eco = "pypi"
        /\ \/ graph' = graph
           \/ st = "poetry.lock" /\ graph' = PoetryGraph(files["poetry.lock"])
           \/ st = "uv.lock" /\ graph' = UvGraph(files["uv.lock"])
  BY PythonActions
<1> DEFINE q == PythonReads(files, st, raw)
<1>2. /\ Head(todo) = st /\ todo' = Tail(todo) /\ raw' = raw \o q.deps
      /\ notes' = notes \cup q.notes /\ UNCHANGED <<project, declared>>
  BY <1>1 DEF Added
<1>3. /\ IsProject(project) /\ Gathered(project, raw, graph, notes)
      /\ st # "deduplicate" => st \in Steps(project)
  BY <1>2, AheadIs
<1>4. st # "deduplicate"
  BY OrderIs
<1>5. PythonFiles(files) /\ Present(files, st)
  BY <1>1, <1>3, <1>4 DEF IsProject, Steps, files
<1>6. /\ IsPy(q, Cycles)
      /\ \A y \in q.notes : y[1] \in Cycles => y \in PythonGives(files, st).notes
      /\ Range(PythonGives(files, st).deps) \subseteq Range(q.deps)
      /\ PythonGives(files, st).notes \subseteq q.notes
  BY <1>5, PythonReadsIs
<1>7. IsLockGraph(graph')
  <2>1. CASE graph' = graph
    BY <1>3, <2>1 DEF Gathered
  <2>2. CASE st = "poetry.lock" /\ graph' = PoetryGraph(files["poetry.lock"])
    <3> DEFINE f == files["poetry.lock"]
    <3>1. f.ok => PythonFile("poetry.lock", f)
      BY <1>5, <2>2, PythonFileIs DEF Present
    <3>2. f.ok => IsList(f.packages, IsLocked)
      BY <3>1 DEF PythonFile
    <3> HIDE DEF f
    <3>3. IsLockGraph(PoetryGraph(f))
      BY <3>2, LockGraphsAre
    <3> QED BY <2>2, <3>3 DEF f
  <2>3. CASE st = "uv.lock" /\ graph' = UvGraph(files["uv.lock"])
    <3> DEFINE f == files["uv.lock"]
    <3>1. f.ok => PythonFile("uv.lock", f)
      BY <1>5, <2>3, PythonFileIs DEF Present
    <3>2. f.ok => IsList(f.packages, IsLocked)
      BY <3>1 DEF PythonFile
    <3> HIDE DEF f
    <3>3. IsLockGraph(UvGraph(f))
      BY <3>2, LockGraphsAre
    <3> QED BY <2>3, <3>3 DEF f
  <2> QED BY <1>1, <2>1, <2>2, <2>3
<1> HIDE DEF q
<1>8. IsEntries(q.deps, NamesOf(project.eco))
  BY <1>1, <1>6 DEF IsPy, IsResult, NamesOf
<1>9. Fulfilled(project, st, q.deps, q.notes)
  BY <1>1, <1>6 DEF Fulfilled, files
<1>10. \A y \in q.notes : y[1] \in Cycles => y \in PythonGives(project.files, st).notes
  BY <1>6 DEF files
<1>11. Ahead(project, Tail(todo), raw \o q.deps, graph', notes \cup q.notes)
  BY <1>1, <1>2, <1>4, <1>7, <1>8, <1>9, <1>10, Adding
<1> QED BY <1>2, <1>11

\* The file at the head is there and has its shape.
LEMMA NpmFileIs ==
  ASSUME Ahead(project, todo, raw, graph, notes), project.eco = "npm",
         NEW st, Head(todo) = st, st \notin {"deduplicate", "test requirements", "environment.yml"}
  PROVE  files[st].ok => NpmFile(st, files[st])
<1>1. IsProject(project) /\ st \in Steps(project)
  BY AheadIs
<1>2. st \in DOMAIN files
  BY <1>1 DEF Steps, Present, files
<1> QED BY <1>1, <1>2 DEF IsProject, files

LEMMA NpmActions ==
  ASSUME Ahead(project, todo, raw, graph, notes), ReadsNpm, project.eco = "npm"
  PROVE  \E st, r : NpmAdds(st, r)
<1>0. ASSUME NEW st, NEW r, NEW rules, Npm(st, r, rules), IsNpm(r), st # "deduplicate",
             st = "package.json" => r = PackageJson(files["package.json"])
      PROVE  NpmAdds(st, r)
  BY <1>0 DEF Npm, Turn, Adds, Added, NpmAdds
<1>1. CASE PackageJsonStep
  <2> DEFINE f == files["package.json"]
  <2>1. Npm("package.json", PackageJson(f), PackageJsonFindings(f))
    BY <1>1 DEF PackageJsonStep
  <2>2. Head(todo) = "package.json"
    BY <2>1 DEF Npm, Turn
  <2>3. f.ok => NpmFile("package.json", f)
    BY <2>2, NpmFileIs
  <2>4. f.ok => HasSections(f)
    BY <2>3 DEF NpmFile
  <2>5. "package.json" = "package.json" => PackageJson(f) = PackageJson(files["package.json"])
    OBVIOUS
  <2> HIDE DEF f
  <2>6. IsNpm(PackageJson(f))
    BY <2>4, PackageJsonIs
  <2>7. NpmAdds("package.json", PackageJson(f))
    BY <1>0, <2>1, <2>5, <2>6
  <2> QED BY <2>7
<1>2. CASE YarnStep
  <2> DEFINE f == files["yarn.lock"]
  <2>1. Npm("yarn.lock", YarnLock(f), {})
    BY <1>2 DEF YarnStep
  <2>2. Head(todo) = "yarn.lock"
    BY <2>1 DEF Npm, Turn
  <2>3. f.ok => NpmFile("yarn.lock", f)
    BY <2>2, NpmFileIs
  <2>4. f.ok => IsYarnLock(f)
    BY <2>3 DEF NpmFile
  <2>5. "yarn.lock" = "package.json" => YarnLock(f) = PackageJson(files["package.json"]) OBVIOUS
  <2> HIDE DEF f
  <2>6. IsNpm(YarnLock(f))
    BY <2>4, YarnLockIs
  <2>7. NpmAdds("yarn.lock", YarnLock(f))
    BY <1>0, <2>1, <2>5, <2>6
  <2> QED BY <2>7
<1>3. CASE PnpmStep
  <2> DEFINE f == files["pnpm-lock.yaml"]
  <2>1. Npm("pnpm-lock.yaml", PnpmLock(f), {})
    BY <1>3 DEF PnpmStep
  <2>2. Head(todo) = "pnpm-lock.yaml"
    BY <2>1 DEF Npm, Turn
  <2>3. f.ok => NpmFile("pnpm-lock.yaml", f)
    BY <2>2, NpmFileIs
  <2>4. f.ok => HasSections(f)
    BY <2>3 DEF NpmFile
  <2>5. "pnpm-lock.yaml" = "package.json" => PnpmLock(f) = PackageJson(files["package.json"])
    OBVIOUS
  <2> HIDE DEF f
  <2>6. IsNpm(PnpmLock(f))
    BY <2>4, PnpmLockIs
  <2>7. NpmAdds("pnpm-lock.yaml", PnpmLock(f))
    BY <1>0, <2>1, <2>5, <2>6
  <2> QED BY <2>7
<1>4. CASE BunStep
  <2> DEFINE f == files["bun.lock"]
  <2>1. Npm("bun.lock", BunLock(f), {})
    BY <1>4 DEF BunStep
  <2>2. Head(todo) = "bun.lock"
    BY <2>1 DEF Npm, Turn
  <2>3. f.ok => NpmFile("bun.lock", f)
    BY <2>2, NpmFileIs
  <2>4. f.ok => AreNamed(f.packages)
    BY <2>3 DEF NpmFile
  <2>5. "bun.lock" = "package.json" => BunLock(f) = PackageJson(files["package.json"]) OBVIOUS
  <2> HIDE DEF f
  <2>6. IsNpm(BunLock(f))
    BY <2>4, OtherNpmFiles
  <2>7. NpmAdds("bun.lock", BunLock(f))
    BY <1>0, <2>1, <2>5, <2>6
  <2> QED BY <2>7
<1>5. CASE DenoLockStep
  <2> DEFINE f == files["deno.lock"]
  <2>1. Npm("deno.lock", DenoLock(f), {})
    BY <1>5 DEF DenoLockStep
  <2>2. Head(todo) = "deno.lock"
    BY <2>1 DEF Npm, Turn
  <2>3. f.ok => NpmFile("deno.lock", f)
    BY <2>2, NpmFileIs
  <2>4. f.ok => AreNamed(f.specifiers)
    BY <2>3 DEF NpmFile
  <2>5. "deno.lock" = "package.json" => DenoLock(f) = PackageJson(files["package.json"]) OBVIOUS
  <2> HIDE DEF f
  <2>6. IsNpm(DenoLock(f))
    BY <2>4, OtherNpmFiles
  <2>7. NpmAdds("deno.lock", DenoLock(f))
    BY <1>0, <2>1, <2>5, <2>6
  <2> QED BY <2>7
<1>6. CASE NpmLockStep
  <2>0. PICK l \in {"package-lock.json", "npm-shrinkwrap.json"} : Npm(l, NpmLockfile(l, files[l]), {})
    BY <1>6 DEF NpmLockStep
  <2> DEFINE f == files[l]
  <2>1. Npm(l, NpmLockfile(l, f), {})
    BY <2>0
  <2>2. Head(todo) = l
    BY <2>1 DEF Npm, Turn
  <2>3. f.ok => NpmFile(l, f)
    BY <2>2, NpmFileIs
  <2>4. f.ok => IsNpmLock(f)
    BY <2>3 DEF NpmFile
  <2> HIDE DEF f
  <2>6. IsNpm(NpmLockfile(l, f))
    BY <2>4, NpmLockfileIs
  <2>7. NpmAdds(l, NpmLockfile(l, f))
    BY <1>0, <2>1, <2>6
  <2> QED BY <2>7
<1>7. CASE DenoStep
  <2>0. PICK l \in {"deno.json", "deno.jsonc"} : Npm(l, DenoJson(l, files[l]), {})
    BY <1>7 DEF DenoStep
  <2> DEFINE f == files[l]
  <2>1. Npm(l, DenoJson(l, f), {})
    BY <2>0
  <2>2. Head(todo) = l
    BY <2>1 DEF Npm, Turn
  <2>3. f.ok => NpmFile(l, f)
    BY <2>2, NpmFileIs
  <2>4. f.ok => AreNamed(f.imports)
    BY <2>3 DEF NpmFile
  <2> HIDE DEF f
  <2>6. IsNpm(DenoJson(l, f))
    BY <2>4, OtherNpmFiles
  <2>7. NpmAdds(l, DenoJson(l, f))
    BY <1>0, <2>1, <2>6
  <2> QED BY <2>7
<1>8. CASE BunLockbStep
  <2>1. Npm("bun.lockb", BunLockb(files), {})
    BY <1>8 DEF BunLockbStep
  <2>2. IsNpm(BunLockb(files))
    BY OtherNpmFiles
  <2>3. NpmAdds("bun.lockb", BunLockb(files))
    BY <1>0, <2>1, <2>2
  <2> QED BY <2>3
<1>9. CASE NpmrcStep
  <2> DEFINE f == files[".npmrc"]
             r == NpmParsed(".npmrc", f, NpmNothing)
  <2>1. Npm(".npmrc", r, NpmrcFindings(f))
    BY <1>9 DEF NpmrcStep
  <2>2. IsNpm(r)
    BY OtherNpmFiles
  <2> HIDE DEF r
  <2>3. NpmAdds(".npmrc", r)
    BY <1>0, <2>1, <2>2
  <2> QED BY <2>3
<1> QED BY <1>1, <1>2, <1>3, <1>4, <1>5, <1>6, <1>7, <1>8, <1>9 DEF ReadsNpm, NpmStep

LEMMA NpmKeeps ==
  ASSUME Ahead(project, todo, raw, graph, notes), ReadsNpm
  PROVE  /\ Ahead(project', todo', raw', graph', notes')
         /\ UNCHANGED <<project, declared>>
<1>0. project.eco = "npm"
  BY DEF ReadsNpm, NpmStep, PackageJsonStep, NpmLockStep, YarnStep, PnpmStep, BunStep, BunLockbStep,
     DenoStep, DenoLockStep, NpmrcStep, Npm, Turn
<1>1. PICK st, r : NpmAdds(st, r)
  BY <1>0, NpmActions
<1>2. /\ Head(todo) = st /\ todo' = Tail(todo) /\ raw' = raw \o r.deps
      /\ notes' = notes \cup r.notes /\ UNCHANGED <<project, declared>> /\ graph' = graph
      /\ st # "deduplicate" /\ IsNpm(r)
      /\ st = "package.json" => r = PackageJson(files["package.json"])
  BY <1>1 DEF Added, NpmAdds
<1>3. IsLockGraph(graph)
  BY AheadIs DEF Gathered
<1>4. IsEntries(r.deps, NamesOf(project.eco))
  BY <1>0, <1>2 DEF IsNpm, NamesOf
<1>5. Fulfilled(project, st, r.deps, r.notes)
  BY <1>0, <1>2 DEF Fulfilled, files
<1>6. Ahead(project, Tail(todo), raw \o r.deps, graph, notes \cup r.notes)
  BY <1>0, <1>2, <1>3, <1>4, <1>5, Adding
<1> QED BY <1>2, <1>6

LEMMA Rewriting ==
  ASSUME NEW p, NEW t, NEW r, NEW g, NEW n, Ahead(p, t, r, g, n),
         NEW st, Head(t) = st, st # "deduplicate", p.eco \in {"go", "nuget"},
         NEW r2, IsEntries(r2, Path), p.eco = "nuget" => OneEach(r2),
         Names(r) \subseteq Names(r2) \/ st = Source(p.eco),
         NEW n2, st = Source(p.eco) => Fulfilled(p, st, r2, n2)
  PROVE  Ahead(p, Tail(t), r2, g, n2)
<1>1. t # <<>> /\ Gathered(p, r, g, n) /\ st \in Steps(p)
  BY AheadIs
<1>2. Gathered(p, r2, g, n2)
  BY <1>1 DEF Gathered, NamesOf
<1>3. \A x : x # Source(p.eco) => Fulfilled(p, x, r2, n2)
  BY DEF Fulfilled, Source
<1>4. Names(r) \subseteq Names(r2) => \A x : Fulfilled(p, x, r, n) => Fulfilled(p, x, r2, n2)
  <2>1. ASSUME Names(r) \subseteq Names(r2), NEW x, Fulfilled(p, x, r, n)
        PROVE  Fulfilled(p, x, r2, n2)
    BY <2>1 DEF Fulfilled
  <2> QED BY <2>1
<1>5. Fulfilled(p, st, r2, n2)
  BY <1>3
<1>6. \A x \in Steps(p) : x # st /\ Fulfilled(p, x, r, n) => Fulfilled(p, x, r2, n2)
  BY <1>3, <1>4
<1> QED BY <1>1, <1>2, <1>5, <1>6, Advance

LEMMA RewritesIs ==
  ASSUME NEW eco, NEW st, NEW new, NEW more, NEW rules, Rewrites(eco, st, new, more, rules)
  PROVE  /\ project.eco = eco /\ Head(todo) = st /\ todo' = Tail(todo) /\ raw' = new
         /\ notes' = notes \cup more /\ UNCHANGED <<project, graph, declared>>
BY DEF Rewrites, Turn

LEMMA GoModKeeps ==
  ASSUME Ahead(project, todo, raw, graph, notes), GoModStep
  PROVE  /\ Ahead(project', todo', raw', graph', notes')
         /\ UNCHANGED <<project, declared>>
<1> DEFINE f == files["go.mod"]
           r == GoMod(f)
           s == r.deps
<1>1. /\ project.eco = "go" /\ Head(todo) = "go.mod" /\ todo' = Tail(todo) /\ raw' = s
      /\ notes' = notes \cup r.notes /\ UNCHANGED <<project, graph, declared>>
  <2>1. Rewrites("go", "go.mod", r.deps, r.notes, GoModFindings(f))
    BY DEF GoModStep
  <2> HIDE DEF r, f
  <2> QED BY <2>1, RewritesIs
<1>2. IsProject(project) /\ "go.mod" \in Steps(project)
  BY <1>1, AheadIs
<1>3. "go.mod" \in DOMAIN files
  BY <1>2 DEF Steps, Present, files
<1>4. f.ok => GoFile("go.mod", f)
  BY <1>1, <1>2, <1>3 DEF IsProject, files
<1>5. f.ok => IsGoLines(f.lines)
  BY <1>4 DEF GoFile, IsList, IsGoLines, IsSeq, Path
<1>6. Fulfilled(project, "go.mod", s, notes \cup r.notes)
  BY <1>1 DEF Fulfilled, files
<1> HIDE DEF f
<1>7. IsEntries(s, Path)
  BY <1>5, GoModIs
<1> HIDE DEF s
<1> DEFINE n2 == notes \cup r.notes
<1>8. Fulfilled(project, "go.mod", s, n2)
  BY <1>6
<1> HIDE DEF n2
<1>9. "go.mod" = Source(project.eco)
  BY <1>1 DEF Source
<1>10. Ahead(project, Tail(todo), s, graph, n2)
  BY <1>1, <1>7, <1>8, <1>9, Rewriting
<1> QED BY <1>1, <1>10 DEF n2

LEMMA GoKeeps ==
  ASSUME Ahead(project, todo, raw, graph, notes), GoStep, ~ DeduplicateGoStep
  PROVE  /\ Ahead(project', todo', raw', graph', notes')
         /\ UNCHANGED <<project, declared>>
<1>0. ASSUME NEW st, NEW new, NEW more, NEW rules, Rewrites("go", st, new, more, rules),
             st # "deduplicate", IsEntries(new, Path), Names(new) = Names(raw), st # "go.mod"
      PROVE  /\ Ahead(project', todo', raw', graph', notes')
             /\ UNCHANGED <<project, declared>>
  <2>1. /\ project.eco = "go" /\ Head(todo) = st /\ todo' = Tail(todo) /\ raw' = new
        /\ notes' = notes \cup more /\ UNCHANGED <<project, graph, declared>>
    BY <1>0, RewritesIs
  <2>2. Names(raw) \subseteq Names(new) /\ st # Source(project.eco)
    BY <1>0, <2>1 DEF Source
  <2> DEFINE n2 == notes \cup more
  <2> HIDE DEF n2
  <2>3. Ahead(project, Tail(todo), new, graph, n2)
    BY <1>0, <2>1, <2>2, Rewriting
  <2> QED BY <2>1, <2>3 DEF n2
<1>1. CASE GoModStep
  BY <1>1, GoModKeeps
<1>2. IsEntries(raw, NamesOf(project.eco))
  BY AheadIs DEF Gathered
<1>3. CASE GoSumStep
  <2>1. project.eco = "go"
    BY <1>3 DEF GoSumStep, Rewrites, Turn
  <2>2. IsEntries(raw, Path)
    BY <1>2, <2>1 DEF NamesOf
  <2> DEFINE f == files["go.sum"]
  <2>3. Rewrites("go", "go.sum", GoSum(f, raw), IfBad("go.sum"), {})
    BY <1>3 DEF GoSumStep
  <2> HIDE DEF f
  <2>4. IsEntries(GoSum(f, raw), Path) /\ Names(GoSum(f, raw)) = Names(raw)
    BY <2>2, GoSumIs
  <2> QED BY <1>0, <2>3, <2>4
<1>4. CASE VendorStep
  <2>1. project.eco = "go"
    BY <1>4 DEF VendorStep, Rewrites, Turn
  <2>2. IsEntries(raw, Path)
    BY <1>2, <2>1 DEF NamesOf
  <2> DEFINE f == files["vendor/modules.txt"]
  <2>3. Rewrites("go", "vendor/modules.txt", Vendored(f, raw), VendorNotes(f, raw), {})
    BY <1>4 DEF VendorStep
  <2> HIDE DEF f
  <2>4. IsEntries(Vendored(f, raw), Path) /\ Names(Vendored(f, raw)) = Names(raw)
    BY <2>2, VendoredIs
  <2> QED BY <1>0, <2>3, <2>4
<1> QED BY <1>1, <1>3, <1>4 DEF GoStep

LEMMA ProjectsKeep ==
  ASSUME Ahead(project, todo, raw, graph, notes), ProjectsStep
  PROVE  /\ Ahead(project', todo', raw', graph', notes')
         /\ UNCHANGED <<project, declared>>
<1> DEFINE f == files["projects"]
           central == CentralVersions(files)
           r == ProjectFiles(f, central)
           s == r.deps
<1>1. /\ project.eco = "nuget" /\ Head(todo) = "projects" /\ todo' = Tail(todo) /\ raw' = s
      /\ notes' = notes \cup r.notes /\ UNCHANGED <<project, graph, declared>>
  <2>1. Rewrites("nuget", "projects", r.deps, r.notes, BuildFindings(f))
    BY DEF ProjectsStep
  <2> HIDE DEF r, f, central
  <2> QED BY <2>1, RewritesIs
<1>2. IsProject(project) /\ "projects" \in Steps(project)
  BY <1>1, AheadIs
<1>3. "projects" \in DOMAIN files
  BY <1>2 DEF Steps, Present, files
<1>4. NugetFile("projects", f)
  BY <1>1, <1>2, <1>3 DEF IsProject, files
<1>5. IsProjectList(f.found) /\ IsProjectList(f.listed)
  BY <1>4 DEF NugetFile
<1>6. OneEach(s) /\ \A x \in Range(ProjectsOf(f)) : x.ok => Pinned(x.references) \subseteq Names(s)
  <2> HIDE DEF f, central
  <2> QED BY <1>5, ProjectFilesAre
<1> DEFINE n2 == notes \cup r.notes
<1> HIDE DEF s, n2
<1>7. Fulfilled(project, "projects", s, n2)
  BY <1>1, <1>6 DEF Fulfilled, files
<1> HIDE DEF f, central, r
<1>8. IsEntries(s, Path)
  BY <1>6 DEF OneEach
<1>9. "projects" = Source(project.eco)
  BY <1>1 DEF Source
<1>10. Ahead(project, Tail(todo), s, graph, n2)
  BY <1>1, <1>6, <1>7, <1>8, <1>9, Rewriting
<1> QED BY <1>1, <1>10 DEF n2

LEMMA NugetKeeps ==
  ASSUME Ahead(project, todo, raw, graph, notes), NugetStep, ~ HandNuget
  PROVE  /\ Ahead(project', todo', raw', graph', notes')
         /\ UNCHANGED <<project, declared>>
<1>0. ASSUME NEW st, NEW new, NEW more, NEW rules, Rewrites("nuget", st, new, more, rules),
             st # "deduplicate", OneEach(new), Names(raw) \subseteq Names(new), st # "projects"
      PROVE  /\ Ahead(project', todo', raw', graph', notes')
             /\ UNCHANGED <<project, declared>>
  <2>1. /\ project.eco = "nuget" /\ Head(todo) = st /\ todo' = Tail(todo) /\ raw' = new
        /\ notes' = notes \cup more /\ UNCHANGED <<project, graph, declared>>
    BY <1>0, RewritesIs
  <2>2. IsEntries(new, Path) /\ st # Source(project.eco)
    BY <1>0, <2>1 DEF Source, OneEach
  <2> DEFINE n2 == notes \cup more
  <2> HIDE DEF n2
  <2>3. Ahead(project, Tail(todo), new, graph, n2)
    BY <1>0, <2>1, <2>2, Rewriting
  <2> QED BY <2>1, <2>3 DEF n2
<1>1. CASE ProjectsStep
  BY <1>1, ProjectsKeep
<1>2. project.eco = "nuget"
  BY DEF NugetStep, PropsStep, ProjectsStep, PackagesConfigStep, PackagesLockStep, NugetConfigStep,
     Rewrites, Turn
<1>3. OneEach(raw) /\ IsProject(project) /\ (Head(todo) # "deduplicate" => Head(todo) \in Steps(project))
  BY <1>2, AheadIs DEF Gathered
<1>4. ASSUME NEW st, Head(todo) = st, st \notin {"deduplicate", "test requirements", "environment.yml"}
      PROVE  files[st].ok => NugetFile(st, files[st])
  <2>1. st \in DOMAIN files
    BY <1>3, <1>4 DEF Steps, Present, files
  <2> QED BY <1>2, <1>3, <2>1 DEF IsProject, files
<1>5. CASE PropsStep
  <2>1. Rewrites("nuget", "Directory.Packages.props", raw, IfBad("Directory.Packages.props"), {})
    BY <1>5 DEF PropsStep
  <2> QED BY <1>0, <1>3, <2>1
<1>6. CASE NugetConfigStep
  <2> DEFINE rules == NugetConfigFindings(files["nuget.config"])
  <2>1. Rewrites("nuget", "nuget.config", raw, IfBad("nuget.config"), rules)
    BY <1>6 DEF NugetConfigStep
  <2> HIDE DEF rules
  <2> QED BY <1>0, <1>3, <2>1
<1>7. CASE PackagesConfigStep
  <2> DEFINE f == files["packages.config"]
  <2>1. Rewrites("nuget", "packages.config", PackagesConfig(f, raw), IfBad("packages.config"), {})
    BY <1>7 DEF PackagesConfigStep
  <2>2. Head(todo) = "packages.config"
    BY <2>1, RewritesIs
  <2>3. f.ok => NugetFile("packages.config", f)
    BY <1>4, <2>2
  <2>4. f.ok => AreNamed(f.packages)
    BY <2>3 DEF NugetFile
  <2> HIDE DEF f
  <2>5. OneEach(PackagesConfig(f, raw)) /\ Names(raw) \subseteq Names(PackagesConfig(f, raw))
    BY <1>3, <2>4, PackagesConfigIs
  <2> QED BY <1>0, <2>1, <2>5
<1>8. CASE PackagesLockStep
  <2> DEFINE f == files["packages.lock.json"]
  <2>1. Rewrites("nuget", "packages.lock.json", PackagesLock(f, raw), IfBad("packages.lock.json"), {})
    BY <1>8 DEF PackagesLockStep
  <2>2. Head(todo) = "packages.lock.json"
    BY <2>1, RewritesIs
  <2>3. f.ok => NugetFile("packages.lock.json", f)
    BY <1>4, <2>2
  <2>4. f.ok => AreNamed(f.packages)
    BY <2>3 DEF NugetFile
  <2> HIDE DEF f
  <2>5. OneEach(PackagesLock(f, raw)) /\ Names(raw) \subseteq Names(PackagesLock(f, raw))
    BY <1>3, <2>4, PackagesLockIs
  <2> QED BY <1>0, <2>1, <2>5
<1> QED BY <1>1, <1>5, <1>6, <1>7, <1>8 DEF NugetStep

LEMMA WithoutTestsIs ==
  ASSUME NEW r, NEW names, IsEntries(r, names)
  PROVE  /\ IsEntries(WithoutTests(r), names)
         /\ Range(WithoutTests(r)) = {e \in Range(r) : ~ IsTestScope(e.source)}
<1> DEFINE T == {i \in DOMAIN r : ~ IsTestScope(r[i].source)}
<1>1. WithoutTests(r) = Some(r, T)
  BY DEF WithoutTests, Only, Some
<1>2. IsSeq(r) /\ \A e \in Range(r) : IsEntry(e, names)
  BY DEF IsEntries
<1>3. T \cap DOMAIN r = T /\ \A i \in T : i \in DOMAIN r /\ ~ IsTestScope(r[i].source) OBVIOUS
<1>4. \A e \in Range(r) : ~ IsTestScope(e.source) => \E i \in T : e = r[i]
  BY DEF Range
<1> HIDE DEF T
<1>5. IsSeq(Some(r, T)) /\ Range(Some(r, T)) = {r[i] : i \in T \cap DOMAIN r}
  BY <1>2, SomeIs
<1>6. Range(Some(r, T)) = {e \in Range(r) : ~ IsTestScope(e.source)}
  BY <1>3, <1>4, <1>5 DEF Range
<1> QED BY <1>1, <1>2, <1>5, <1>6 DEF IsEntries

LEMMA WithoutDevIs ==
  ASSUME NEW r, NEW names, IsEntries(r, names)
  PROVE  /\ IsEntries(WithoutDev(r), names)
         /\ Range(WithoutDev(r)) = {e \in Range(r) : e.source.section # "devDependencies"}
<1> DEFINE T == {i \in DOMAIN r : r[i].source.section # "devDependencies"}
<1>1. WithoutDev(r) = Some(r, T)
  BY DEF WithoutDev, Only, Some
<1>2. IsSeq(r) /\ \A e \in Range(r) : IsEntry(e, names)
  BY DEF IsEntries
<1>3. T \cap DOMAIN r = T /\ \A i \in T : i \in DOMAIN r /\ r[i].source.section # "devDependencies"
  OBVIOUS
<1>4. \A e \in Range(r) : e.source.section # "devDependencies" => \E i \in T : e = r[i]
  BY DEF Range
<1> HIDE DEF T
<1>5. IsSeq(Some(r, T)) /\ Range(Some(r, T)) = {r[i] : i \in T \cap DOMAIN r}
  BY <1>2, SomeIs
<1>6. Range(Some(r, T)) = {e \in Range(r) : e.source.section # "devDependencies"}
  BY <1>3, <1>4, <1>5 DEF Range
<1> QED BY <1>1, <1>2, <1>5, <1>6 DEF IsEntries

LEMMA SourcesAre ==
  ASSUME NEW p, NEW r, IsEntries(r, NamesOf(p.eco))
  PROVE  IsEntries(Sources(p, r), NamesOf(p.eco))
BY WithoutTestsIs, WithoutDevIs DEF Sources

\* What a dependency keeps of its entry.
LEMMA OwnedSame ==
  ASSUME NEW eco, NEW seq, NEW i, NEW e, IsOwned(eco, seq, i, e), NEW d,
         d.name = e.name, d.version = e.version, d.source = e.source,
         eco = "pypi" => d.transitive = e.transitive
  PROVE  IsOwned(eco, seq, i, d)
BY DEF IsOwned

LEMMA SettledIs ==
  ASSUME NEW eco, NEW e, OneEach(e), NEW s, MadeOf(eco, e, s)
  PROVE  /\ IsSeq(s) /\ \A d \in Range(s) : IsDependency(d)
         /\ \A i, j \in DOMAIN s : s[i].name = s[j].name => i = j
         /\ eco # "pypi" => \A i \in DOMAIN s : ~ s[i].transitive
         /\ Names(s) = Names(e)
<1>1. /\ IsSeq(e) /\ \A x \in Range(e) : x.name \in Path
      /\ \A i, j \in DOMAIN e : e[i].name = e[j].name => i = j
  BY DEF OneEach, IsEntries, IsEntry
<1>0. s = [i \in DOMAIN e |-> s[i]] /\ DOMAIN s = DOMAIN e
  BY DEF MadeOf
<1>2. DOMAIN e = 1..Len(e) /\ Len(e) \in Nat
  BY <1>1, SeqFacts
<1>3. IsSeq(s)
  BY <1>0, <1>2, SeqFacts
<1>4. \A i \in DOMAIN e : e[i] \in Range(e)
  BY DEF Range
<1>5. \A d \in Range(s) : IsDependency(d)
  BY <1>0, <1>1, <1>2, <1>4 DEF Range, IsDependency, MadeOf
<1>6. Names(s) = Names(e)
  BY <1>0, <1>2 DEF Names, Range, MadeOf
<1> QED BY <1>0, <1>1, <1>2, <1>3, <1>5, <1>6 DEF MadeOf

LEMMA CompleteIs ==
  ASSUME NEW p, NEW t, NEW r, NEW g, NEW n, Ahead(p, t, r, g, n), Head(t) = "deduplicate",
         p.eco \in Ecosystems, NEW s, Settled(p, r, s),
         NEW m, p.eco = "pypi" => \A y \in m : y[1] \notin Cycles
  PROVE  Complete(p, r, g, n \cup m, s) /\ Tail(t) = <<"hand over">>
<1>1. /\ IsProject(p) /\ Gathered(p, r, g, n) /\ Tail(t) = <<"hand over">>
      /\ \A x \in Steps(p) : Fulfilled(p, x, r, n)
  BY AheadIs
<1> DEFINE n2 == n \cup m
<1>2. n \subseteq n2 /\ \A y \in n2 : y \in n \/ y \in m OBVIOUS
<1> HIDE DEF n2
<1>3. Gathered(p, r, g, n2)
  BY <1>1, <1>2 DEF Gathered
<1>4. \A x \in Steps(p) : Fulfilled(p, x, r, n2)
  BY <1>1, <1>2 DEF Fulfilled
<1>5. Complete(p, r, g, n2, s)
  BY <1>1, <1>3, <1>4 DEF Complete
<1> QED BY <1>1, <1>5 DEF n2

LEMMA DependencyPythonIs ==
  ASSUME NEW d, NEW all
  PROVE  /\ DependencyPython(d, all).name = d.name
         /\ DependencyPython(d, all).version = d.version
         /\ DependencyPython(d, all).source = d.source
         /\ DependencyPython(d, all).transitive = d.transitive
         /\ DependencyPython(d, all).status \in {"SAFE", "UNCERTAIN", "IN_USE"}
<1> DEFINE stub    == d.name \in DOMAIN StubOf
           runtime == IF stub THEN StubOf[d.name] ELSE NoName
           known   == runtime # NoName /\ \E x \in Range(all) : x.name = runtime
           s       == IF stub /\ known THEN "IN_USE" ELSE "UNCERTAIN"
<1>1. s \in {"SAFE", "UNCERTAIN", "IN_USE"} OBVIOUS
<1>2. DependencyPython(d, all) =
        [name |-> d.name, version |-> d.version, source |-> d.source,
         transitive |-> d.transitive, stub |-> stub, runtime |-> runtime, status |-> s]
  BY DEF DependencyPython
<1> HIDE DEF s, known, runtime, stub
<1> QED BY <1>1, <1>2

LEMMA DeduplicatesPython ==
  ASSUME Ahead(project, todo, raw, graph, notes), DeduplicatePythonStep
  PROVE  /\ Complete(project', raw', graph', notes', declared')
         /\ todo' = <<"hand over">> /\ UNCHANGED project
<1> DEFINE seq == IF project.excludeTests THEN WithoutTests(raw) ELSE raw
           d == DeduplicatePython(seq)
           s == [i \in DOMAIN d.deps |-> DependencyPython(d.deps[i], d.deps)]
<1>1. /\ project.eco = "pypi" /\ Head(todo) = "deduplicate" /\ declared' = s
      /\ notes' = notes \cup d.notes /\ todo' = Tail(todo) /\ UNCHANGED <<project, raw, graph>>
  BY DEF DeduplicatePythonStep, Turn
<1>2. IsEntries(raw, NamesOf(project.eco))
  BY AheadIs DEF Gathered
<1>3. seq = Sources(project, raw)
  BY <1>1 DEF Sources
<1> HIDE DEF seq
<1>4. IsEntries(seq, DOMAIN Normal)
  <2>1. IsEntries(Sources(project, raw), NamesOf(project.eco))
    BY <1>2, SourcesAre
  <2> QED BY <1>1, <1>3, <2>1 DEF NamesOf
<1>5. IsTableOf("pypi", seq, Len(seq), d)
  BY <1>4, DeduplicatePythonIs
<1> DEFINE e == d.deps
<1>6. Merged("pypi", seq, Len(seq), e) /\ \A y \in d.notes : y[1] \notin Cycles
  BY <1>5 DEF IsTableOf
<1>7. /\ s = [i \in DOMAIN e |-> s[i]]
      /\ \A i \in DOMAIN e : /\ s[i].name = e[i].name /\ s[i].version = e[i].version
                             /\ s[i].source = e[i].source
                             /\ s[i].status \in {"SAFE", "UNCERTAIN", "IN_USE"}
                             /\ s[i].transitive = e[i].transitive
  <2> HIDE DEF d
  <2>1. \A i \in DOMAIN e : s[i] = DependencyPython(e[i], e) OBVIOUS
  <2>2. s = [i \in DOMAIN e |-> s[i]] OBVIOUS
  <2> HIDE DEF s, e
  <2>3. ASSUME NEW i \in DOMAIN e
        PROVE  /\ s[i].name = e[i].name /\ s[i].version = e[i].version
               /\ s[i].source = e[i].source
               /\ s[i].status \in {"SAFE", "UNCERTAIN", "IN_USE"}
               /\ s[i].transitive = e[i].transitive
    BY <2>1, DependencyPythonIs
  <2> QED BY <2>2, <2>3
<1> HIDE DEF d
<1>8. OneEach(e) /\ Names(e) = {Called("pypi", seq[j]) : j \in 1..Len(seq)} \ Left("pypi")
      /\ \A i \in DOMAIN e : IsOwned("pypi", seq, Len(seq), e[i])
  BY <1>6 DEF Merged
<1> HIDE DEF s, e
<1>9. /\ IsSeq(s) /\ (\A x \in Range(s) : IsDependency(x))
      /\ (\A i, j \in DOMAIN s : s[i].name = s[j].name => i = j)
      /\ Names(s) = Names(e)
  <2>1. MadeOf("pypi", e, s)
    BY <1>7 DEF MadeOf
  <2> QED BY <1>8, <2>1, SettledIs
<1>10. \A i \in DOMAIN s : IsOwned("pypi", seq, Len(seq), s[i])
  <2> SUFFICES ASSUME NEW i \in DOMAIN e PROVE IsOwned("pypi", seq, Len(seq), s[i])
    BY <1>7
  <2>1. IsOwned("pypi", seq, Len(seq), e[i])
    BY <1>8
  <2>2. s[i].name = e[i].name /\ s[i].version = e[i].version /\ s[i].source = e[i].source
        /\ s[i].transitive = e[i].transitive
    BY <1>7
  <2> QED BY <2>1, <2>2, OwnedSame
<1>11. Settled(project, raw, s)
  BY <1>1, <1>3, <1>8, <1>9, <1>10 DEF Settled
<1>12. Complete(project, raw, graph, notes \cup d.notes, s) /\ Tail(todo) = <<"hand over">>
  BY <1>1, <1>6, <1>11, CompleteIs DEF Ecosystems
<1> QED BY <1>1, <1>12

LEMMA DeduplicatesNpm ==
  ASSUME Ahead(project, todo, raw, graph, notes), DeduplicateNpmStep
  PROVE  /\ Complete(project', raw', graph', notes', declared')
         /\ todo' = <<"hand over">> /\ UNCHANGED project
<1> DEFINE seq == IF project.excludeDev THEN WithoutDev(raw) ELSE raw
           d == DeduplicateNpm(seq)
           e == d.deps
           s == [i \in DOMAIN d.deps |->
                   DependencyNpm(d.deps[i], PinnedBy(NpmOverrides.out, d.deps[i].name))]
           m == d.notes \cup CapNotes(edges) \cup NpmOverrides.notes
<1>1. /\ project.eco = "npm" /\ Head(todo) = "deduplicate" /\ declared' = s
      /\ notes' = notes \cup m /\ todo' = Tail(todo) /\ UNCHANGED <<project, raw, graph>>
  BY DEF DeduplicateNpmStep, Turn
<1>2. IsEntries(raw, NamesOf(project.eco))
  BY AheadIs DEF Gathered
<1>3. seq = Sources(project, raw)
  BY <1>1 DEF Sources
<1> HIDE DEF seq
<1>4. IsEntries(seq, Path)
  <2>1. IsEntries(Sources(project, raw), NamesOf(project.eco))
    BY <1>2, SourcesAre
  <2> QED BY <1>1, <1>3, <2>1 DEF NamesOf
<1>5. IsTableOf("npm", seq, Len(seq), d)
  BY <1>4, DeduplicateNpmIs
<1>6. Merged("npm", seq, Len(seq), e)
  BY <1>5 DEF IsTableOf
<1>7. /\ s = [i \in DOMAIN e |-> s[i]]
      /\ \A i \in DOMAIN e : /\ s[i].name = e[i].name /\ s[i].version = e[i].version
                             /\ s[i].source = e[i].source
                             /\ s[i].status \in {"SAFE", "UNCERTAIN", "IN_USE"}
                             /\ ~ s[i].transitive
  <2> HIDE DEF d
  <2>1. \A i \in DOMAIN e : \E pin : s[i] = DependencyNpm(e[i], pin) OBVIOUS
  <2>2. s = [i \in DOMAIN e |-> s[i]] OBVIOUS
  <2> HIDE DEF s, e
  <2>3. ASSUME NEW i \in DOMAIN e
        PROVE  /\ s[i].name = e[i].name /\ s[i].version = e[i].version
               /\ s[i].source = e[i].source
               /\ s[i].status \in {"SAFE", "UNCERTAIN", "IN_USE"}
               /\ ~ s[i].transitive
    <3>1. PICK pin : s[i] = DependencyNpm(e[i], pin)
      BY <2>1
    <3> QED BY <3>1 DEF DependencyNpm
  <2> QED BY <2>2, <2>3
<1> HIDE DEF d, m
<1>8. OneEach(e) /\ Names(e) = {Called("npm", seq[j]) : j \in 1..Len(seq)} \ Left("npm")
      /\ \A i \in DOMAIN e : IsOwned("npm", seq, Len(seq), e[i])
  BY <1>6 DEF Merged
<1> HIDE DEF s, e
<1>9. /\ IsSeq(s) /\ (\A x \in Range(s) : IsDependency(x))
      /\ (\A i, j \in DOMAIN s : s[i].name = s[j].name => i = j)
      /\ (\A i \in DOMAIN s : ~ s[i].transitive)
      /\ Names(s) = Names(e)
  <2>1. MadeOf("npm", e, s)
    BY <1>7 DEF MadeOf
  <2> QED
    <3>1. /\ IsSeq(s) /\ \A x \in Range(s) : IsDependency(x)
          /\ \A i, j \in DOMAIN s : s[i].name = s[j].name => i = j
          /\ "npm" # "pypi" => \A i \in DOMAIN s : ~ s[i].transitive
          /\ Names(s) = Names(e)
      BY <1>8, <2>1, SettledIs
    <3> QED BY <3>1
<1>10. \A i \in DOMAIN s : IsOwned("npm", seq, Len(seq), s[i])
  <2> SUFFICES ASSUME NEW i \in DOMAIN e PROVE IsOwned("npm", seq, Len(seq), s[i])
    BY <1>7
  <2>1. IsOwned("npm", seq, Len(seq), e[i])
    BY <1>8
  <2>2. s[i].name = e[i].name /\ s[i].version = e[i].version /\ s[i].source = e[i].source
    BY <1>7
  <2> QED BY <2>1, <2>2, OwnedSame
<1>11. Settled(project, raw, s)
  BY <1>1, <1>3, <1>8, <1>9, <1>10 DEF Settled
<1>12. Complete(project, raw, graph, notes \cup m, s) /\ Tail(todo) = <<"hand over">>
  BY <1>1, <1>11, CompleteIs DEF Ecosystems
<1> QED BY <1>1, <1>12

LEMMA PlainIs ==
  ASSUME NEW eco \in {"go", "nuget"}, NEW e, OneEach(e)
  PROVE  /\ IsSeq(AllPlain(e)) /\ (\A x \in Range(AllPlain(e)) : IsDependency(x))
         /\ (\A i, j \in DOMAIN AllPlain(e) : AllPlain(e)[i].name = AllPlain(e)[j].name => i = j)
         /\ (\A i \in DOMAIN AllPlain(e) : ~ AllPlain(e)[i].transitive)
         /\ Names(AllPlain(e)) = Names(e)
<1> DEFINE s == AllPlain(e)
<1>1. s = [i \in DOMAIN e |-> s[i]] /\ \A i \in DOMAIN e : s[i] = DependencyPlain(e[i])
  BY DEF AllPlain
<1> HIDE DEF s
<1>2. MadeOf(eco, e, s)
  BY <1>1 DEF DependencyPlain, MadeOf
<1>3. /\ IsSeq(s) /\ \A d \in Range(s) : IsDependency(d)
      /\ \A i, j \in DOMAIN s : s[i].name = s[j].name => i = j
      /\ eco # "pypi" => \A i \in DOMAIN s : ~ s[i].transitive
      /\ Names(s) = Names(e)
  BY <1>2, SettledIs
<1> QED BY <1>3 DEF s

LEMMA HandsOn ==
  ASSUME Ahead(project, todo, raw, graph, notes), DeduplicateGoStep \/ HandNuget
  PROVE  /\ Complete(project', raw', graph', notes', declared')
         /\ todo' = <<"hand over">> /\ UNCHANGED project
<1> DEFINE e == IF project.eco = "go" THEN DeduplicateGo(raw).deps ELSE raw
<1>1. /\ project.eco \in {"go", "nuget"} /\ Head(todo) = "deduplicate" /\ declared' = AllPlain(e)
      /\ todo' = Tail(todo) /\ UNCHANGED <<project, raw, graph, notes>>
  BY DEF DeduplicateGoStep, HandNuget, Hands, Turn
<1>2. Gathered(project, raw, graph, notes)
  BY AheadIs
<1>3. OneEach(e) /\ Names(e) = Names(raw)
  <2>1. CASE project.eco = "go"
    <3>1. IsEntries(raw, Path)
      BY <1>2, <2>1 DEF Gathered, NamesOf
    <3>2. OneEach(DeduplicateGo(raw).deps) /\ Names(DeduplicateGo(raw).deps) = Names(raw)
      BY <3>1, DeduplicateGoIs
    <3> QED BY <2>1, <3>2
  <2>2. CASE project.eco = "nuget"
    BY <1>2, <2>2 DEF Gathered
  <2> QED BY <1>1, <2>1, <2>2
<1> HIDE DEF e
<1> DEFINE s == AllPlain(e)
<1>4. /\ IsSeq(s) /\ (\A x \in Range(s) : IsDependency(x))
      /\ (\A i, j \in DOMAIN s : s[i].name = s[j].name => i = j)
      /\ (\A i \in DOMAIN s : ~ s[i].transitive)
      /\ Names(s) = Names(e)
  BY <1>1, <1>3, PlainIs
<1> HIDE DEF s
<1>5. Settled(project, raw, s)
  BY <1>1, <1>3, <1>4 DEF Settled
<1>6. Complete(project, raw, graph, notes \cup {}, s) /\ Tail(todo) = <<"hand over">>
  BY <1>1, <1>5, CompleteIs DEF Ecosystems
<1>7. notes \cup {} = notes OBVIOUS
<1> QED BY <1>1, <1>6, <1>7 DEF s

LEMMA OrdersAre ==
  ASSUME NEW eco \in Ecosystems
  PROVE  IsSeq(Order[eco])
<1>1. \A a, b, c : <<a, b, c>> \in Seq({a, b, c}) OBVIOUS
<1>2. \A a, b, c, d, e : <<a, b, c, d, e>> \in Seq({a, b, c, d, e}) OBVIOUS
<1>3. \A a, b, c, d, e, f, g, h, i, j, l :
        <<a, b, c, d, e, f, g, h, i, j, l>> \in Seq({a, b, c, d, e, f, g, h, i, j, l})
  OBVIOUS
<1>4. IsSeq(Order.go)
  <2>1. \E X : Order.go \in Seq(X)
    BY <1>1 DEF Order
  <2> QED BY <2>1, SeqFacts
<1>5. IsSeq(Order.nuget)
  <2>1. \E X : Order.nuget \in Seq(X)
    BY <1>2 DEF Order
  <2> QED BY <2>1, SeqFacts
<1>6. IsSeq(Order.npm)
  <2>1. \E X : Order.npm \in Seq(X)
    BY <1>3 DEF Order
  <2> QED BY <2>1, SeqFacts
<1>7. IsSeq(Order.pypi)
  <2>1. \E X : Order.pypi \in Seq(X)
    BY <1>3 DEF Order
  <2> QED BY <2>1, SeqFacts
<1> QED BY <1>4, <1>5, <1>6, <1>7 DEF Ecosystems

LEMMA StartsAhead ==
  ASSUME NEW p, IsProject(p), p.eco \in Ecosystems, MInit(p)
  PROVE  Ahead(project, todo, raw, graph, notes)
<1> DEFINE o == Order[p.eco]
           T == {i \in DOMAIN o : Present(p.files, o[i])}
           s == Some(o, T)
<1>1. /\ project = p /\ raw = <<>> /\ graph = <<>> /\ notes = {}
      /\ todo = s \o End
  BY DEF MInit, Only, Some, End
<1>2. IsSeq(o)
  BY OrdersAre
<1>3. {o[i] : i \in T \cap DOMAIN o} = Steps(p)
  BY DEF Steps, Range
<1> HIDE DEF o, T
<1>4. IsSeq(s) /\ Range(s) = Steps(p)
  BY <1>2, <1>3, SomeIs
<1> HIDE DEF s
<1>5. IsEntries(<<>>, NamesOf(p.eco))
  BY NoEntries
<1>6. OneEach(<<>>)
  <2>1. IsEntries(<<>>, Path)
    BY NoEntries
  <2> QED BY <2>1 DEF OneEach
<1>7. IsLockGraph(<<>>)
  BY EmptyGraph
<1>8. Gathered(p, raw, graph, notes)
  BY <1>1, <1>5, <1>6, <1>7 DEF Gathered
<1>9. Collecting(p, s, raw, graph, notes)
  BY <1>4, <1>8 DEF Collecting
<1> QED BY <1>1, <1>9 DEF Ahead

LEMMA AInitIs == AInit => AInv
<1> SUFFICES ASSUME AInit PROVE AInv OBVIOUS
<1> DEFINE p == in.manifests
<1>1. in \in Scenarios /\ Init /\ MInit(p)
  BY DEF AInit, Init
<1>2. IsScenario(in) /\ HasParts(in) /\ p.eco = in.eco /\ IsProject(p)
  BY <1>1, ScenarioAssumption, ManifestAssumption DEF HasParts
<1>3. p.eco \in Ecosystems
  BY <1>2 DEF IsScenario, Ecosystems
<1> HIDE DEF p
<1>4. Ahead(project, todo, raw, graph, notes)
  BY <1>1, <1>2, <1>3, StartsAhead
<1>5. project = p
  BY <1>1 DEF MInit
<1>6. Fresh
  BY <1>1, <1>2, <1>5 DEF Fresh, Init
<1> QED BY <1>4, <1>6 DEF AInv, Collects

\* The graph that is handed over.
LEMMA TotalIs ==
  ASSUME NEW g, IsLockGraph(g), IsSeq(declared)
  PROVE  IsGraph(Total(g), {d.name : d \in Range(declared)})
<1>1. /\ IsFiniteSet(DOMAIN g)
      /\ \A n \in DOMAIN g : IsFiniteSet(g[n])
  BY DEF IsLockGraph
<1> DEFINE R == {g[n] : n \in DOMAIN g}
           N == {declared[i].name : i \in DOMAIN declared}
           D == DOMAIN g \cup (UNION R) \cup N
<1>2. IsFiniteSet(R)
  BY <1>1, ImageIsFinite
<1>3. \A S \in R : IsFiniteSet(S)
  BY <1>1
<1>4. IsFiniteSet(UNION R)
  BY <1>2, <1>3, FS_UNION
<1>5. IsFiniteSet(N)
  <2> DEFINE f == [i \in DOMAIN declared |-> declared[i].name]
  <2>1. IsFiniteSet(DOMAIN declared)
    BY RangeIsFinite
  <2>2. IsFiniteSet({f[i] : i \in DOMAIN declared})
    <3>1. DOMAIN declared \subseteq DOMAIN f OBVIOUS
    <3> HIDE DEF f
    <3> QED BY <2>1, <3>1, ImageIsFinite
  <2> QED BY <2>2
<1>6. Range(g) = R
  BY DEF Range
<1>7. Names0(g) = D
  <2>1. Names0(g) = DOMAIN g \cup (UNION Range(g)) \cup N
    BY DEF Names0
  <2> QED BY <1>6, <2>1
<1>8. \A n \in DOMAIN g : g[n] \subseteq D OBVIOUS
<1>9. N \subseteq D /\ DOMAIN g \subseteq D OBVIOUS
<1>10. {d.name : d \in Range(declared)} = N
  BY DEF Range
<1>11. IsFiniteSet(D)
  <2> HIDE DEF R, N
  <2>1. IsFiniteSet(DOMAIN g \cup (UNION R))
    BY <1>1, <1>4, FS_Union
  <2>2. IsFiniteSet((DOMAIN g \cup (UNION R)) \cup N)
    BY <1>5, <2>1, FS_Union
  <2> QED BY <2>2
<1> HIDE DEF R, N, D
<1> DEFINE t == Total(g)
<1>12. DOMAIN t = D /\ \A n \in D : t[n] = IF n \in DOMAIN g THEN g[n] ELSE {}
  BY <1>7 DEF Total
<1> HIDE DEF t
<1>13. \A n \in DOMAIN t : t[n] \subseteq DOMAIN t
  BY <1>8, <1>12
<1>14. IsGraph(t, N)
  BY <1>9, <1>11, <1>12, <1>13 DEF IsGraph
<1> QED BY <1>10, <1>14 DEF t

LEMMA HandOverKeeps ==
  ASSUME AInv, HandOver
  PROVE  AInv'
<1>1. /\ todo # <<>> /\ Head(todo) = "hand over" /\ todo' = <<>>
      /\ in' = [in EXCEPT !.deps = declared, !.graph = Total(graph), !.locked = DOMAIN graph # {}]
      /\ status' = [d \in DOMAIN declared |-> declared[d].status]
      /\ UNCHANGED <<project, raw, graph, notes, declared>>
      /\ UNCHANGED <<pc, k, facts, weak, promoted, matched, undeclared>>
  BY DEF HandOver, Turn
<1>2. Fresh
  BY <1>1 DEF AInv, Collects, AllRead, HandedOver
<1>3. project.eco \in Ecosystems
  BY <1>2 DEF Fresh, IsScenario, Ecosystems
<1>4. Complete(project, raw, graph, notes, declared)
  BY <1>1, <1>3, AheadIs DEF AInv, Collects, AllRead, HandedOver
<1>5. /\ in'.deps = declared /\ in'.graph = Total(graph) /\ in'.eco = in.eco /\ in'.mode = in.mode
      /\ in'.files = in.files /\ in'.commands = in.commands
  <2> DEFINE G == Total(graph)
             L == DOMAIN graph # {}
  <2>1. in' = [in EXCEPT !.deps = declared, !.graph = G, !.locked = L]
    BY <1>1
  <2> HIDE DEF G, L
  <2>2. HasParts(in)
    BY <1>2 DEF Fresh
  <2>3. in'.deps = declared /\ in'.graph = G /\ in'.eco = in.eco /\ in'.mode = in.mode
        /\ in'.files = in.files /\ in'.commands = in.commands
    BY <2>1, <2>2 DEF HasParts
  <2> QED BY <2>3 DEF G
<1>6. IsSeq(declared) /\ \A d \in Range(declared) : IsDependency(d)
  BY <1>4 DEF Complete, Settled
<1>7. IsGraph(Total(graph), {d.name : d \in Range(declared)})
  BY <1>4, <1>6, TotalIs DEF Complete, Gathered
<1>8. IsScenario(in')
  <2> DEFINE G == Total(graph)
             i == in'
  <2>1. i.deps = declared /\ i.graph = G /\ i.eco = in.eco /\ i.mode = in.mode
        /\ i.files = in.files /\ i.commands = in.commands
    BY <1>5
  <2>2. IsGraph(G, {d.name : d \in Range(declared)})
    BY <1>7
  <2>3. IsScenario(in)
    BY <1>2 DEF Fresh
  <2> HIDE DEF G, i
  <2>4. IsScenario(i)
    BY <1>6, <2>1, <2>2, <2>3 DEF IsScenario, IsSeq
  <2> QED BY <2>4 DEF i
<1>9. /\ pc' = "scan" /\ k' = 1 /\ facts' = NoFacts /\ weak' = NoFacts
      /\ promoted' = {} /\ matched' = {} /\ undeclared' = {}
  BY <1>1, <1>2 DEF Fresh
<1>10. IInv'
  <2>1. status' = [d \in DOMAIN in'.deps |-> in'.deps[d].status]
    BY <1>1, <1>5
  <2>2. IsScenario(in)' /\ pc' = "scan" /\ k' = 1 /\ promoted' = {} /\ matched' = {}
        /\ facts'.static = {}
    BY <1>8, <1>9 DEF NoFacts
  <2>3. status' \in [DOMAIN in'.deps -> Status]
    <3>1. \A d \in DOMAIN declared : declared[d].status \in Status
      BY <1>6 DEF IsDependency, Status, Range
    <3> QED BY <1>1, <1>5, <3>1
  <2>4. Types'
    BY <2>2, <2>3 DEF Types
  <2>5. \A i \in DOMAIN in'.files : ~ i < k'
    BY <1>8, <1>9 DEF IsScenario
  <2>6. ReadInv' /\ SourceInv'
    BY <2>2, <2>5 DEF ReadInv, SourceInv
  <2>7. \A d : ~ Judged(d)'
    BY <2>2 DEF Judged
  <2>8. InUseInv' /\ HintInv' /\ PromotedInv' /\ MatchedInv'
    BY <2>2, <2>7 DEF InUseInv, HintInv, PromotedInv, MatchedInv
  <2>9. ResolvedInv' /\ UndeclaredInv'
    BY <2>2 DEF ResolvedInv, UndeclaredInv
  <2> QED BY <2>4, <2>6, <2>8, <2>9 DEF IInv
<1>11. HandedOver'
  <2>1. Complete(project', raw', graph', notes', declared')
    BY <1>1, <1>4
  <2>2. todo' = <<>> /\ in'.deps = declared' /\ in'.eco = project'.eco
    BY <1>1, <1>2, <1>5 DEF Fresh
  <2> QED BY <1>10, <2>1, <2>2 DEF HandedOver
<1> QED BY <1>11 DEF AInv

LEMMA PythonTurn == PythonStep => todo # <<>> /\ Head(todo) # "hand over"
BY DEF PythonStep, RequirementsTxtStep, PyprojectStep, SetupPyStep, SetupCfgStep, PipfileStep,
   PipfileLockStep, PoetryLockStep, UvLockStep, TestRequirementsStep, EnvironmentStep,
   ContainersStep, DeduplicatePythonStep, Python, Turn

LEMMA NpmTurn == NpmStep => todo # <<>> /\ Head(todo) # "hand over"
BY DEF NpmStep, PackageJsonStep, NpmLockStep, YarnStep, PnpmStep, BunStep, BunLockbStep,
   DenoStep, DenoLockStep, NpmrcStep, DeduplicateNpmStep, Npm, Turn

LEMMA OtherTurn == GoStep \/ NugetStep => todo # <<>> /\ Head(todo) # "hand over"
BY DEF GoStep, GoModStep, GoSumStep, VendorStep, DeduplicateGoStep, NugetStep, PropsStep,
   ProjectsStep, PackagesConfigStep, PackagesLockStep, NugetConfigStep, HandNuget, Hands,
   Rewrites, Turn

LEMMA ReadManifestKeeps ==
  ASSUME AInv, ReadManifest
  PROVE  AInv'
<1>1. MStep /\ UNCHANGED vars
  BY DEF ReadManifest
<1>2. todo # <<>> /\ Head(todo) # "hand over"
  BY <1>1, PythonTurn, NpmTurn, OtherTurn DEF MStep
<1>3. Head(<<"hand over">>) = "hand over" OBVIOUS
<1>4. Fresh /\ Ahead(project, todo, raw, graph, notes)
  BY <1>2, <1>3 DEF AInv, Collects, AllRead, HandedOver
<1>5. ASSUME UNCHANGED project PROVE Fresh'
  BY <1>1, <1>4, <1>5 DEF Fresh, vars
<1>6. ASSUME Ahead(project', todo', raw', graph', notes'), UNCHANGED project
      PROVE  AInv'
  BY <1>5, <1>6 DEF AInv, Collects
<1>7. ASSUME Complete(project', raw', graph', notes', declared'), todo' = <<"hand over">>,
             UNCHANGED project
      PROVE  AInv'
  BY <1>5, <1>7 DEF AInv, AllRead
<1>8. CASE PythonStep
  <2>1. CASE ReadsPython
    BY <1>4, <1>6, <2>1, PythonKeeps
  <2>2. CASE DeduplicatePythonStep
    BY <1>4, <1>7, <2>2, DeduplicatesPython
  <2> QED BY <1>8, <2>1, <2>2 DEF ReadsPython
<1>9. CASE NpmStep
  <2>1. CASE ReadsNpm
    BY <1>4, <1>6, <2>1, NpmKeeps
  <2>2. CASE DeduplicateNpmStep
    BY <1>4, <1>7, <2>2, DeduplicatesNpm
  <2> QED BY <1>9, <2>1, <2>2 DEF ReadsNpm
<1>10. CASE GoStep
  <2>1. CASE DeduplicateGoStep
    BY <1>4, <1>7, <2>1, HandsOn
  <2>2. CASE ~ DeduplicateGoStep
    BY <1>4, <1>6, <1>10, <2>2, GoKeeps
  <2> QED BY <2>1, <2>2
<1>11. CASE NugetStep
  <2>1. CASE HandNuget
    BY <1>4, <1>7, <2>1, HandsOn
  <2>2. CASE ~ HandNuget
    BY <1>4, <1>6, <1>11, <2>2, NugetKeeps
  <2> QED BY <2>1, <2>2
<1> QED BY <1>1, <1>8, <1>9, <1>10, <1>11 DEF MStep

LEMMA NextKeepsIn == Next => UNCHANGED in
<1>1. Scan => UNCHANGED in
  BY DEF Scan, ScanPython, ScanNpm, ScanGo, ScanCsharp, Scanned, Scanning
<1>2. Classify => UNCHANGED in
  BY DEF Classify, ClassifyPython, ClassifyNpm, ClassifyGo, ClassifyCsharp, AllClassified, Classified
<1>3. Finish => UNCHANGED in
  BY DEF Finish, UpgradeCliTools, DowngradePython, DowngradeNpm, ResolveTransitives, Rest,
     UndeclaredPython, UndeclaredNpm, UndeclaredGo, UndeclaredCsharp, ReportUndeclared
<1>4. Returned => UNCHANGED in
  BY DEF Returned, vars
<1> QED BY <1>1, <1>2, <1>3, <1>4 DEF Next

LEMMA ReadSourcesKeeps ==
  ASSUME AInv, ReadSources
  PROVE  AInv'
<1>1. todo = <<>> /\ Next /\ UNCHANGED mvars
  BY DEF ReadSources
<1>2. todo # <<"hand over">>
  <2>1. <<"hand over">> # <<>> OBVIOUS
  <2> QED BY <1>1, <2>1
<1>3. HandedOver
  BY <1>1, <1>2, AheadIs DEF AInv, Collects, AllRead
<1>4. IInv' /\ UNCHANGED in
  BY <1>1, <1>3, StepInv, NextKeepsIn DEF HandedOver
<1>5. HandedOver'
  BY <1>1, <1>3, <1>4 DEF HandedOver, mvars
<1> QED BY <1>5 DEF AInv

LEMMA AStutterKeeps ==
  ASSUME AInv, UNCHANGED <<vars, mvars>>
  PROVE  AInv'
<1>1. CASE Collects
  BY <1>1 DEF AInv, Collects, Fresh, vars, mvars
<1>2. CASE AllRead
  BY <1>2 DEF AInv, AllRead, Fresh, vars, mvars
<1>3. CASE HandedOver
  <2>1. IInv'
    BY <1>3, StepInv DEF HandedOver
  <2> QED BY <1>3, <2>1 DEF AInv, HandedOver, vars, mvars
<1> QED BY <1>1, <1>2, <1>3 DEF AInv

\* The invariant of the whole analysis, whatever the project is: while the
\* dependency files are read, what the steps done so far had to add is there;
\* when they are read, the dependencies are what the entries are merged into;
\* then the invariant of the verdicts holds for the scenario made of them.
THEOREM AInvariant == ASpec => []AInv
<1>1. AInv /\ [ANext]_<<vars, mvars>> => AInv'
  BY ReadManifestKeeps, HandOverKeeps, ReadSourcesKeeps, AStutterKeeps DEF ANext
<1> QED BY <1>1, AInitIs, PTL DEF ASpec

-----------------------------------------------------------------------------
(* The invariant of the analysis and what follows from it. *)

\* Nothing is judged before the dependency files are read.
LEMMA JudgedLate == AInv => (pc = "scan" \/ IInv)
BY DEF AInv, Collects, AllRead, HandedOver, Fresh

\* All files are read.
LEMMA ReadAll ==
  ASSUME AInv, todo = <<>>
  PROVE  HandedOver
<1>1. <<"hand over">> # <<>> OBVIOUS
<1>2. todo # <<"hand over">>
  BY <1>1
<1> QED BY <1>2, AheadIs DEF AInv, Collects, AllRead

\* A dependency that a source file of the project names is never SAFE in the end,
\* wherever the dependency was declared.
THEOREM NoUseIsLostInAnalysis == ASpec => []UsedIsNotSafe
<1>1. AInv => UsedIsNotSafe
  BY JudgedLate, UseIsJudged DEF UsedIsNotSafe
<1> QED BY <1>1, AInvariant, PTL

\* A package of the lock file that ends as SAFE by the graph is below no
\* direct dependency that is in use.
THEOREM OrphansAreOrphansInAnalysis == ASpec => []OrphansAreUnreachable
<1>1. AInv => OrphansAreUnreachable
  BY JudgedLate, OrphansAreJudged DEF OrphansAreUnreachable
<1> QED BY <1>1, AInvariant, PTL

\* Every import of the project is the language's, declared or reported, and
\* nothing that is declared is reported.
THEOREM ImportsAreAccountedForInAnalysis == ASpec => []AccountedFor
<1>1. AInv => AccountedFor
  BY JudgedLate, ImportsAreJudged DEF AccountedFor
<1> QED BY <1>1, AInvariant, PTL

LEMMA StrengthIs ==
  ASSUME project.eco \in {"pypi", "npm"}
  PROVE  /\ \A from : Rank(from) = Strength(project.eco, from)
         /\ \A e : NameOf(e) = Called(project.eco, e)
         /\ Considered = Range(Sources(project, raw))
<1>1. \A from : Rank(from) = Strength(project.eco, from)
  BY DEF Rank, Strength
<1>2. \A e : NameOf(e) = Called(project.eco, e)
  BY DEF NameOf, Called
<1>3. Considered = Range(Sources(project, raw))
  <2>1. CASE project.eco = "pypi"
    BY <2>1 DEF Considered, Sources
  <2>2. CASE project.eco = "npm"
    BY <2>2 DEF Considered, Sources
  <2> QED BY <2>1, <2>2
<1> QED BY <1>1, <1>2, <1>3

\* Of the files that name a dependency the strongest gives its source, and its
\* version when the strongest agree, whatever the order of the files.
THEOREM StrongestOwns == ASpec => []StrongestSourceOwns
<1>1. AInv => StrongestSourceOwns
  <2> SUFFICES ASSUME AInv, todo = <<>>, project.eco \in {"pypi", "npm"},
                      NEW d \in DOMAIN in.deps,
                      NEW mine, mine = {e \in Considered : NameOf(e) = in.deps[d].name},
                      NEW best, best = {e \in mine : \A x \in mine : Rank(x.source) <= Rank(e.source)}
               PROVE  /\ \E e \in best : e.source = in.deps[d].source
                      /\ \A e \in best : e.version # None /\ (\A x \in best : x.version = e.version)
                                           => in.deps[d].version = e.version
    BY DEF StrongestSourceOwns
  <2> DEFINE eco == project.eco
             seq == Sources(project, raw)
             n   == Len(seq)
             D   == in.deps[d]
             M   == Mine(eco, seq, n, D.name)
             B   == Best(eco, seq, n, D.name)
  <2>1. HandedOver
    BY ReadAll
  <2>2. IsOwned(eco, seq, n, D)
    BY <2>1 DEF HandedOver, Complete, Settled
  <2>3. DOMAIN seq = 1..n
    <3>1. IsEntries(raw, NamesOf(project.eco))
      BY <2>1 DEF HandedOver, Complete, Gathered
    <3>2. IsEntries(seq, NamesOf(project.eco))
      BY <3>1, SourcesAre
    <3> HIDE DEF seq
    <3> QED BY <3>2, SeqFacts DEF IsEntries
  <2>4. /\ \A from : Rank(from) = Strength(eco, from)
        /\ \A e : NameOf(e) = Called(eco, e)
        /\ Considered = Range(seq)
    BY StrengthIs
  <2>5. M = {j \in 1..n : Called(eco, seq[j]) = D.name}
    BY DEF Mine
  <2>6. B = {j \in M : \A l \in M : Strength(eco, seq[l].source) <= Strength(eco, seq[j].source)}
    BY DEF Best
  <2>7. /\ \E j \in B : seq[j].source = D.source
        /\ \A j \in B : seq[j].version # None /\ (\A l \in B : seq[l].version = seq[j].version)
                          => D.version = seq[j].version
    BY <2>2 DEF IsOwned
  <2> HIDE DEF eco, seq, n, D, M, B
  <2>8. /\ \A j \in M : seq[j] \in mine
        /\ \A e \in mine : \E j \in M : e = seq[j]
    BY <2>3, <2>4, <2>5 DEF Range, D
  <2>9. \A j \in B : seq[j] \in best
    BY <2>4, <2>6, <2>8
  <2>10. \A j \in M : seq[j] \in best => j \in B
    BY <2>4, <2>6, <2>8
  <2>11. \E e \in best : e.source = D.source
    BY <2>7, <2>9
  <2>12. \A e \in best : \E j \in B : e = seq[j]
    BY <2>8, <2>10
  <2>13. \A e \in best : e.version # None /\ (\A x \in best : x.version = e.version)
                           => D.version = e.version
    BY <2>7, <2>9, <2>12
  <2> QED BY <2>11, <2>13 DEF D
<1> QED BY <1>1, AInvariant, PTL

-----------------------------------------------------------------------------
(* Walks in a graph that remember the way. *)

\* What is below a set is below what reaches the set.
LEMMA BelowGrows ==
  ASSUME NEW g, IsClosedGraph(g), NEW S \in SUBSET DOMAIN g, NEW T \in SUBSET DOMAIN g,
         S \subseteq Below(g, T)
  PROVE  Below(g, S) \subseteq Below(g, T)
<1>1. Below(g, T) \in SUBSET DOMAIN g /\ \A n \in Below(g, T) : g[n] \subseteq Below(g, T)
  BY BelowIsClosed DEF IsClosedGraph
<1> QED BY <1>1, BelowIsClosed DEF IsClosedGraph

\* A node and what is below its successors.
LEMMA BelowOne ==
  ASSUME NEW g, IsClosedGraph(g), NEW n \in DOMAIN g
  PROVE  /\ n \in Below(g, {n}) /\ Below(g, {n}) \subseteq DOMAIN g
         /\ \A m \in Below(g, {n}) : g[m] \subseteq Below(g, {n})
         /\ \A t \in g[n] : t \in DOMAIN g /\ Below(g, {t}) \subseteq Below(g, {n})
         /\ \A m \in Below(g, {n}) : m = n \/ \E t \in g[n] : m \in Below(g, {t})
<1>1. /\ n \in Below(g, {n}) /\ Below(g, {n}) \subseteq DOMAIN g
      /\ \A m \in Below(g, {n}) : g[m] \subseteq Below(g, {n})
  BY BelowIsClosed DEF IsClosedGraph
<1>2. \A t \in g[n] : t \in DOMAIN g /\ Below(g, {t}) \subseteq Below(g, {n})
  BY <1>1, BelowGrows DEF IsClosedGraph
<1> DEFINE Z == {n} \cup {m \in DOMAIN g : \E t \in g[n] : m \in Below(g, {t})}
<1>3. \A t \in DOMAIN g : /\ t \in Below(g, {t}) /\ Below(g, {t}) \subseteq DOMAIN g
                          /\ \A m \in Below(g, {t}) : g[m] \subseteq Below(g, {t})
  BY BelowIsClosed DEF IsClosedGraph
<1>4. Z \in SUBSET DOMAIN g /\ {n} \subseteq Z OBVIOUS
<1>5. ASSUME NEW m \in Z PROVE g[m] \subseteq Z
  <2>1. CASE m = n
    BY <1>2, <1>3, <2>1
  <2>2. CASE \E t \in g[n] : m \in Below(g, {t})
    BY <1>2, <1>3, <2>2
  <2> QED BY <2>1, <2>2
<1> HIDE DEF Z
<1>6. Below(g, {n}) \subseteq Z
  BY <1>4, <1>5, BelowIsClosed DEF IsClosedGraph
<1> QED BY <1>1, <1>2, <1>6 DEF Z

LEMMA BelowMany ==
  ASSUME NEW g, IsClosedGraph(g), NEW S \in SUBSET DOMAIN g
  PROVE  Unites(g, S)
<1>1. \A s \in S : Below(g, {s}) \subseteq Below(g, S)
  <2>1. S \subseteq Below(g, S)
    BY BelowIsClosed DEF IsClosedGraph
  <2> QED BY <2>1, BelowGrows
<1> DEFINE Z == {m \in DOMAIN g : \E s \in S : m \in Below(g, {s})}
<1>2. Z \in SUBSET DOMAIN g /\ S \subseteq Z /\ \A m \in Z : g[m] \subseteq Z
  BY BelowOne DEF IsClosedGraph
<1> HIDE DEF Z
<1>3. Below(g, S) \subseteq Z
  BY <1>2, BelowIsClosed DEF IsClosedGraph
<1> QED BY <1>1, <1>3 DEF Z, Unites

LEMMA OnCycleIs ==
  ASSUME NEW g, IsClosedGraph(g), NEW n \in DOMAIN g
  PROVE  OnCycle(g, n) <=> \E t \in g[n] : n \in Below(g, {t})
<1>1. g[n] \in SUBSET DOMAIN g
  BY DEF IsClosedGraph
<1> QED BY <1>1, BelowMany DEF OnCycle, Unites

\* What is met again is on a cycle.
LEMMA WalkMeetsCycle ==
  ASSUME NEW g, IsClosedGraph(g), NEW N \in Nat, NEW C, IsWalk(g, N, C),
         NEW n \in DOMAIN g, <<N, n, {}>> \in C
  PROVE  \E m \in Below(g, {n}) : OnCycle(g, m)
<1> DEFINE Way(A, x) == \A a \in A : x \in Below(g, g[a])
           Fine(l) == \A x \in DOMAIN g : \A A \in SUBSET DOMAIN g :
                        Way(A, x) /\ <<l, x, A>> \in C => \E m \in Below(g, {x}) : OnCycle(g, m)
           S == {l \in 0..N : Fine(l)}
<1>1. \A x \in DOMAIN g : \A A \in SUBSET DOMAIN g :
        x \in A /\ Way(A, x) => \E m \in Below(g, {x}) : OnCycle(g, m)
  BY BelowOne DEF OnCycle
<1>2. Fine(0)
  BY <1>1 DEF IsWalk
<1>3. ASSUME NEW l \in 1..N, Fine(l - 1)
      PROVE  Fine(l)
  <2> SUFFICES ASSUME NEW x \in DOMAIN g, NEW A \in SUBSET DOMAIN g, Way(A, x), <<l, x, A>> \in C
               PROVE  \E m \in Below(g, {x}) : OnCycle(g, m)
    OBVIOUS
  <2>1. CASE x \in A
    BY <1>1, <2>1
  <2>2. CASE x \notin A
    <3>1. l \in 0..N /\ l # 0 OBVIOUS
    <3>2. PICK t \in g[x] : <<l - 1, t, A \cup {x}>> \in C
      BY <2>2, <3>1 DEF IsWalk
    <3>3. t \in DOMAIN g /\ A \cup {x} \in SUBSET DOMAIN g
      BY <3>2 DEF IsClosedGraph
    <3>4. \A a \in A \cup {x} : t \in Below(g, g[a])
      <4>1. \A a \in DOMAIN g : /\ g[a] \subseteq Below(g, g[a])
                                /\ \A m \in Below(g, g[a]) : g[m] \subseteq Below(g, g[a])
        BY BelowIsClosed DEF IsClosedGraph
      <4> QED BY <3>2, <4>1
    <3> DEFINE B == A \cup {x}
    <3>5. B \in SUBSET DOMAIN g /\ Way(B, t) /\ <<l - 1, t, B>> \in C
      BY <3>2, <3>3, <3>4
    <3> HIDE DEF B, Way
    <3>6. \E m \in Below(g, {t}) : OnCycle(g, m)
      BY <1>3, <3>3, <3>5
    <3> QED BY <3>2, <3>6, BelowOne
  <2> QED BY <2>1, <2>2
<1>4. \A l \in 0..N : l \in S
  <2>1. 0 \in S
    BY <1>2
  <2>2. \A i \in 1..N : i - 1 \in S => i \in S
    <3> HIDE DEF Fine
    <3> QED BY <1>3
  <2> HIDE DEF S
  <2> QED BY <2>1, <2>2, UpTo
<1>5. Way({}, n) /\ {} \in SUBSET DOMAIN g /\ N \in 0..N OBVIOUS
<1>6. Fine(N)
  BY <1>4, <1>5
<1> HIDE DEF Way
<1> QED BY <1>5, <1>6

\* One element less.
LEMMA OneLess ==
  ASSUME NEW S, IsFiniteSet(S), NEW T \in SUBSET S, NEW x \in S, x \notin T, NEW l \in Nat,
         l # 0, Cardinality(S) <= l
  PROVE  IsFiniteSet(T) /\ Cardinality(T) <= l - 1
<1>1. IsFiniteSet(S \ {x}) /\ Cardinality(S \ {x}) = Cardinality(S) - 1
  BY FS_RemoveElement
<1>2. IsFiniteSet(T) /\ Cardinality(T) <= Cardinality(S \ {x})
  BY <1>1, FS_Subset
<1>3. Cardinality(S) \in Nat /\ Cardinality(T) \in Nat
  BY <1>2, FS_CardinalityType
<1> QED BY <1>1, <1>2, <1>3

\* A cycle is met when the length suffices for all that is below.
LEMMA CycleIsMet ==
  ASSUME NEW g, IsClosedGraph(g), NEW N \in Nat, NEW C, IsWalk(g, N, C),
         NEW n \in DOMAIN g, Cardinality(Below(g, {n})) <= N, <<N, n, {}>> \notin C
  PROVE  \A m \in Below(g, {n}) : ~ OnCycle(g, m)
<1> DEFINE Free(x, A) == Below(g, {x}) \ A
           Fine(l) == \A x \in DOMAIN g : \A A \in SUBSET DOMAIN g :
                        Cardinality(Free(x, A)) <= l /\ <<l, x, A>> \notin C
                          => \A m \in Below(g, {x}) : ~ OnCycle(g, m)
           S == {l \in 0..N : Fine(l)}
<1>1. \A x \in DOMAIN g : \A A \in SUBSET DOMAIN g :
        x \in Below(g, {x}) /\ IsFiniteSet(Free(x, A)) /\ Cardinality(Free(x, A)) \in Nat
  <2>1. \A x \in DOMAIN g : x \in Below(g, {x}) /\ Below(g, {x}) \subseteq DOMAIN g
    BY BelowOne
  <2> QED BY <2>1, FS_Subset, FS_CardinalityType DEF IsClosedGraph
<1>2. Fine(0)
  <2> SUFFICES ASSUME NEW x \in DOMAIN g, NEW A \in SUBSET DOMAIN g,
                      Cardinality(Free(x, A)) <= 0, <<0, x, A>> \notin C
               PROVE  FALSE
    OBVIOUS
  <2>1. x \notin A
    BY DEF IsWalk
  <2>2. x \in Free(x, A)
    BY <1>1, <2>1
  <2>3. IsFiniteSet(Free(x, A)) /\ Cardinality(Free(x, A)) \in Nat
    BY <1>1
  <2> HIDE DEF Free
  <2>4. Cardinality(Free(x, A)) # 0
    BY <2>2, <2>3, FS_EmptySet
  <2> QED BY <2>3, <2>4
<1>3. ASSUME NEW l \in 1..N, Fine(l - 1)
      PROVE  Fine(l)
  <2> SUFFICES ASSUME NEW x \in DOMAIN g, NEW A \in SUBSET DOMAIN g,
                      Cardinality(Free(x, A)) <= l, <<l, x, A>> \notin C,
                      NEW m \in Below(g, {x}), OnCycle(g, m)
               PROVE  FALSE
    OBVIOUS
  <2>1. l \in 0..N /\ l # 0 /\ l \in Nat /\ x \notin A
    BY DEF IsWalk
  <2>2. \A t \in g[x] : <<l - 1, t, A \cup {x}>> \notin C
    BY <2>1 DEF IsWalk
  <2>3. ASSUME NEW t \in g[x] PROVE \A y \in Below(g, {t}) : ~ OnCycle(g, y)
    <3> DEFINE B == A \cup {x}
    <3>1. t \in DOMAIN g /\ B \in SUBSET DOMAIN g /\ Below(g, {t}) \subseteq Below(g, {x})
      BY BelowOne
    <3>2. Free(t, B) \in SUBSET Free(x, A) /\ x \in Free(x, A) /\ x \notin Free(t, B)
      BY <1>1, <2>1, <3>1
    <3>3. IsFiniteSet(Free(x, A))
      BY <1>1
    <3>4. <<l - 1, t, B>> \notin C
      BY <2>2
    <3> HIDE DEF Free, B
    <3>5. Cardinality(Free(t, B)) <= l - 1
      BY <2>1, <3>2, <3>3, OneLess
    <3> QED BY <1>3, <3>1, <3>4, <3>5
  <2>4. m \notin Below(g, {x}) \ {x}
    BY <2>3, BelowOne
  <2>5. m = x /\ \E t \in g[x] : x \in Below(g, {t})
    BY <2>4, OnCycleIs
  <2> QED BY <2>3, <2>5
<1>4. \A l \in 0..N : l \in S
  <2>1. 0 \in S
    BY <1>2
  <2>2. \A i \in 1..N : i - 1 \in S => i \in S
    <3> HIDE DEF Fine
    <3> QED BY <1>3
  <2> HIDE DEF S
  <2> QED BY <2>1, <2>2, UpTo
<1>5. Free(n, {}) = Below(g, {n}) /\ {} \in SUBSET DOMAIN g /\ N \in 0..N OBVIOUS
<1>6. Fine(N)
  BY <1>4, <1>5
<1>7. Cardinality(Free(n, {})) <= N
  BY <1>5
<1> HIDE DEF Free
<1> QED BY <1>5, <1>6, <1>7

\* Walks from several starts find a cycle exactly when there is one.
LEMMA WalksAre ==
  ASSUME NEW g, IsClosedGraph(g), NEW starts \in SUBSET DOMAIN g,
         NEW N \in Nat, NEW C, IsWalk(g, N, C)
  PROVE  /\ (\E s \in starts : <<N, s, {}>> \in C) => Cyclic(g, starts)
         /\ (\A s \in starts : Cardinality(Below(g, {s})) <= N) /\ Cyclic(g, starts)
              => \E s \in starts : <<N, s, {}>> \in C
<1>1. Cyclic(g, starts) <=> \E m \in Below(g, starts) : OnCycle(g, m)
  BY DEF Cyclic, OnCycle
<1>2. ASSUME NEW s \in starts, <<N, s, {}>> \in C PROVE Cyclic(g, starts)
  <2>1. \E m \in Below(g, {s}) : OnCycle(g, m)
    BY <1>2, WalkMeetsCycle
  <2> QED BY <1>1, <2>1, BelowMany DEF Unites
<1>3. ASSUME \A s \in starts : Cardinality(Below(g, {s})) <= N, Cyclic(g, starts),
             \A s \in starts : <<N, s, {}>> \notin C
      PROVE  FALSE
  <2>1. PICK m \in Below(g, starts) : OnCycle(g, m)
    BY <1>1, <1>3
  <2>2. PICK s \in starts : m \in Below(g, {s})
    BY BelowMany DEF Unites
  <2>3. s \in DOMAIN g /\ Cardinality(Below(g, {s})) <= N /\ <<N, s, {}>> \notin C
    BY <1>3
  <2> QED BY <2>1, <2>2, <2>3, CycleIsMet
<1> QED BY <1>2, <1>3

\* As long as the walks are long enough.
LEMMA WalksAreExact ==
  ASSUME NEW g, IsClosedGraph(g), NEW starts \in SUBSET DOMAIN g, Shallow(g, starts),
         NEW N \in Nat, MaxDepth <= N, NEW C, IsWalk(g, N, C)
  PROVE  Cyclic(g, starts) <=> \E s \in starts : <<N, s, {}>> \in C
<1>1. \A s \in starts : Below(g, {s}) \subseteq DOMAIN g
  BY BelowOne
<1>2. \A s \in starts : Cardinality(Below(g, {s})) \in Nat
  BY <1>1, FS_Subset, FS_CardinalityType DEF IsClosedGraph
<1>3. \A s \in starts : Cardinality(Below(g, {s})) <= N
  <2>1. \A c \in Nat : c <= MaxDepth => c <= N
    BY CapAssumption
  <2> QED BY <1>2, <2>1 DEF Shallow
<1> QED BY <1>3, WalksAre

\* It meets all that is below its start.
LEMMA SurveyCovers ==
  ASSUME NEW g, IsClosedGraph(g), NEW N \in Nat, NEW D, NEW v, IsSurvey(g, N, D, v),
         NEW n \in DOMAIN g, <<N, n, {}>> \notin D
  PROVE  Below(g, {n}) \subseteq v[<<N, n, {}>>]
<1> DEFINE Part(W, A) == \A m \in W : g[m] \subseteq W \cup A
           Met(l, x, A, W) == W \subseteq v[<<l, x, A>>] /\ x \in W \cup A /\ Part(W, A)
           Fine(l) == \A x \in DOMAIN g : \A A \in SUBSET DOMAIN g :
                        <<l, x, A>> \notin D => \E W \in SUBSET DOMAIN g : Met(l, x, A, W)
           S == {l \in 0..N : Fine(l)}
<1>1. \A l \in 0..N : \A x \in DOMAIN g : \A A \in SUBSET DOMAIN g : x \in A => Met(l, x, A, {})
  OBVIOUS
<1>2. Fine(0)
  <2> SUFFICES ASSUME NEW x \in DOMAIN g, NEW A \in SUBSET DOMAIN g, <<0, x, A>> \notin D
               PROVE  Met(0, x, A, {})
    OBVIOUS
  <2>1. x \in A
    BY DEF IsSurvey
  <2> QED BY <2>1
<1>3. ASSUME NEW l \in 1..N, Fine(l - 1)
      PROVE  Fine(l)
  <2> SUFFICES ASSUME NEW x \in DOMAIN g, NEW A \in SUBSET DOMAIN g, <<l, x, A>> \notin D
               PROVE  \E W \in SUBSET DOMAIN g : Met(l, x, A, W)
    OBVIOUS
  <2>1. CASE x \in A
    BY <1>1, <2>1
  <2>2. CASE x \notin A
    <3> DEFINE B == A \cup {x}
               P == {W \in SUBSET DOMAIN g : \E t \in g[x] : Met(l - 1, t, B, W)}
               V == {x} \cup {m \in DOMAIN g : \E W \in P : m \in W}
    <3>1. l \in 0..N /\ l # 0 /\ B \in SUBSET DOMAIN g OBVIOUS
    <3>2. x \in v[<<l, x, A>>]
      BY <2>2, <3>1 DEF IsSurvey
    <3>3. \A t \in g[x] : /\ t \in DOMAIN g /\ <<l - 1, t, B>> \notin D
                          /\ v[<<l - 1, t, B>>] \subseteq v[<<l, x, A>>]
      BY <2>2, <3>1 DEF IsSurvey, IsClosedGraph
    <3>4. \A t \in g[x] : \E W \in P : t \in W \cup B
      <4> SUFFICES ASSUME NEW t \in g[x] PROVE \E W \in P : t \in W \cup B OBVIOUS
      <4>1. \E W \in SUBSET DOMAIN g : Met(l - 1, t, B, W)
        <5> HIDE DEF Met, B
        <5> QED BY <1>3, <3>1, <3>3
      <4> QED BY <4>1
    <3>5. \A W \in P : W \subseteq v[<<l, x, A>>] /\ Part(W, B)
      BY <3>3
    <3>6. V \in SUBSET DOMAIN g /\ x \in V /\ \A W \in P : W \subseteq V OBVIOUS
    <3>7. \A m \in V : m = x \/ \E W \in P : m \in W OBVIOUS
    <3> HIDE DEF P, V
    <3>8. V \subseteq v[<<l, x, A>>]
      BY <3>2, <3>5, <3>7
    <3>9. ASSUME NEW m \in V PROVE g[m] \subseteq V \cup A
      <4>1. CASE m = x
        BY <3>4, <3>6, <4>1
      <4>2. ASSUME NEW W \in P, m \in W PROVE g[m] \subseteq V \cup A
        BY <3>5, <3>6, <4>2
      <4> QED BY <3>7, <4>1, <4>2
    <3> QED BY <3>6, <3>8, <3>9
  <2> QED BY <2>1, <2>2
<1>4. \A l \in 0..N : l \in S
  <2>1. 0 \in S
    BY <1>2
  <2>2. \A i \in 1..N : i - 1 \in S => i \in S
    <3> HIDE DEF Fine
    <3> QED BY <1>3
  <2> HIDE DEF S
  <2> QED BY <2>1, <2>2, UpTo
<1>5. {} \in SUBSET DOMAIN g /\ N \in 0..N OBVIOUS
<1>6. Fine(N)
  BY <1>4, <1>5
<1>7. PICK W \in SUBSET DOMAIN g : Met(N, n, {}, W)
  <2> HIDE DEF Met
  <2> QED BY <1>5, <1>6
<1>8. /\ W \subseteq v[<<N, n, {}>>] /\ {n} \subseteq W
      /\ \A m \in W : g[m] \subseteq W
  BY <1>7
<1>9. Below(g, {n}) \subseteq W
  BY <1>8, BelowIsClosed DEF IsClosedGraph
<1> QED BY <1>8, <1>9

-----------------------------------------------------------------------------
(* Requirements files that include one another. *)

LEMMA IncludeGraphIs ==
  ASSUME NEW x, RequirementsAreLists(x), IsFiniteSet(DOMAIN x)
  PROVE  /\ IsClosedGraph(IncludeGraph(x)) /\ DOMAIN IncludeGraph(x) = DOMAIN x
         /\ \A n \in DOMAIN x : \A t \in IncludeGraph(x)[n] :
              /\ n \in Requirementlike(x) /\ t \in DOMAIN x
              /\ x[t].ok => t \in Requirementlike(x)
              /\ \E l \in Range(x[n].lines) : l.kind = "include" /\ l.target = t
         /\ \A n \in Requirementlike(x) : \A l \in Range(x[n].lines) :
              l.kind = "include" /\ l.target \in DOMAIN x => l.target \in IncludeGraph(x)[n]
<1>1. Requirementlike(x) \subseteq DOMAIN x
  BY DEF Requirementlike
<1>2. DOMAIN IncludeGraph(x) = DOMAIN x
  BY DEF IncludeGraph
<1>3. \A n \in DOMAIN x : \A t \in IncludeGraph(x)[n] :
        /\ n \in Requirementlike(x) /\ t \in DOMAIN x
        /\ \E l \in Range(x[n].lines) : l.kind = "include" /\ l.target = t
  BY DEF IncludeGraph
<1>4. \A n \in Requirementlike(x) : \A l \in Range(x[n].lines) :
        l.kind = "include" /\ l.target \in DOMAIN x => l.target \in IncludeGraph(x)[n]
  BY <1>1 DEF IncludeGraph
<1>5. \A n \in DOMAIN x : \A t \in IncludeGraph(x)[n] : x[t].ok => t \in Requirementlike(x)
  BY <1>3 DEF RequirementsAreLists
<1> QED BY <1>2, <1>3, <1>4, <1>5 DEF IsClosedGraph

\* A file that can be read, by the files that it includes.
LEMMA RequirementsLevel ==
  ASSUME NEW x, RequirementsAreLists(x), IsFiniteSet(DOMAIN x), NEW read,
         IsLevels("requirements", x, Visits(DOMAIN x), MaxDepth + 1, read),
         NEW l \in 1..(MaxDepth + 1), NEW n \in Requirementlike(x), NEW A \in SUBSET DOMAIN x, n \notin A
  PROVE  /\ \A t \in IncludeGraph(x)[n] :
              /\ read[l - 1][<<t, A \cup {n}>>].notes \subseteq read[l][<<n, A>>].notes
              /\ \A m, f : Gives(read[l - 1][<<t, A \cup {n}>>], m, f) => Gives(read[l][<<n, A>>], m, f)
         /\ Tells(read[l][<<n, A>>], "cycle") =>
              \E t \in IncludeGraph(x)[n] : Tells(read[l - 1][<<t, A \cup {n}>>], "cycle")
         /\ \A i \in NameItems(x[n].lines) : Gives(read[l][<<n, A>>], i, Of("requirements.txt"))
<1> DEFINE deeper == read[l - 1]
           B == A \cup {n}
           L == x[n].lines
           R == [i \in DOMAIN L |-> LineGives(x, deeper, n, A, L[i])]
           r == read[l][<<n, A>>]
           K == {"cycle"}
<1>0. MaxDepth \in Nat
  BY CapAssumption
<1>1. n \in DOMAIN x /\ x[n].ok /\ l # 0 /\ l \in 0..(MaxDepth + 1) /\ l - 1 \in 0..(MaxDepth + 1)
      /\ B \in SUBSET DOMAIN x
  BY <1>0 DEF Requirementlike
<1>2. IsSeq(L) /\ \A i \in Range(L) : IsItem(i)
  BY DEF RequirementsAreLists, IsItems, IsList, IsSeq
<1>3. r = All(R)
  <2>1. r = RequirementsFile(x, deeper, l, n, A)
    BY <1>1, RequirementsAre
  <2>2. RequirementsFile(x, deeper, l, n, A) = LinesGive(x, deeper, n, A)
    BY <1>1, RequirementsRead
  <2>3. LinesGive(x, deeper, n, A) = All(R)
    BY DEF LinesGive
  <2> QED BY <2>1, <2>2, <2>3
<1>4. \A t \in IncludeGraph(x)[n] : IsPy(deeper[<<t, B>>], K)
  <2> SUFFICES ASSUME NEW t \in IncludeGraph(x)[n] PROVE IsPy(deeper[<<t, B>>], K) OBVIOUS
  <2>1. t \in DOMAIN x /\ (x[t].ok => t \in Requirementlike(x))
    BY <1>1, IncludeGraphIs
  <2> HIDE DEF B
  <2> QED BY <1>1, <2>1, RequirementsAre
\* A line is followed, or tells of no cycle.
<1>5. ASSUME NEW i \in Range(L)
      PROVE  \/ /\ i.kind = "include" /\ i.target \in IncludeGraph(x)[n]
                /\ LineGives(x, deeper, n, A, i) = deeper[<<i.target, B>>]
             \/ ~ (i.kind = "include" /\ i.target \in DOMAIN x) /\ IsPy(LineGives(x, deeper, n, A, i), {})
  <2>1. \A y \in {"escape", "not found"} : \A z : IsPy(Noted(<<y, z>>), {})
    <3> SUFFICES ASSUME NEW y \in {"escape", "not found"}, NEW z PROVE IsPy(Noted(<<y, z>>), {})
      OBVIOUS
    <3>1. <<y, z>>[1] = y /\ y \notin Cycles
      BY DEF Cycles
    <3> QED BY <3>1, SmallResults DEF IsPy
  <2>2. Outside \notin DOMAIN x
    BY DEF RequirementsAreLists
  <2>3. CASE i.kind # "include"
    BY <1>2, <2>3, Pep508Is DEF LineGives
  <2>4. CASE i.kind = "include" /\ i.target = Outside
    BY <2>1, <2>2, <2>4 DEF LineGives
  <2>5. CASE i.kind = "include" /\ i.target \notin DOMAIN x \cup {Outside}
    <3>1. LineGives(x, deeper, n, A, i) = Noted(<<"not found", n>>)
      BY <2>5 DEF LineGives
    <3> QED BY <2>1, <2>5, <3>1
  <2>6. CASE i.kind = "include" /\ i.target \in DOMAIN x
    <3>1. LineGives(x, deeper, n, A, i) = deeper[<<i.target, B>>]
      BY <2>2, <2>6 DEF LineGives
    <3> QED BY <2>6, <3>1, IncludeGraphIs
  <2> QED BY <2>3, <2>4, <2>5, <2>6
<1>6. \A i \in DOMAIN L : IsResult(R[i], DOMAIN Normal, K)
  <2> SUFFICES ASSUME NEW i \in DOMAIN L PROVE IsPy(R[i], K)
    BY DEF IsPy
  <2>1. L[i] \in Range(L) /\ R[i] = LineGives(x, deeper, n, A, L[i])
    BY SeqFacts
  <2>2. {} \subseteq K OBVIOUS
  <2> HIDE DEF R, deeper, B, L
  <2>3. CASE IsPy(R[i], {})
    BY <2>2, <2>3, MoreKinds
  <2>4. CASE L[i].target \in IncludeGraph(x)[n] /\ R[i] = deeper[<<L[i].target, B>>]
    BY <1>4, <2>4
  <2> QED BY <1>5, <2>1, <2>3, <2>4
<1>7. R = [i \in DOMAIN L |-> R[i]] /\ \A i \in DOMAIN L : R[i] = LineGives(x, deeper, n, A, L[i])
  OBVIOUS
<1>8. \A i \in DOMAIN L : L[i] \in Range(L)
  BY SeqFacts
<1>9. \A i \in Range(L) : \E j \in DOMAIN L : L[j] = i
  BY SeqFacts
<1> HIDE DEF R
<1>10. /\ \A i \in DOMAIN L : /\ \A m, f : Gives(R[i], m, f) => Gives(All(R), m, f)
                              /\ R[i].notes \subseteq All(R).notes
       /\ \A y \in All(R).notes : \E i \in DOMAIN L : y \in R[i].notes
  <2> HIDE DEF L
  <2> QED BY <1>2, <1>6, <1>7, AllIs
<1> HIDE DEF L, r, deeper, B
<1>11. \A t \in IncludeGraph(x)[n] : \E j \in DOMAIN L : R[j] = deeper[<<t, B>>]
  <2> SUFFICES ASSUME NEW t \in IncludeGraph(x)[n] PROVE \E j \in DOMAIN L : R[j] = deeper[<<t, B>>]
    OBVIOUS
  <2>1. PICK i \in Range(L) : i.kind = "include" /\ i.target = t
    BY <1>1, IncludeGraphIs DEF L
  <2>2. t \in DOMAIN x
    BY <1>1, IncludeGraphIs
  <2>3. LineGives(x, deeper, n, A, i) = deeper[<<t, B>>]
    BY <1>5, <2>1, <2>2
  <2> QED BY <1>7, <1>9, <2>3
<1>12. \A t \in IncludeGraph(x)[n] : /\ deeper[<<t, B>>].notes \subseteq r.notes
                                     /\ \A m, f : Gives(deeper[<<t, B>>], m, f) => Gives(r, m, f)
  BY <1>3, <1>10, <1>11
<1>13. ASSUME Tells(r, "cycle") PROVE \E t \in IncludeGraph(x)[n] : Tells(deeper[<<t, B>>], "cycle")
  <2>1. PICK y \in r.notes : y[1] = "cycle"
    BY <1>13 DEF Tells
  <2>2. PICK i \in DOMAIN L : y \in R[i].notes
    BY <1>3, <1>10, <2>1
  <2>3. ~ IsPy(R[i], {})
    BY <2>1, <2>2, Weaker DEF Cycles
  <2>4. L[i].target \in IncludeGraph(x)[n] /\ R[i] = deeper[<<L[i].target, B>>]
    BY <1>5, <1>7, <1>8, <2>3
  <2> QED BY <2>1, <2>2, <2>4 DEF Tells
<1>14. \A i \in NameItems(L) : Gives(r, i, Of("requirements.txt"))
  <2> SUFFICES ASSUME NEW i \in Range(L), i.kind = "name" PROVE Gives(r, i.name, Of("requirements.txt"))
    BY DEF NameItems
  <2>1. LineGives(x, deeper, n, A, i) = Pep508(i, Of("requirements.txt"))
    BY DEF LineGives
  <2>2. Gives(Pep508(i, Of("requirements.txt")), i.name, Of("requirements.txt"))
    BY <1>2, Pep508Is
  <2> QED BY <1>3, <1>7, <1>9, <1>10, <2>1, <2>2
<1> QED BY <1>12, <1>13, <1>14 DEF L, r, deeper, B

LEMMA NotedTells ==
  ASSUME NEW w, NEW z, NEW kind
  PROVE  Tells(Noted(<<w, z>>), kind) <=> w = kind
<1>1. <<w, z>>[1] = w /\ Noted(<<w, z>>).notes = {<<w, z>>}
  BY DEF Noted
<1> QED BY <1>1 DEF Tells

\* Where a walk ends.
LEMMA RequirementsEnd ==
  ASSUME NEW x, RequirementsAreLists(x), NEW read,
         IsLevels("requirements", x, Visits(DOMAIN x), MaxDepth + 1, read),
         NEW n \in DOMAIN x, NEW A \in SUBSET DOMAIN x, n \notin A
  PROVE  ~ Tells(read[0][<<n, A>>], "cycle") /\ Tells(read[0][<<n, A>>], "depth")
<1>1. 0 \in 0..(MaxDepth + 1)
  BY CapAssumption
<1>2. read[0][<<n, A>>] = RequirementsFile(x, read[0 - 1], 0, n, A)
  BY <1>1, RequirementsAre
<1>3. read[0][<<n, A>>] = Noted(<<"depth", n>>)
  BY <1>2, RequirementsTooDeep
<1> QED BY <1>3, NotedTells

LEMMA PlaceIs ==
  ASSUME NEW n, NEW X, NEW l \in 0..n, NEW m \in X, NEW A \in SUBSET X
  PROVE  /\ <<l, m, A>> \in Places(n, X)
         /\ <<l, m, A>>[1] = l /\ <<l, m, A>>[2] = m /\ <<l, m, A>>[3] = A
BY DEF Places

\* Includes that lead back are noted, when nothing is too deep.
LEMMA RequirementsCycles ==
  ASSUME NEW x, RequirementsAreLists(x), IsFiniteSet(DOMAIN x),
         NEW starts \in SUBSET DOMAIN x, \A s \in starts : x[s].ok => s \in Requirementlike(x),
         Shallow(IncludeGraph(x), starts)
  PROVE  Cyclic(IncludeGraph(x), starts) <=>
           \E s \in starts : Tells(Requirements(x, s), "cycle")
<1> DEFINE g == IncludeGraph(x)
           N == MaxDepth + 1
<1>0. N \in Nat /\ MaxDepth \in Nat /\ N \in 0..N /\ MaxDepth <= N /\ N # 0
  BY CapAssumption
<1>1. IsClosedGraph(g) /\ DOMAIN g = DOMAIN x
  BY IncludeGraphIs
<1>2. PICK read : /\ IsLevels("requirements", x, Visits(DOMAIN x), N, read)
                  /\ \A start : Requirements(x, start) = read[N][<<start, {}>>]
  BY RequirementsUnfold
<1>9. \A l \in 0..N : \A n \in DOMAIN x : \A A \in SUBSET DOMAIN x :
        read[l][<<n, A>>] = RequirementsFile(x, read[l - 1], l, n, A)
  <2> HIDE DEF g
  <2>1. IsLevels("requirements", x, Visits(DOMAIN x), MaxDepth + 1, read)
    BY <1>2
  <2>2. \A l \in 0..(MaxDepth + 1) : \A n \in DOMAIN x : \A A \in SUBSET DOMAIN x :
          read[l][<<n, A>>] = RequirementsFile(x, read[l - 1], l, n, A)
    BY <2>1, RequirementsAre
  <2> QED BY <2>2
<1> DEFINE Noticed(l, n, A) ==
             n \in A \/ (n \in Requirementlike(x) /\ Tells(read[l][<<n, A>>], "cycle"))
           C == {p \in Places(N, DOMAIN x) : Noticed(p[1], p[2], p[3])}
<1>3. \A l \in 0..N : \A n \in DOMAIN x : \A A \in SUBSET DOMAIN x :
        <<l, n, A>> \in C <=> Noticed(l, n, A)
  <2> HIDE DEF Noticed, N
  <2> QED BY PlaceIs
<1> HIDE DEF C
<1>4. IsWalk(g, N, C)
  <2> SUFFICES ASSUME NEW l \in 0..N, NEW n \in DOMAIN x, NEW A \in SUBSET DOMAIN x
               PROVE  /\ n \in A => <<l, n, A>> \in C
                      /\ n \notin A /\ l = 0 => <<l, n, A>> \notin C
                      /\ n \notin A /\ l # 0 =>
                           (<<l, n, A>> \in C <=> \E t \in g[n] : <<l - 1, t, A \cup {n}>> \in C)
    BY <1>1 DEF IsWalk
  <2>1. n \in A => <<l, n, A>> \in C
    BY <1>3
  <2>2. n \notin A /\ l = 0 => <<l, n, A>> \notin C
    <3>1. n \notin A => ~ Tells(read[0][<<n, A>>], "cycle")
      <4> HIDE DEF g
      <4> QED BY <1>2, RequirementsEnd
    <3> QED BY <1>0, <1>3, <3>1
  <2>3. ASSUME n \notin A, l # 0
        PROVE  <<l, n, A>> \in C <=> \E t \in g[n] : <<l - 1, t, A \cup {n}>> \in C
    <3> DEFINE B == A \cup {n}
               m == l - 1
    <3>1. /\ <<l, n, A>> \in C <=> n \in Requirementlike(x) /\ Tells(read[l][<<n, A>>], "cycle")
          /\ m \in 0..N /\ l \in 1..N /\ B \in SUBSET DOMAIN x
      BY <1>0, <1>3, <2>3
    <3>2. \A t \in g[n] : /\ n \in Requirementlike(x) /\ t \in DOMAIN x
                          /\ x[t].ok => t \in Requirementlike(x)
      BY IncludeGraphIs
    <3>3. \A t \in g[n] : Tells(read[m][<<t, B>>], "cycle") => <<m, t, B>> \in C
      <4> SUFFICES ASSUME NEW t \in g[n], Tells(read[m][<<t, B>>], "cycle"), t \notin B
                   PROVE  t \in Requirementlike(x)
        BY <1>3, <3>1, <3>2
      <4>1. read[m][<<t, B>>] = RequirementsFile(x, read[m - 1], m, t, B)
        BY <1>9, <3>1, <3>2
      <4>2. ASSUME ~ x[t].ok PROVE FALSE
        <5>1. \/ read[m][<<t, B>>] = Noted(<<"depth", t>>)
              \/ read[m][<<t, B>>] = Noted(<<"unreadable", t>>)
          BY <4>1, <4>2, RequirementsTooDeep, RequirementsRead
        <5> QED BY <5>1, NotedTells
      <4> QED BY <3>2, <4>2
    <3>4. \A t \in g[n] : t \in B => Tells(read[m][<<t, B>>], "cycle")
      <4> SUFFICES ASSUME NEW t \in g[n], t \in B PROVE Tells(read[m][<<t, B>>], "cycle") OBVIOUS
      <4>1. read[m][<<t, B>>] = RequirementsFile(x, read[m - 1], m, t, B)
        BY <1>9, <3>1, <3>2
      <4>2. read[m][<<t, B>>] = Noted(<<"cycle", t>>)
        BY <4>1, RequirementsMetAgain
      <4> QED BY <4>2, NotedTells
    <3>5. \A t \in g[n] : <<m, t, B>> \in C <=> Tells(read[m][<<t, B>>], "cycle")
      BY <1>3, <3>1, <3>2, <3>3, <3>4
    <3>6. ASSUME n \in Requirementlike(x)
          PROVE  Tells(read[l][<<n, A>>], "cycle") <=> \E t \in g[n] : Tells(read[m][<<t, B>>], "cycle")
      <4>1. /\ \A t \in g[n] : read[m][<<t, B>>].notes \subseteq read[l][<<n, A>>].notes
            /\ Tells(read[l][<<n, A>>], "cycle") => \E t \in g[n] : Tells(read[m][<<t, B>>], "cycle")
        BY <1>2, <2>3, <3>1, <3>6, RequirementsLevel
      <4> QED BY <4>1 DEF Tells
    <3> QED BY <3>1, <3>2, <3>5, <3>6
  <2> QED BY <2>1, <2>2, <2>3
<1>5. \A s \in starts : <<N, s, {}>> \in C <=> Tells(Requirements(x, s), "cycle")
  <2> SUFFICES ASSUME NEW s \in starts
               PROVE  Tells(read[N][<<s, {}>>], "cycle") => s \in Requirementlike(x)
    BY <1>0, <1>2, <1>3
  <2>1. read[N][<<s, {}>>] = RequirementsFile(x, read[N - 1], N, s, {})
    BY <1>0, <1>9
  <2>2. ASSUME ~ x[s].ok PROVE ~ Tells(read[N][<<s, {}>>], "cycle")
    <3>1. read[N][<<s, {}>>] = Noted(<<"unreadable", s>>)
      BY <1>0, <2>1, <2>2, RequirementsRead
    <3> QED BY <3>1, NotedTells
  <2> QED BY <2>2
<1> HIDE DEF N, g
<1>6. starts \in SUBSET DOMAIN g /\ Shallow(g, starts)
  BY <1>1 DEF g
<1>7. Cyclic(g, starts) <=> \E s \in starts : <<N, s, {}>> \in C
  BY <1>0, <1>1, <1>4, <1>6, WalksAreExact
<1> QED BY <1>5, <1>7 DEF g

\* Everything that can be read on the way gives its names, when nothing is too
\* deep.
LEMMA RequirementsCover ==
  ASSUME NEW x, RequirementsAreLists(x), IsFiniteSet(DOMAIN x),
         NEW start \in DOMAIN x, ~ Tells(Requirements(x, start), "depth"),
         NEW n \in Below(IncludeGraph(x), {start}), n \in Requirementlike(x),
         NEW i \in NameItems(x[n].lines)
  PROVE  Gives(Requirements(x, start), i, Of("requirements.txt"))
<1> DEFINE g == IncludeGraph(x)
           N == MaxDepth + 1
<1>0. N \in Nat /\ N \in 0..N /\ N # 0
  BY CapAssumption
<1>1. IsClosedGraph(g) /\ DOMAIN g = DOMAIN x
  BY IncludeGraphIs
<1>2. PICK read : /\ IsLevels("requirements", x, Visits(DOMAIN x), N, read)
                  /\ \A s : Requirements(x, s) = read[N][<<s, {}>>]
  BY RequirementsUnfold
<1> DEFINE TooDeep(l, m, A) ==
             m \notin A /\ (l = 0 \/ (m \in Requirementlike(x) /\ Tells(read[l][<<m, A>>], "depth")))
           Given(r) == {m \in DOMAIN x : m \in Requirementlike(x) =>
                          \A y \in NameItems(x[m].lines) : Gives(r, y, Of("requirements.txt"))}
           D == {p \in Places(N, DOMAIN x) : TooDeep(p[1], p[2], p[3])}
           v == [p \in Places(N, DOMAIN x) |-> Given(read[p[1]][<<p[2], p[3]>>])]
<1>3. \A l \in 0..N : \A m \in DOMAIN x : \A A \in SUBSET DOMAIN x :
        /\ <<l, m, A>> \in D <=> TooDeep(l, m, A)
        /\ v[<<l, m, A>>] = Given(read[l][<<m, A>>])
  <2> SUFFICES ASSUME NEW l \in 0..N, NEW m \in DOMAIN x, NEW A \in SUBSET DOMAIN x
               PROVE  /\ <<l, m, A>> \in D <=> TooDeep(l, m, A)
                      /\ v[<<l, m, A>>] = Given(read[l][<<m, A>>])
    OBVIOUS
  <2> HIDE DEF TooDeep, Given, N
  <2>1. /\ <<l, m, A>> \in Places(N, DOMAIN x)
        /\ <<l, m, A>>[1] = l /\ <<l, m, A>>[2] = m /\ <<l, m, A>>[3] = A
    BY PlaceIs
  <2> QED BY <2>1
<1> HIDE DEF D, v
<1>4. IsSurvey(g, N, D, v)
  <2> SUFFICES ASSUME NEW l \in 0..N, NEW m \in DOMAIN x, NEW A \in SUBSET DOMAIN x, m \notin A
               PROVE  /\ l = 0 => <<l, m, A>> \in D
                      /\ l # 0 =>
                           /\ m \in v[<<l, m, A>>]
                           /\ \A t \in g[m] : /\ <<l - 1, t, A \cup {m}>> \in D => <<l, m, A>> \in D
                                              /\ v[<<l - 1, t, A \cup {m}>>] \subseteq v[<<l, m, A>>]
    BY <1>1 DEF IsSurvey
  <2>1. l = 0 => <<l, m, A>> \in D
    BY <1>3
  <2>2. ASSUME l # 0
        PROVE  /\ m \in v[<<l, m, A>>]
               /\ \A t \in g[m] : /\ <<l - 1, t, A \cup {m}>> \in D => <<l, m, A>> \in D
                                  /\ v[<<l - 1, t, A \cup {m}>>] \subseteq v[<<l, m, A>>]
    <3> DEFINE B == A \cup {m}
               k1 == l - 1
    <3>1. k1 \in 0..N /\ l \in 1..N /\ B \in SUBSET DOMAIN x
      BY <1>0, <2>2
    <3>2. \A t \in g[m] : m \in Requirementlike(x) /\ t \in DOMAIN x
      BY IncludeGraphIs
    <3>3. m \in Requirementlike(x) =>
            /\ \A t \in g[m] :
                 /\ read[k1][<<t, B>>].notes \subseteq read[l][<<m, A>>].notes
                 /\ \A a, f : Gives(read[k1][<<t, B>>], a, f) => Gives(read[l][<<m, A>>], a, f)
            /\ \A y \in NameItems(x[m].lines) : Gives(read[l][<<m, A>>], y, Of("requirements.txt"))
      BY <1>2, <2>2, <3>1, RequirementsLevel
    <3>4. v[<<l, m, A>>] = Given(read[l][<<m, A>>])
      BY <1>3
    <3>5. m \in v[<<l, m, A>>]
      BY <3>3, <3>4
    <3>6. ASSUME NEW t \in g[m]
          PROVE  v[<<k1, t, B>>] \subseteq v[<<l, m, A>>]
      <4>1. v[<<k1, t, B>>] = Given(read[k1][<<t, B>>])
        <5> HIDE DEF Given, TooDeep, B, k1
        <5> QED BY <1>3, <3>1, <3>2
      <4> QED BY <3>2, <3>3, <3>4, <4>1
    <3>7. ASSUME NEW t \in g[m], <<k1, t, B>> \in D
          PROVE  <<l, m, A>> \in D
      <4>1. TooDeep(k1, t, B)
        BY <1>3, <3>1, <3>2, <3>7
      <4>2. Tells(read[k1][<<t, B>>], "depth")
        <5>1. CASE k1 = 0
          BY <1>2, <3>1, <3>2, <4>1, <5>1, RequirementsEnd
        <5> QED BY <4>1, <5>1
      <4>3. Tells(read[l][<<m, A>>], "depth")
        BY <3>2, <3>3, <4>2 DEF Tells
      <4> QED BY <1>3, <3>2, <4>3
    <3> QED BY <3>5, <3>6, <3>7
  <2> QED BY <2>1, <2>2
<1>8. /\ <<N, start, {}>> \in D <=> TooDeep(N, start, {})
      /\ v[<<N, start, {}>>] = Given(read[N][<<start, {}>>])
  <2> HIDE DEF TooDeep, Given, N
  <2> QED BY <1>0, <1>3
<1>5. <<N, start, {}>> \notin D
  <2>1. read[N][<<start, {}>>] = Requirements(x, start)
    BY <1>2
  <2> QED BY <1>0, <1>8, <2>1
<1>6. v[<<N, start, {}>>] = Given(Requirements(x, start))
  BY <1>2, <1>8
<1>7. Below(g, {start}) \subseteq v[<<N, start, {}>>]
  <2> HIDE DEF N, g
  <2> QED BY <1>0, <1>1, <1>4, <1>5, SurveyCovers
<1> QED BY <1>6, <1>7

-----------------------------------------------------------------------------
(* Nothing that is declared is lost. *)

\* The files of a project that are steps of their own.
LEMMA StepsAre ==
  ASSUME NEW p, NEW st
  PROVE  /\ p.eco = "pypi" /\ st \in Declaring /\ Present(p.files, st) => st \in Steps(p)
         /\ p.eco = "npm" /\ st = "package.json" /\ st \in DOMAIN p.files => st \in Steps(p)
         /\ p.eco = "go" /\ st = "go.mod" /\ st \in DOMAIN p.files => st \in Steps(p)
         /\ p.eco = "nuget" /\ st = "projects" /\ st \in DOMAIN p.files => st \in Steps(p)
<1>1. p.eco = "pypi" /\ st \in Declaring => st \in Range(Order[p.eco])
  BY OrderIs DEF Declaring
<1>2. p.eco = "npm" /\ st = "package.json" => st \in Range(Order[p.eco])
  BY OrderIs
<1>3. p.eco = "go" /\ st = "go.mod" => st \in Range(Order[p.eco])
  BY OrderIs
<1>4. p.eco = "nuget" /\ st = "projects" => st \in Range(Order[p.eco])
  BY OrderIs
<1>5. st \notin {"test requirements", "environment.yml"} => (Present(p.files, st) <=> st \in DOMAIN p.files)
  BY DEF Present
<1> QED BY <1>1, <1>2, <1>3, <1>4, <1>5 DEF Steps

\* A direct entry of Python that no option drops.
LEMMA PythonIsAnswered ==
  ASSUME HandedOver, project.eco = "pypi", NEW st \in Steps(project),
         NEW m, NEW from, Gives(PythonGives(files, st), m, from),
         project.excludeTests => ~ IsTestScope(from), Normal[m] \notin Stdlib
  PROVE  Answered(Normal[m])
<1> DEFINE seq == Sources(project, raw)
           n == Normal[m]
<1>1. /\ Complete(project, raw, graph, notes, declared) /\ in.deps = declared
      /\ IsEntries(raw, NamesOf(project.eco))
  BY DEF HandedOver, Complete, Gathered
<1>2. PICK e \in Range(raw) : e.name = m /\ e.source = from /\ ~ e.transitive
  <2>1. Fulfilled(project, st, raw, notes)
    BY <1>1 DEF Complete
  <2>2. Range(PythonGives(files, st).deps) \subseteq Range(raw)
    BY <2>1 DEF Fulfilled, files
  <2> QED BY <2>2 DEF Gives
<1>3. e \in Range(seq)
  <2>1. project.excludeTests => seq = WithoutTests(raw)
    BY DEF Sources
  <2>2. ~ project.excludeTests => seq = raw
    BY DEF Sources
  <2> HIDE DEF seq
  <2> QED BY <1>1, <1>2, <2>1, <2>2, WithoutTestsIs
<1>4. IsEntries(seq, NamesOf(project.eco))
  BY <1>1, SourcesAre
<1>5. Settled(project, raw, declared)
  BY <1>1 DEF Complete
<1>6. /\ \A i, j \in DOMAIN declared : declared[i].name = declared[j].name => i = j
      /\ \A i \in DOMAIN declared : IsOwned("pypi", seq, Len(seq), declared[i])
      /\ Names(declared) = {Called("pypi", seq[j]) : j \in 1..Len(seq)} \ Left("pypi")
  BY <1>5 DEF Settled
<1> HIDE DEF seq
<1>7. PICK j \in 1..Len(seq) : seq[j] = e
  BY <1>3, <1>4, SeqFacts DEF IsEntries
<1>8. Called("pypi", e) = n /\ n \notin Left("pypi")
  BY <1>2 DEF Called, Left
<1> HIDE DEF n
<1>9. n \in Names(declared)
  BY <1>6, <1>7, <1>8
<1>10. PICK d \in DOMAIN declared : declared[d].name = n
  BY <1>9 DEF Names, Range
<1>11. j \in Mine("pypi", seq, Len(seq), n)
  BY <1>7, <1>8 DEF Mine
<1>12. ~ declared[d].transitive
  BY <1>2, <1>6, <1>7, <1>10, <1>11 DEF IsOwned
<1> QED BY <1>1, <1>6, <1>10, <1>12 DEF Answered, n

\* A name of the other ecosystems, where every dependency is direct.
LEMMA NameIsAnswered ==
  ASSUME HandedOver, project.eco # "pypi", NEW n \in Names(declared)
  PROVE  Answered(n)
<1>1. Settled(project, raw, declared) /\ in.deps = declared
  BY DEF HandedOver, Complete
<1>2. /\ \A i, j \in DOMAIN declared : declared[i].name = declared[j].name => i = j
      /\ \A i \in DOMAIN declared : ~ declared[i].transitive
  BY <1>1 DEF Settled
<1>3. PICK d \in DOMAIN declared : declared[d].name = n
  BY DEF Names, Range
<1> QED BY <1>1, <1>2, <1>3 DEF Answered

LEMMA NpmIsAnswered ==
  ASSUME HandedOver, project.eco = "npm", NEW n \in DeclaredNpm, n \notin NotNpm \cup {NoName}
  PROVE  Answered(n)
<1> DEFINE f == files["package.json"]
           seq == Sources(project, raw)
<1>1. /\ Complete(project, raw, graph, notes, declared) /\ in.deps = declared
      /\ IsEntries(raw, NamesOf(project.eco)) /\ IsProject(project)
  BY DEF HandedOver, Complete, Gathered
<1>2. "package.json" \in DOMAIN files /\ f.ok
  BY DEF DeclaredNpm, There
<1>3. PICK s \in DOMAIN f.sections : /\ n \in Pinned(f.sections[s])
                                     /\ project.excludeDev => s # "devDependencies"
  BY <1>2 DEF DeclaredNpm, There
<1>4. HasSections(f) /\ s \in Range(Sections)
  <2>1. NpmFile("package.json", f)
    BY <1>1, <1>2 DEF IsProject, files
  <2> QED BY <1>3, <2>1 DEF NpmFile
<1>5. PICK e \in Range(PackageJson(f).deps) : e.name = n /\ e.source = Label("package.json", s, None)
  <2> HIDE DEF f
  <2> QED BY <1>2, <1>3, <1>4, PackageJsonIs
<1>6. e \in Range(raw)
  <2>1. "package.json" \in Steps(project)
    BY <1>2, StepsAre DEF files
  <2>2. Fulfilled(project, "package.json", raw, notes)
    BY <1>1, <2>1 DEF Complete
  <2> QED BY <1>5, <2>2 DEF Fulfilled, files
<1>7. e \in Range(seq)
  <2>1. project.excludeDev => seq = WithoutDev(raw) /\ s # "devDependencies"
    BY <1>3 DEF Sources
  <2>2. ~ project.excludeDev => seq = raw
    BY DEF Sources
  <2>3. e.source.section = s
    BY <1>5 DEF Label
  <2> HIDE DEF seq
  <2> QED BY <1>1, <1>6, <2>1, <2>2, <2>3, WithoutDevIs
<1>8. IsEntries(seq, NamesOf(project.eco))
  BY <1>1, SourcesAre
<1>9. Settled(project, raw, declared)
  BY <1>1 DEF Complete
<1>10. Names(declared) = {Called("npm", seq[j]) : j \in 1..Len(seq)} \ Left("npm")
  BY <1>9 DEF Settled
<1> HIDE DEF seq
<1>11. PICK j \in 1..Len(seq) : seq[j] = e
  BY <1>7, <1>8, SeqFacts DEF IsEntries
<1>12. Called("npm", e) = n /\ n \notin Left("npm")
  BY <1>5 DEF Called, Left
<1>13. n \in Names(declared)
  BY <1>10, <1>11, <1>12
<1> QED BY <1>13, NameIsAnswered

LEMMA GoIsAnswered ==
  ASSUME HandedOver, project.eco = "go", NEW n \in DeclaredGo
  PROVE  Answered(n)
<1> DEFINE f == files["go.mod"]
<1>1. Complete(project, raw, graph, notes, declared) /\ IsProject(project)
  BY DEF HandedOver, Complete
<1>2. "go.mod" \in DOMAIN files /\ f.ok
  BY DEF DeclaredGo, There
<1>3. PICK l \in Stated(f.lines, "require") :
        /\ n = f.lines[l].item.path
        /\ ~ \E x \in Stated(f.lines, "exclude") : n = f.lines[x].item.path
  BY <1>2 DEF DeclaredGo, There
<1>4. IsGoLines(f.lines)
  <2>1. GoFile("go.mod", f)
    BY <1>1, <1>2 DEF IsProject, files
  <2> QED BY <2>1 DEF GoFile, IsGoLines, IsList, IsSeq, Path
<1>5. n \in Names(GoMod(f).deps)
  <2> HIDE DEF f
  <2> QED BY <1>2, <1>3, <1>4, GoModIs
<1>6. "go.mod" \in Steps(project)
  BY <1>2, StepsAre DEF files
<1>7. Fulfilled(project, "go.mod", raw, notes) /\ Settled(project, raw, declared)
  BY <1>1, <1>6 DEF Complete
<1>8. n \in Names(raw)
  BY <1>5, <1>7 DEF Fulfilled, files
<1>9. n \in Names(declared)
  BY <1>7, <1>8 DEF Settled
<1> QED BY <1>9, NameIsAnswered

LEMMA NugetIsAnswered ==
  ASSUME HandedOver, project.eco = "nuget", NEW n \in DeclaredNuget
  PROVE  Answered(n)
<1>1. Complete(project, raw, graph, notes, declared)
  BY DEF HandedOver
<1>2. "projects" \in DOMAIN files
  BY DEF DeclaredNuget
<1>3. PICK q \in Range(ProjectsOf(files["projects"])) : q.ok /\ n \in NameItems(q.references)
  BY <1>2 DEF DeclaredNuget
<1>4. "projects" \in Steps(project)
  BY <1>2, StepsAre DEF files
<1>5. Fulfilled(project, "projects", raw, notes) /\ Settled(project, raw, declared)
  BY <1>1, <1>4 DEF Complete
<1>6. n \in Pinned(q.references)
  BY <1>3 DEF NameItems, Pinned
<1>7. n \in Names(raw)
  BY <1>3, <1>5, <1>6 DEF Fulfilled, files
<1>8. n \in Names(declared)
  BY <1>5, <1>7 DEF Settled
<1> QED BY <1>8, NameIsAnswered

\* The labels of declarations that are not for tests alone.
LEMMA NotForTests ==
  /\ ~ IsTestScope(Of("requirements.txt")) /\ ~ IsTestScope(Of("Pipfile"))
  /\ \A s \in {"project", "poetry", "build-system"} : ~ IsTestScope(Pyproject(s, None))
  /\ ~ IsTestScope(Label("setup.cfg", "install_requires", None))
<1>1. Range(TestRequirements) =
        {"requirements-test.txt", "requirements-tests.txt", "requirements-dev.txt",
         "test-requirements.txt", "dev-requirements.txt"}
  BY RangeOfFive DEF TestRequirements
<1>2. \A s : /\ s \notin {"optional-dependencies", "dependency-groups", "poetry.group"}
             => /\ ~ IsTestScope(Label("requirements.txt", s, None))
                /\ ~ IsTestScope(Label("Pipfile", s, None))
                /\ ~ IsTestScope(Label("pyproject.toml", s, None))
                /\ ~ IsTestScope(Label("setup.cfg", s, None))
  BY <1>1 DEF IsTestScope, Label
<1> QED BY <1>2 DEF Of, Pyproject, None

\* What the requirements files declare.
LEMMA RequirementIsAnswered ==
  ASSUME HandedOver, project.eco = "pypi", Notes("depth") = {},
         NEW k1 \in Readable \cap Below(RequirementGraph, IF project.excludeTests
                                   THEN {"requirements.txt"} \cap DOMAIN files
                                   ELSE RequirementStarts),
         NEW m \in NameItems(files[k1].lines), Normal[m] \notin Stdlib
  PROVE  Answered(Normal[m])
<1> DEFINE x == files
           S == IF project.excludeTests THEN {"requirements.txt"} \cap DOMAIN x ELSE RequirementStarts
<1>1. Complete(project, raw, graph, notes, declared) /\ IsProject(project)
  BY DEF HandedOver, Complete
<1>2. PythonFiles(x) /\ RequirementsAreLists(x) /\ IsFiniteSet(DOMAIN x)
  BY <1>1 DEF IsProject, files, PythonFiles
<1>3. RequirementGraph = IncludeGraph(x) /\ Readable = Requirementlike(x)
  BY DEF RequirementGraph, IncludeGraph, Readable
<1>4. IsClosedGraph(IncludeGraph(x)) /\ DOMAIN IncludeGraph(x) = DOMAIN x
  BY <1>2, IncludeGraphIs
<1>5. S \in SUBSET DOMAIN x
  BY DEF RequirementStarts
<1>6. k1 \in Below(IncludeGraph(x), S) /\ k1 \in Requirementlike(x)
  BY <1>3
<1>7. PICK s \in S : k1 \in Below(IncludeGraph(x), {s})
  <2> DEFINE g == IncludeGraph(x)
  <2>1. IsClosedGraph(g) /\ S \in SUBSET DOMAIN g /\ k1 \in Below(g, S)
    BY <1>4, <1>5, <1>6
  <2> HIDE DEF S, x, g
  <2>2. Unites(g, S)
    BY <2>1, BelowMany
  <2>3. \E s \in S : k1 \in Below(g, {s})
    BY <2>1, <2>2 DEF Unites
  <2> QED BY <2>3 DEF g
<1>8. \A st \in Steps(project) : ~ Tells(PythonGives(x, st), "depth")
  <2> SUFFICES ASSUME NEW st \in Steps(project), NEW y \in PythonGives(x, st).notes, y[1] = "depth"
               PROVE  FALSE
    BY DEF Tells
  <2>1. Fulfilled(project, st, raw, notes)
    BY <1>1 DEF Complete
  <2>2. y \in notes
    BY <2>1 DEF Fulfilled, files
  <2> QED BY <2>2 DEF Notes
<1>9. ~ Tells(Requirements(x, s), "depth") =>
        Gives(Requirements(x, s), m, Of("requirements.txt"))
  <2> HIDE DEF S, x
  <2> QED BY <1>2, <1>5, <1>6, <1>7, RequirementsCover DEF x
<1>10. CASE s = "requirements.txt"
  <2>1. s \in Declaring /\ Present(files, s)
    BY <1>5, <1>10 DEF Declaring, Present
  <2>2. s \in Steps(project)
    BY <2>1, StepsAre DEF files
  <2>3. PythonGives(files, s) = Requirements(files, s)
    BY <1>10 DEF PythonGives
  <2>4. Gives(PythonGives(files, s), m, Of("requirements.txt"))
    BY <1>8, <1>9, <2>2, <2>3
  <2> QED BY <2>2, <2>4, NotForTests, PythonIsAnswered
<1>11. CASE s # "requirements.txt"
  <2>1. ~ project.excludeTests /\ s \in Range(TestRequirements) \cap DOMAIN files
    BY <1>7, <1>11 DEF RequirementStarts
  <2> DEFINE st == "test requirements"
  <2>2. st \in Declaring /\ Present(files, st)
    BY <2>1 DEF Declaring, Present
  <2>3. st \in Steps(project)
    BY <2>2, StepsAre DEF files
  <2>4. PythonGives(files, st) = TestRequirementFiles(files)
    BY DEF PythonGives
  <2>5. /\ \A n, f : Gives(Requirements(files, s), n, f) => Gives(TestRequirementFiles(files), n, Of(s))
        /\ Requirements(files, s).notes \subseteq TestRequirementFiles(files).notes
    BY <1>2, <2>1, TestRequirementFilesIs
  <2>6. ~ Tells(Requirements(files, s), "depth")
    BY <1>8, <2>3, <2>4, <2>5 DEF Tells
  <2>7. Gives(PythonGives(files, st), m, Of(s))
    BY <1>9, <2>4, <2>5, <2>6
  <2> QED BY <2>1, <2>3, <2>7, PythonIsAnswered
<1> QED BY <1>10, <1>11

\* What the other files declare.
LEMMA TablesAreAnswered ==
  ASSUME HandedOver, project.eco = "pypi", NEW st \in {"pyproject.toml", "setup.cfg", "Pipfile"},
         There(st), NEW m, NEW from, Gives(PythonGives(files, st), m, from), ~ IsTestScope(from),
         Normal[m] \notin Stdlib
  PROVE  Answered(Normal[m])
<1>1. st \in Declaring /\ Present(files, st)
  BY DEF Declaring, Present, There
<1>2. st \in Steps(project)
  BY <1>1, StepsAre DEF files
<1> QED BY <1>2, PythonIsAnswered

LEMMA TomlIsAnswered ==
  ASSUME HandedOver, project.eco = "pypi", NEW f, f = files["pyproject.toml"],
         There("pyproject.toml"),
         NEW m \in NameItems(f.project) \cup NameItems(f.requires) \cup Pinned(f.poetry),
         Normal[m] \notin Stdlib \cup {<<"python">>}
  PROVE  Answered(Normal[m])
<1>1. IsPyproject(f)
  <2>1. IsProject(project)
    BY DEF HandedOver, Complete
  <2>2. PythonFiles(files)
    BY <2>1 DEF IsProject, files
  <2> QED BY <2>2, PythonFileIs DEF PythonFile, There
<1>2. PythonGives(files, "pyproject.toml") = PyprojectToml(f)
  BY DEF PythonGives
<1>3. f.ok
  BY DEF There
<1>4. m # <<"python">>
  BY NormalAssumption
<1>5. \E s \in {"project", "poetry", "build-system"} : Gives(PyprojectToml(f), m, Pyproject(s, None))
  BY <1>1, <1>3, <1>4, PyprojectTomlIs
<1>6. PICK s \in {"project", "poetry", "build-system"} :
        Gives(PythonGives(files, "pyproject.toml"), m, Pyproject(s, None))
  BY <1>2, <1>5
<1>7. ~ IsTestScope(Pyproject(s, None))
  BY NotForTests
<1> QED BY <1>6, <1>7, TablesAreAnswered

LEMMA CfgIsAnswered ==
  ASSUME HandedOver, project.eco = "pypi", There("setup.cfg"),
         NEW m \in NameItems(files["setup.cfg"].install), Normal[m] \notin Stdlib
  PROVE  Answered(Normal[m])
<1> DEFINE f == files["setup.cfg"]
<1>1. IsItems(f.install) /\ IsList(f.extras, IsTable)
  <2>1. IsProject(project)
    BY DEF HandedOver, Complete
  <2>2. PythonFiles(files)
    BY <2>1 DEF IsProject, files
  <2> QED BY <2>2, PythonFileIs DEF PythonFile, There
<1>2. PythonGives(files, "setup.cfg") = SetupCfg(f)
  BY DEF PythonGives
<1>3. f.ok
  BY DEF There
<1>4. Gives(SetupCfg(f), m, Label("setup.cfg", "install_requires", None))
  <2> HIDE DEF f
  <2> QED BY <1>1, <1>3, SetupCfgIs DEF f
<1> QED BY <1>2, <1>4, NotForTests, TablesAreAnswered

LEMMA PipfileIsAnswered ==
  ASSUME HandedOver, project.eco = "pypi", There("Pipfile"),
         NEW m \in Pinned(files["Pipfile"].packages), Normal[m] \notin Stdlib
  PROVE  Answered(Normal[m])
<1> DEFINE f == files["Pipfile"]
<1>1. IsPinned(f.packages) /\ IsPinned(f.dev)
  <2>1. IsProject(project)
    BY DEF HandedOver, Complete
  <2>2. PythonFiles(files)
    BY <2>1 DEF IsProject, files
  <2> QED BY <2>2, PythonFileIs DEF PythonFile, There
<1>2. PythonGives(files, "Pipfile") = Pipfile(f)
  BY DEF PythonGives
<1>3. f.ok
  BY DEF There
<1>4. Gives(Pipfile(f), m, Of("Pipfile"))
  <2> HIDE DEF f
  <2> QED BY <1>1, <1>3, PipfileIs DEF f
<1> QED BY <1>2, <1>4, NotForTests, TablesAreAnswered

\* What a manifest declares reaches the verdicts once and as a direct
\* dependency, and the verdicts get a scenario as they take it for granted.
THEOREM DeclarationsAreKept == ASpec => []NothingDeclaredIsLost
<1>1. ASSUME AInv, todo = <<>>
      PROVE  /\ IsScenario(in)
             /\ Notes("depth") = {} => \A n \in Expected : Answered(n)
  <2>1. HandedOver
    BY <1>1, ReadAll
  <2>2. IsScenario(in) /\ project.eco \in {"pypi", "npm", "go", "nuget"}
    BY <2>1 DEF HandedOver, IInv, Types, IsScenario
  <2>3. ASSUME Notes("depth") = {}, NEW n \in Expected
        PROVE  Answered(n)
    <3>1. CASE project.eco = "pypi"
      <4>1. PICK m \in DeclaredPython : n = Normal[m] /\ Normal[m] \notin Stdlib \cup {<<"python">>}
        BY <2>3, <3>1 DEF Expected
      <4>2. CASE m \in InRequirements
        <5>1. PICK x \in Readable \cap Below(RequirementGraph, IF project.excludeTests
                                   THEN {"requirements.txt"} \cap DOMAIN files
                                   ELSE RequirementStarts) : m \in NameItems(files[x].lines)
          BY <4>2 DEF InRequirements
        <5> QED BY <2>1, <2>3, <3>1, <4>1, <5>1, RequirementIsAnswered
      <4>3. CASE m \in InPyproject
        <5>1. There("pyproject.toml")
              /\ m \in NameItems(files["pyproject.toml"].project)
                        \cup NameItems(files["pyproject.toml"].requires)
                        \cup Pinned(files["pyproject.toml"].poetry)
          BY <4>3 DEF InPyproject
        <5> QED BY <2>1, <3>1, <4>1, <5>1, TomlIsAnswered
      <4>4. CASE m \in InSetupCfg
        <5>1. There("setup.cfg") /\ m \in NameItems(files["setup.cfg"].install)
          BY <4>4 DEF InSetupCfg
        <5> QED BY <2>1, <3>1, <4>1, <5>1, CfgIsAnswered
      <4>5. CASE m \in InPipfile
        <5>1. There("Pipfile") /\ m \in Pinned(files["Pipfile"].packages)
          BY <4>5 DEF InPipfile
        <5> QED BY <2>1, <3>1, <4>1, <5>1, PipfileIsAnswered
      <4> QED BY <4>1, <4>2, <4>3, <4>4, <4>5 DEF DeclaredPython
    <3>2. CASE project.eco = "npm"
      BY <2>1, <2>3, <3>2, NpmIsAnswered DEF Expected
    <3>3. CASE project.eco = "go"
      BY <2>1, <2>3, <3>3, GoIsAnswered DEF Expected
    <3>4. CASE project.eco = "nuget"
      BY <2>1, <2>3, <3>4, NugetIsAnswered DEF Expected
    <3> QED BY <2>2, <3>1, <3>2, <3>3, <3>4
  <2> QED BY <2>2, <2>3
<1>2. AInv => NothingDeclaredIsLost
  BY <1>1 DEF NothingDeclaredIsLost, Answered
<1> QED BY <1>2, AInvariant, PTL

-----------------------------------------------------------------------------
(* Groups and references in tox.ini that include one another. *)

LEMMA AllTells ==
  ASSUME NEW seq, IsSeq(seq), NEW R, R = [i \in DOMAIN seq |-> R[i]], NEW kinds,
         \A i \in DOMAIN seq : IsPy(R[i], kinds), NEW kind
  PROVE  Tells(All(R), kind) <=> \E i \in DOMAIN seq : Tells(R[i], kind)
<1>1. /\ \A i \in DOMAIN seq : R[i].notes \subseteq All(R).notes
      /\ \A y \in All(R).notes : \E i \in DOMAIN seq : y \in R[i].notes
  BY AllIs DEF IsPy
<1> QED BY <1>1 DEF Tells

LEMMA ReferenceGraphIs ==
  ASSUME NEW x, IsFiniteSet(DOMAIN x)
  PROVE  /\ IsClosedGraph(ReferenceGraph(x)) /\ DOMAIN ReferenceGraph(x) = DOMAIN x
         /\ \A n \in DOMAIN x : \A t :
              t \in ReferenceGraph(x)[n] <=>
                t \in DOMAIN x /\ \E i \in Range(x[n]) : i.kind = "ref" /\ i.target = t
BY DEF ReferenceGraph, IsClosedGraph

\* A value tells of a cycle when a reference leads back, or what is referred to
\* tells of one.
LEMMA ReferenceTells ==
  ASSUME NEW x, NEW deeper, NEW B \in SUBSET DOMAIN x, NEW i, IsItem(i)
  PROVE  Tells(RefGives(x, deeper, B, i), "tox cycle") <=>
           /\ i.kind = "ref" /\ i.target \in DOMAIN x
           /\ i.target \in B \/ Tells(deeper[<<i.target, B \cup {i.target}>>], "tox cycle")
<1>1. CASE i.kind # "ref"
  <2>1. RefGives(x, deeper, B, i) = PipToken(i, Of("tox.ini"))
    BY <1>1 DEF RefGives
  <2>2. IsPy(RefGives(x, deeper, B, i), {})
    BY <2>1, PipTokenIs
  <2> QED BY <1>1, <2>2, Weaker DEF Tells, Cycles
<1>2. CASE i.kind = "ref" /\ i.target \in B
  <2>1. RefGives(x, deeper, B, i) = Noted(<<"tox cycle", i.target>>)
    BY <1>2 DEF RefGives
  <2>2. Tells(Noted(<<"tox cycle", i.target>>), "tox cycle")
    BY NotedTells
  <2> QED BY <1>2, <2>1, <2>2
<1>3. CASE i.kind = "ref" /\ i.target \notin B \cup DOMAIN x
  <2>1. RefGives(x, deeper, B, i) = Nothing
    BY <1>3 DEF RefGives
  <2>2. ~ Tells(RefGives(x, deeper, B, i), "tox cycle")
    BY <2>1, NothingIs, Weaker DEF Tells, Cycles
  <2> QED BY <1>3, <2>2
<1>4. CASE i.kind = "ref" /\ i.target \notin B /\ i.target \in DOMAIN x
  <2>1. RefGives(x, deeper, B, i) = deeper[<<i.target, B \cup {i.target}>>]
    BY <1>4 DEF RefGives
  <2> QED BY <1>4, <2>1
<1> QED BY <1>1, <1>2, <1>3, <1>4

LEMMA ToxLevel ==
  ASSUME NEW x, AreSections(x), IsFiniteSet(DOMAIN x), NEW read,
         IsLevels("tox", x, Visits(DOMAIN x), MaxDepth, read),
         NEW l \in 1..MaxDepth, NEW n \in DOMAIN x, NEW B \in SUBSET DOMAIN x
  PROVE  Tells(read[l][<<n, B>>], "tox cycle") <=> LeadsBack(x, read, l, n, B)
<1> DEFINE deeper == read[l - 1]
           L == x[n]
           R == [i \in DOMAIN L |-> RefGives(x, deeper, B, L[i])]
           K == {"tox cycle"}
<1>1. l # 0 /\ l \in 0..MaxDepth /\ l - 1 \in 0..MaxDepth
  BY CapAssumption
<1>2. read[l][<<n, B>>] = All(R)
  <2>1. read[l][<<n, B>>] = ToxText(x, deeper, l, n, B)
    <3>1. \A i \in 0..MaxDepth : \A m \in DOMAIN x : \A A \in SUBSET DOMAIN x :
            read[i][<<m, A>>] = ToxText(x, read[i - 1], i, m, A)
      BY ToxAre
    <3> QED BY <1>1, <3>1
  <2>2. ToxText(x, deeper, l, n, B) = RefsGive(x, deeper, n, B)
    BY <1>1, ToxRead
  <2> QED BY <2>1, <2>2 DEF RefsGive
<1>3. IsSeq(L) /\ \A i \in Range(L) : IsItem(i)
  BY DEF AreSections, IsItems, IsList, IsSeq
<1>4. \A t \in DOMAIN x : IsPy(deeper[<<t, B \cup {t}>>], K)
  <2> SUFFICES ASSUME NEW t \in DOMAIN x PROVE IsPy(deeper[<<t, B \cup {t}>>], K) OBVIOUS
  <2>1. B \cup {t} \in SUBSET DOMAIN x OBVIOUS
  <2> QED BY <1>1, <2>1, ToxAre
<1>5. ASSUME NEW i \in Range(L) PROVE IsPy(RefGives(x, deeper, B, i), K)
  <2>1. CASE i.kind # "ref"
    <3>1. RefGives(x, deeper, B, i) = PipToken(i, Of("tox.ini"))
      BY <2>1 DEF RefGives
    <3> QED BY <1>3, <3>1, PipTokenIs
  <2>2. CASE i.kind = "ref" /\ i.target \in B
    <3>1. RefGives(x, deeper, B, i) = Noted(<<"tox cycle", i.target>>)
      BY <2>2 DEF RefGives
    <3>2. <<"tox cycle", i.target>>[1] \in K OBVIOUS
    <3> QED BY <3>1, <3>2, SmallResults DEF IsPy
  <2>3. CASE i.kind = "ref" /\ i.target \notin B \cup DOMAIN x
    <3>1. RefGives(x, deeper, B, i) = Nothing
      BY <2>3 DEF RefGives
    <3> QED BY <3>1, NothingIs
  <2>4. CASE i.kind = "ref" /\ i.target \notin B /\ i.target \in DOMAIN x
    <3>1. RefGives(x, deeper, B, i) = deeper[<<i.target, B \cup {i.target}>>]
      BY <2>4 DEF RefGives
    <3> QED BY <1>4, <2>4, <3>1
  <2> QED BY <2>1, <2>2, <2>3, <2>4
<1>6. \A i \in DOMAIN L : IsPy(R[i], K) /\ R[i] = RefGives(x, deeper, B, L[i]) /\ L[i] \in Range(L)
  BY <1>5, SeqFacts
<1>7. R = [i \in DOMAIN L |-> R[i]] /\ \A i \in Range(L) : \E j \in DOMAIN L : L[j] = i
  BY SeqFacts
<1> HIDE DEF R, K, L, deeper
<1>8. Tells(All(R), "tox cycle") <=> \E i \in DOMAIN L : Tells(R[i], "tox cycle")
  BY <1>3, <1>6, <1>7, AllTells
<1> DEFINE Hits(i) == Tells(RefGives(x, deeper, B, i), "tox cycle")
           Back(t) == t \in B \/ Tells(deeper[<<t, B \cup {t}>>], "tox cycle")
<1>9. \A i \in Range(L) : Hits(i) <=> i.kind = "ref" /\ i.target \in DOMAIN x /\ Back(i.target)
  BY <1>3, ReferenceTells
<1>10. \A t : t \in ReferenceGraph(x)[n] <=>
         t \in DOMAIN x /\ \E i \in Range(L) : i.kind = "ref" /\ i.target = t
  BY ReferenceGraphIs DEF L
<1>11. (\E i \in DOMAIN L : Tells(R[i], "tox cycle")) <=>
         \E i \in Range(L) : Hits(i)
  BY <1>6, <1>7
<1>12. (\E i \in Range(L) : Hits(i)) <=> \E t \in ReferenceGraph(x)[n] : Back(t)
  <2> HIDE DEF Hits, Back
  <2>1. ASSUME NEW i \in Range(L), Hits(i) PROVE \E t \in ReferenceGraph(x)[n] : Back(t)
    BY <1>9, <1>10, <2>1
  <2>2. ASSUME NEW t \in ReferenceGraph(x)[n], Back(t) PROVE \E i \in Range(L) : Hits(i)
    BY <1>9, <1>10, <2>2
  <2> QED BY <2>1, <2>2
<1> QED BY <1>2, <1>8, <1>11, <1>12 DEF deeper, LeadsBack

LEMMA ToxEnd ==
  ASSUME NEW x, AreSections(x), NEW read,
         IsLevels("tox", x, Visits(DOMAIN x), MaxDepth, read),
         NEW n \in DOMAIN x, NEW B \in SUBSET DOMAIN x
  PROVE  ~ Tells(read[0][<<n, B>>], "tox cycle")
<1> DEFINE a == Noted(<<"tox depth", n>>)
           b == TokensGive(x[n], Of("tox.ini"))
<1>1. 0 \in 0..MaxDepth
  BY CapAssumption
<1>2. read[0][<<n, B>>] = ToxText(x, read[0 - 1], 0, n, B)
  BY <1>1, ToxAre
<1>3. ToxText(x, read[0 - 1], 0, n, B) = Joined(a, b)
  BY ToxTooDeep
<1>4. IsPy(b, {})
  BY TokensAre DEF AreSections
<1>5. IsPy(a, {})
  <2>1. <<"tox depth", n>>[1] \notin Cycles
    BY DEF Cycles
  <2> QED BY <2>1, SmallResults DEF IsPy
<1> HIDE DEF a, b
<1>6. IsPy(Joined(a, b), {})
  BY <1>4, <1>5, JoinedIs DEF IsPy
<1>7. ~ Tells(Joined(a, b), "tox cycle")
  BY <1>6, Weaker DEF Tells, Cycles
<1> QED BY <1>2, <1>3, <1>7

\* References that lead back are noted, when nothing is too deep.
LEMMA ToxCycles ==
  ASSUME NEW x, AreSections(x), IsFiniteSet(DOMAIN x), NEW starts \in SUBSET DOMAIN x,
         Shallow(ReferenceGraph(x), starts)
  PROVE  Cyclic(ReferenceGraph(x), starts) <=>
           \E s \in starts : Tells(ToxValue(x, s), "tox cycle")
<1> DEFINE g == ReferenceGraph(x)
           N == MaxDepth
<1>0. N \in Nat /\ N \in 0..N /\ MaxDepth <= N
  BY CapAssumption
<1>1. IsClosedGraph(g) /\ DOMAIN g = DOMAIN x
  BY ReferenceGraphIs
<1>2. PICK read : /\ IsLevels("tox", x, Visits(DOMAIN x), N, read)
                  /\ \A start : ToxValue(x, start) = read[N][<<start, {start}>>]
  BY ToxUnfold
<1> DEFINE Noticed(l, n, A) == n \in A \/ Tells(read[l][<<n, A \cup {n}>>], "tox cycle")
           C == {p \in Places(N, DOMAIN x) : Noticed(p[1], p[2], p[3])}
<1>3. \A l \in 0..N : \A n \in DOMAIN x : \A A \in SUBSET DOMAIN x :
        <<l, n, A>> \in C <=> Noticed(l, n, A)
  <2> HIDE DEF Noticed, N
  <2> QED BY PlaceIs
<1> HIDE DEF C
<1>4. IsWalk(g, N, C)
  <2> SUFFICES ASSUME NEW l \in 0..N, NEW n \in DOMAIN x, NEW A \in SUBSET DOMAIN x
               PROVE  /\ n \in A => <<l, n, A>> \in C
                      /\ n \notin A /\ l = 0 => <<l, n, A>> \notin C
                      /\ n \notin A /\ l # 0 =>
                           (<<l, n, A>> \in C <=> \E t \in g[n] : <<l - 1, t, A \cup {n}>> \in C)
    BY <1>1 DEF IsWalk
  <2> DEFINE B == A \cup {n}
  <2>0. B \in SUBSET DOMAIN x OBVIOUS
  <2>1. n \in A => <<l, n, A>> \in C
    BY <1>3
  <2>2. n \notin A /\ l = 0 => <<l, n, A>> \notin C
    <3>1. ~ Tells(read[0][<<n, B>>], "tox cycle")
      <4> HIDE DEF B
      <4> QED BY <1>2, <2>0, ToxEnd
    <3> QED BY <1>3, <3>1
  <2>3. ASSUME n \notin A, l # 0
        PROVE  <<l, n, A>> \in C <=> \E t \in g[n] : <<l - 1, t, B>> \in C
    <3> DEFINE m == l - 1
    <3>1. m \in 0..N /\ l \in 1..N
      BY <1>0, <2>3
    <3>2. \A t \in g[n] : t \in DOMAIN x
      BY ReferenceGraphIs
    <3>3. <<l, n, A>> \in C <=> Tells(read[l][<<n, B>>], "tox cycle")
      BY <1>3, <2>3
    <3>4. Tells(read[l][<<n, B>>], "tox cycle") <=>
            \E t \in g[n] : Noticed(m, t, B)
      <4>1. l \in 1..MaxDepth
        BY <3>1
      <4> HIDE DEF B
      <4>2. Tells(read[l][<<n, B>>], "tox cycle") <=> LeadsBack(x, read, l, n, B)
        BY <1>2, <2>0, <4>1, ToxLevel
      <4> QED BY <4>2 DEF LeadsBack
    <3> HIDE DEF B, m, g, Noticed
    <3>5. \A t \in g[n] : <<m, t, B>> \in C <=> Noticed(m, t, B)
      BY <1>3, <2>0, <3>1, <3>2
    <3>6. <<l, n, A>> \in C <=> \E t \in g[n] : <<m, t, B>> \in C
      BY <3>3, <3>4, <3>5
    <3> QED BY <3>6 DEF B, m, g
  <2> QED BY <2>1, <2>2, <2>3
<1>5. \A s \in starts : <<N, s, {}>> \in C <=> Tells(ToxValue(x, s), "tox cycle")
  <2> SUFFICES ASSUME NEW s \in starts
               PROVE  <<N, s, {}>> \in C <=> Tells(ToxValue(x, s), "tox cycle")
    OBVIOUS
  <2>1. {} \cup {s} = {s} /\ {} \in SUBSET DOMAIN x OBVIOUS
  <2>2. <<N, s, {}>> \in C <=> Noticed(N, s, {})
    BY <1>0, <1>3, <2>1
  <2>3. Noticed(N, s, {}) <=> Tells(read[N][<<s, {s}>>], "tox cycle")
    BY <2>1
  <2> QED BY <1>2, <2>2, <2>3
<1> HIDE DEF g, N
<1>6. starts \in SUBSET DOMAIN g /\ Shallow(g, starts)
  BY <1>1 DEF g
<1>7. Cyclic(g, starts) <=> \E s \in starts : <<N, s, {}>> \in C
  BY <1>0, <1>1, <1>4, <1>6, WalksAreExact
<1> QED BY <1>5, <1>7 DEF g

LEMMA OtherNotes ==
  ASSUME NEW z
  PROVE  /\ Tells(Noted(<<"group cycle", z>>), "group cycle")
         /\ ~ Tells(Noted(<<"group depth", z>>), "group cycle")
         /\ ~ Tells(Noted(<<"unknown group", z>>), "group cycle")
         /\ ~ Tells(Noted(<<"invalid group item", z>>), "group cycle")
<1>1. \A w : Tells(Noted(<<w, z>>), "group cycle") <=> w = "group cycle"
  BY NotedTells
<1>2. /\ "group depth" # "group cycle" /\ "unknown group" # "group cycle"
      /\ "invalid group item" # "group cycle"
  OBVIOUS
<1> QED BY <1>1, <1>2, Zenon

LEMMA GroupNamesAreFew ==
  ASSUME NEW x, IsList(x, IsTable)
  PROVE  IsFiniteSet(GroupNames(x))
<1> DEFINE At == [i \in DOMAIN x |-> x[i].name]
           Inner == [g \in Range(x) |-> IncludedGroups(g)]
<1>1. IsSeq(x) /\ \A g \in Range(x) : IsItems(g.items)
  BY DEF IsList, IsSeq, IsTable
<1>2. IsFiniteSet(DOMAIN x) /\ IsFiniteSet(Range(x))
  BY <1>1, RangeIsFinite
<1>3. IsFiniteSet({g.name : g \in Range(x)})
  <2> DEFINE f == [g \in Range(x) |-> g.name]
  <2>1. Range(x) \subseteq DOMAIN f /\ {f[g] : g \in Range(x)} = {g.name : g \in Range(x)} OBVIOUS
  <2> HIDE DEF f
  <2> QED BY <1>2, <2>1, ImageIsFinite
<1>4. ASSUME NEW g \in Range(x) PROVE IsFiniteSet(IncludedGroups(g))
  <2> DEFINE I == {y \in Range(g.items) : y.kind = "group"}
             f == [y \in I |-> y.target]
  <2>1. IsSeq(g.items)
    BY <1>1 DEF IsItems, IsList, IsSeq
  <2>2. IsFiniteSet(Range(g.items))
    BY <2>1, RangeIsFinite
  <2>3. IsFiniteSet(I)
    BY <2>2, FS_Subset
  <2>4. I \subseteq DOMAIN f /\ {f[y] : y \in I} = IncludedGroups(g)
    BY DEF IncludedGroups
  <2> HIDE DEF I, f
  <2> QED BY <2>3, <2>4, ImageIsFinite
<1> DEFINE U == {IncludedGroups(g) : g \in Range(x)}
<1>5. IsFiniteSet(U)
  <2>1. Range(x) \subseteq DOMAIN Inner /\ {Inner[g] : g \in Range(x)} = U OBVIOUS
  <2> HIDE DEF Inner, U
  <2> QED BY <1>2, <2>1, ImageIsFinite
<1>6. \A u \in U : IsFiniteSet(u)
  BY <1>4
<1>7. IsFiniteSet(UNION U)
  <2> HIDE DEF U
  <2> QED BY <1>5, <1>6, FS_UNION
<1> QED BY <1>3, <1>7, FS_Union DEF GroupNames

LEMMA GroupGraphIs ==
  ASSUME NEW x, IsList(x, IsTable)
  PROVE  /\ IsClosedGraph(GroupGraphOf(x)) /\ DOMAIN GroupGraphOf(x) = GroupNames(x)
         /\ \A n \in GroupNames(x) :
              /\ ~ HasGroup(x, n) => GroupGraphOf(x)[n] = {}
              /\ HasGroup(x, n) => \A t :
                   t \in GroupGraphOf(x)[n] <=>
                     \E i \in Range(GroupOf(x, n).items) : i.kind = "group" /\ i.target = t
<1>1. DOMAIN GroupGraphOf(x) = GroupNames(x)
  BY DEF GroupGraphOf
<1>2. \A n \in GroupNames(x) : HasGroup(x, n) => GroupGraphOf(x)[n] = IncludedGroups(GroupOf(x, n))
  BY DEF GroupGraphOf
<1>3. \A n \in GroupNames(x) : ~ HasGroup(x, n) => GroupGraphOf(x)[n] = {}
  BY DEF GroupGraphOf
<1>4. \A n \in GroupNames(x) : HasGroup(x, n) => IncludedGroups(GroupOf(x, n)) \subseteq GroupNames(x)
  BY GroupOfIs
<1>5. IsClosedGraph(GroupGraphOf(x))
  BY <1>1, <1>2, <1>3, <1>4, GroupNamesAreFew DEF IsClosedGraph
<1>6. \A g : \A t : t \in IncludedGroups(g) <=> \E i \in Range(g.items) : i.kind = "group" /\ i.target = t
  BY DEF IncludedGroups
<1> QED BY <1>1, <1>2, <1>3, <1>5, <1>6

\* What one item of a group tells.
LEMMA ItemTells ==
  ASSUME NEW deeper, NEW name, NEW B, NEW i, IsItem(i), NEW A, B = A \cup {name}
  PROVE  Tells(ItemGives(deeper, name, A, i), "group cycle") <=>
           i.kind = "group" /\ Tells(deeper[<<i.target, B>>], "group cycle")
<1>1. CASE i.kind = "group"
  BY <1>1 DEF ItemGives
<1>2. CASE i.kind \in {"name", "bad"}
  <2>1. ItemGives(deeper, name, A, i) = Pep508(i, Pyproject("dependency-groups", name))
    BY <1>2 DEF ItemGives
  <2>2. IsPy(ItemGives(deeper, name, A, i), {})
    BY <2>1, Pep508Is
  <2>3. ~ Tells(ItemGives(deeper, name, A, i), "group cycle")
    BY <2>2, Weaker DEF Tells, Cycles
  <2> QED BY <1>2, <2>3
<1>3. CASE i.kind \notin {"group", "name", "bad"}
  <2>1. ItemGives(deeper, name, A, i) = Noted(<<"invalid group item", name>>)
    BY <1>3 DEF ItemGives
  <2>2. ~ Tells(Noted(<<"invalid group item", name>>), "group cycle")
    BY OtherNotes
  <2>3. ~ Tells(ItemGives(deeper, name, A, i), "group cycle")
    BY <2>1, <2>2
  <2> QED BY <1>3, <2>3
<1> QED BY <1>1, <1>2, <1>3

LEMMA GroupLevel ==
  ASSUME NEW x, IsList(x, IsTable), NEW read,
         IsLevels("groups", x, Visits(GroupNames(x)), MaxDepth + 1, read),
         NEW l \in 1..(MaxDepth + 1), NEW n \in GroupNames(x),
         NEW A \in SUBSET GroupNames(x), n \notin A, NEW B, B = A \cup {n}
  PROVE  Tells(read[l][<<n, A>>], "group cycle") <=> GroupLeadsBack(x, read, l, n, B)
<1> DEFINE deeper == read[l - 1]
           G == GroupNames(x)
           N == MaxDepth + 1
<1>1. l # 0 /\ l \in 0..N /\ l - 1 \in 0..N /\ B \in SUBSET G
  BY CapAssumption
<1>2. read[l][<<n, A>>] = GroupTable(x, deeper, l, n, A)
  <2>1. l \in 0..(MaxDepth + 1)
    BY <1>1
  <2>2. read[l][<<n, A>>] = GroupTable(x, read[l - 1], l, n, A)
    BY <2>1, GroupsAre
  <2> QED BY <2>2
<1>3. CASE ~ HasGroup(x, n)
  <2>1. GroupTable(x, deeper, l, n, A) = Noted(<<"unknown group", n>>)
    BY <1>1, <1>3, GroupRead
  <2>2. ~ Tells(read[l][<<n, A>>], "group cycle")
    <3>1. ~ Tells(Noted(<<"unknown group", n>>), "group cycle")
      BY OtherNotes
    <3> QED BY <1>2, <2>1, <3>1
  <2>3. GroupGraphOf(x)[n] = {}
    BY <1>3, GroupGraphIs
  <2> QED BY <2>2, <2>3 DEF GroupLeadsBack
<1>4. CASE HasGroup(x, n)
  <2> DEFINE L == GroupOf(x, n).items
             R == [i \in DOMAIN L |-> ItemGives(deeper, n, A, L[i])]
             K == {"group cycle"}
  <2>1. GroupTable(x, deeper, l, n, A) = All(R)
    BY <1>1, <1>4, GroupRead DEF ItemsGive
  <2>2. /\ IsItems(L) /\ IncludedGroups(GroupOf(x, n)) \subseteq G
        /\ \A i \in Range(L) : i.kind = "group" => i.target \in IncludedGroups(GroupOf(x, n))
    BY <1>4, GroupOfIs
  <2>3. IsSeq(L) /\ \A i \in Range(L) : IsItem(i)
    BY <2>2 DEF IsItems, IsList, IsSeq
  <2>4. \A t \in G : IsPy(deeper[<<t, B>>], K)
    <3> DEFINE m == l - 1
    <3>2. m \in 0..(MaxDepth + 1)
      BY <1>1
    <3> HIDE DEF m
    <3>3. \A t \in GroupNames(x) : \A above \in SUBSET GroupNames(x) :
            IsPy(read[m][<<t, above>>], {"group cycle"})
      BY <3>2, GroupsAre
    <3>1. \A t \in GroupNames(x) : \A above \in SUBSET GroupNames(x) :
            IsPy(read[l - 1][<<t, above>>], {"group cycle"})
      BY <3>3 DEF m
    <3> QED BY <1>1, <3>1
  <2>5. ASSUME NEW i \in Range(L) PROVE IsPy(ItemGives(deeper, n, A, i), K)
    <3>1. CASE i.kind = "group"
      <4>1. ItemGives(deeper, n, A, i) = deeper[<<i.target, B>>]
        BY <3>1 DEF ItemGives
      <4> QED BY <2>2, <2>4, <3>1, <4>1
    <3>2. CASE i.kind \in {"name", "bad"}
      <4>1. ItemGives(deeper, n, A, i) = Pep508(i, Pyproject("dependency-groups", n))
        BY <3>2 DEF ItemGives
      <4> QED BY <2>3, <4>1, Pep508Is
    <3>3. CASE i.kind \notin {"group", "name", "bad"}
      <4>1. ItemGives(deeper, n, A, i) = Noted(<<"invalid group item", n>>)
        BY <3>3 DEF ItemGives
      <4>2. <<"invalid group item", n>>[1] \notin Cycles
        BY DEF Cycles
      <4> QED BY <4>1, <4>2, SmallResults DEF IsPy
    <3> QED BY <3>1, <3>2, <3>3
  <2>6. \A i \in DOMAIN L : IsPy(R[i], K) /\ R[i] = ItemGives(deeper, n, A, L[i]) /\ L[i] \in Range(L)
    BY <2>5, SeqFacts
  <2>7. R = [i \in DOMAIN L |-> R[i]] /\ \A i \in Range(L) : \E j \in DOMAIN L : L[j] = i
    BY SeqFacts
  <2> DEFINE Hits(i) == Tells(ItemGives(deeper, n, A, i), "group cycle")
             Back(t) == Tells(deeper[<<t, B>>], "group cycle")
  <2> HIDE DEF R, K, L, deeper
  <2>8. Tells(All(R), "group cycle") <=> \E i \in DOMAIN L : Tells(R[i], "group cycle")
    BY <2>3, <2>6, <2>7, AllTells
  <2>9. \A i \in Range(L) : Hits(i) <=> i.kind = "group" /\ Back(i.target)
    BY <2>3, ItemTells
  <2>10. \A t : t \in GroupGraphOf(x)[n] <=> \E i \in Range(L) : i.kind = "group" /\ i.target = t
    BY <1>4, GroupGraphIs DEF L
  <2>11. (\E i \in DOMAIN L : Tells(R[i], "group cycle")) <=> \E i \in Range(L) : Hits(i)
    BY <2>6, <2>7
  <2>12. (\E i \in Range(L) : Hits(i)) <=> \E t \in GroupGraphOf(x)[n] : Back(t)
    <3> HIDE DEF Hits, Back
    <3>1. ASSUME NEW i \in Range(L), Hits(i) PROVE \E t \in GroupGraphOf(x)[n] : Back(t)
      BY <2>9, <2>10, <3>1
    <3>2. ASSUME NEW t \in GroupGraphOf(x)[n], Back(t) PROVE \E i \in Range(L) : Hits(i)
      BY <2>9, <2>10, <3>2
    <3> QED BY <3>1, <3>2
  <2> QED BY <1>2, <2>1, <2>8, <2>11, <2>12 DEF deeper, GroupLeadsBack
<1> QED BY <1>3, <1>4

\* Groups that lead back are noted, when nothing is too deep.
LEMMA GroupCycles ==
  ASSUME NEW x, IsList(x, IsTable), NEW starts \in SUBSET GroupNames(x),
         Shallow(GroupGraphOf(x), starts)
  PROVE  Cyclic(GroupGraphOf(x), starts) <=>
           \E s \in starts : Tells(ResolveGroup(x, s), "group cycle")
<1> DEFINE g == GroupGraphOf(x)
           N == MaxDepth + 1
           G == GroupNames(x)
<1>0. N \in Nat /\ N \in 0..N /\ MaxDepth <= N
  BY CapAssumption
<1>1. IsClosedGraph(g) /\ DOMAIN g = G
  BY GroupGraphIs
<1>2. PICK read : /\ IsLevels("groups", x, Visits(G), N, read)
                  /\ \A start : ResolveGroup(x, start) = read[N][<<start, {}>>]
  BY GroupsUnfold
<1> DEFINE Noticed(l, n, A) == Tells(read[l][<<n, A>>], "group cycle")
           C == {p \in Places(N, G) : Noticed(p[1], p[2], p[3])}
<1>3. \A l \in 0..N : \A n \in G : \A A \in SUBSET G : <<l, n, A>> \in C <=> Noticed(l, n, A)
  <2> HIDE DEF Noticed, N, G
  <2> QED BY PlaceIs
<1>4. \A l \in 0..N : \A n \in G : \A A \in SUBSET G :
        read[l][<<n, A>>] = GroupTable(x, read[l - 1], l, n, A)
  <2> HIDE DEF g
  <2>1. IsLevels("groups", x, Visits(GroupNames(x)), MaxDepth + 1, read)
    BY <1>2
  <2>2. \A l \in 0..(MaxDepth + 1) : \A n \in GroupNames(x) : \A A \in SUBSET GroupNames(x) :
          read[l][<<n, A>>] = GroupTable(x, read[l - 1], l, n, A)
    BY <2>1, GroupsAre
  <2> QED BY <2>2
<1> HIDE DEF C
<1>5. IsWalk(g, N, C)
  <2> SUFFICES ASSUME NEW l \in 0..N, NEW n \in G, NEW A \in SUBSET G
               PROVE  /\ n \in A => <<l, n, A>> \in C
                      /\ n \notin A /\ l = 0 => <<l, n, A>> \notin C
                      /\ n \notin A /\ l # 0 =>
                           (<<l, n, A>> \in C <=> \E t \in g[n] : <<l - 1, t, A \cup {n}>> \in C)
    BY <1>1 DEF IsWalk
  <2> DEFINE B == A \cup {n}
             m == l - 1
  <2>0. B \in SUBSET G /\ read[l][<<n, A>>] = GroupTable(x, read[l - 1], l, n, A)
    BY <1>4
  <2>1. ASSUME n \in A PROVE <<l, n, A>> \in C
    <3>1. GroupTable(x, read[l - 1], l, n, A) = Noted(<<"group cycle", n>>)
      BY <2>1, GroupMetAgain
    <3>2. Tells(Noted(<<"group cycle", n>>), "group cycle")
      BY OtherNotes
    <3> QED BY <1>3, <2>0, <3>1, <3>2
  <2>2. ASSUME n \notin A, l = 0 PROVE <<l, n, A>> \notin C
    <3>1. GroupTable(x, read[l - 1], l, n, A) = Noted(<<"group depth", n>>)
      BY <2>2, GroupTooDeep
    <3>2. ~ Tells(Noted(<<"group depth", n>>), "group cycle")
      BY OtherNotes
    <3> QED BY <1>3, <2>0, <2>2, <3>1, <3>2
  <2>3. ASSUME n \notin A, l # 0
        PROVE  <<l, n, A>> \in C <=> \E t \in g[n] : <<l - 1, t, B>> \in C
    <3>1. m \in 0..N /\ l \in 1..N
      BY <1>0, <2>3
    <3>2. g[n] \subseteq G
      BY <1>1 DEF IsClosedGraph
    <3>3. <<l, n, A>> \in C <=> Noticed(l, n, A)
      BY <1>3
    <3>4. Noticed(l, n, A) <=> \E t \in g[n] : Noticed(m, t, B)
      <4>1. l \in 1..(MaxDepth + 1) /\ B = A \cup {n}
        BY <3>1
      <4> HIDE DEF B
      <4>2. Tells(read[l][<<n, A>>], "group cycle") <=> GroupLeadsBack(x, read, l, n, B)
        BY <1>2, <2>3, <4>1, GroupLevel
      <4> QED BY <4>2 DEF GroupLeadsBack
    <3> HIDE DEF B, m, g, Noticed
    <3>5. \A t \in g[n] : <<m, t, B>> \in C <=> Noticed(m, t, B)
      BY <1>3, <2>0, <3>1, <3>2
    <3>6. <<l, n, A>> \in C <=> \E t \in g[n] : <<m, t, B>> \in C
      BY <3>3, <3>4, <3>5
    <3> QED BY <3>6 DEF B, m, g
  <2> QED BY <2>1, <2>2, <2>3
<1>6. \A s \in starts : <<N, s, {}>> \in C <=> Tells(ResolveGroup(x, s), "group cycle")
  BY <1>0, <1>2, <1>3
<1> HIDE DEF g, N
<1>7. starts \in SUBSET DOMAIN g /\ Shallow(g, starts)
  BY <1>1 DEF g
<1>8. Cyclic(g, starts) <=> \E s \in starts : <<N, s, {}>> \in C
  BY <1>0, <1>1, <1>5, <1>7, WalksAreExact
<1> QED BY <1>6, <1>8 DEF g

LEMMA OnlyKinds ==
  ASSUME NEW r, NEW kinds, IsPy(r, kinds), NEW kind \in Cycles, kind \notin kinds
  PROVE  ~ Tells(r, kind)
BY DEF IsPy, IsResult, Tells

LEMMA WhoTells ==
  ASSUME NEW x, PythonFiles(x), NEW st \in Range(Order.pypi), Present(x, st), NEW kind \in Cycles
  PROVE  Tells(PythonGives(x, st), kind) <=> Telling(x, st, kind)
<1>1. /\ RequirementsAreLists(x)
      /\ st \notin {"test requirements", "environment.yml"} => st \in DOMAIN x
  BY DEF PythonFiles, Present
<1>2. CASE st = "requirements.txt"
  <2>1. PythonGives(x, st) = Requirements(x, st)
    BY <1>2 DEF PythonGives
  <2>2. IsPy(Requirements(x, st), {"cycle"})
    BY <1>1, <1>2, RequirementsTxtIs
  <2>3. kind # "cycle" => ~ Tells(PythonGives(x, st), kind)
    BY <2>1, <2>2, OnlyKinds
  <2> QED BY <1>2, <2>1, <2>3 DEF Telling
<1>3. CASE st = "test requirements"
  <2> DEFINE r == TestRequirementFiles(x)
  <2>1. PythonGives(x, st) = r
    BY <1>3 DEF PythonGives
  <2>2. /\ IsPy(r, {"cycle"})
        /\ \A n \in Range(TestRequirements) \cap DOMAIN x : Requirements(x, n).notes \subseteq r.notes
        /\ \A y \in r.notes : \E n \in Range(TestRequirements) \cap DOMAIN x : y \in Requirements(x, n).notes
    BY <1>1, TestRequirementFilesIs
  <2> HIDE DEF r
  <2>3. kind # "cycle" => ~ Tells(r, kind)
    BY <2>2, OnlyKinds
  <2>4. Tells(r, "cycle") <=> TestsTell(x)
    BY <2>2 DEF TestsTell, Tells
  <2> QED BY <1>3, <2>1, <2>3, <2>4 DEF Telling
<1>4. CASE st = "pyproject.toml"
  <2> DEFINE f == x[st]
             r == PyprojectToml(f)
             d == DependencyGroups(f.groups)
  <2>1. PythonGives(x, st) = r
    BY <1>4 DEF PythonGives
  <2>2. f.ok => IsPyproject(f)
    BY <1>1, <1>4, PythonFileIs DEF PythonFile
  <2> HIDE DEF f
  <2>3. /\ IsPy(r, {"group cycle"})
        /\ f.ok => d.notes \subseteq r.notes
        /\ \A y \in r.notes : y[1] \in Cycles => f.ok /\ y \in d.notes
    BY <2>2, PyprojectTomlIs
  <2>4. f.ok => /\ \A g \in Range(f.groups) : ResolveGroup(f.groups, g.name).notes \subseteq d.notes
                /\ \A y \in d.notes : \E g \in Range(f.groups) : y \in ResolveGroup(f.groups, g.name).notes
    BY <2>2, DependencyGroupsIs DEF IsPyproject
  <2> HIDE DEF r, d
  <2>5. ASSUME kind # "group cycle" PROVE ~ Tells(r, kind)
    <3>1. kind \notin {"group cycle"} /\ IsPy(r, {"group cycle"})
      BY <2>3, <2>5
    <3> QED BY <3>1, OnlyKinds
  <2>6. Tells(r, "group cycle") <=> f.ok /\ Tells(d, "group cycle")
    BY <2>3 DEF Tells, Cycles
  <2>7. f.ok => (Tells(d, "group cycle") <=> GroupsTell(f.groups))
    BY <2>4 DEF Tells, GroupsTell
  <2> QED BY <1>4, <2>1, <2>5, <2>6, <2>7 DEF Telling, f
<1>5. CASE st = "containers and CI"
  <2> DEFINE f == x[st]
             r == ContainersAndCi(f)
             d == ToxIni(f.tox)
             t == f.tox
  <2>1. PythonGives(x, st) = r
    BY <1>5 DEF PythonGives
  <2>2. IsContainers(f)
    BY <1>1, <1>5 DEF PythonFiles
  <2> HIDE DEF f
  <2>3. /\ IsPy(r, {"tox cycle"}) /\ d.notes \subseteq r.notes
        /\ \A y \in r.notes : y[1] \in Cycles => y \in d.notes
    BY <2>2, ContainersAndCiIs
  <2>4. t.ok => IsTox(t)
    BY <2>2 DEF IsContainers
  <2> HIDE DEF r, t
  <2>5. /\ t.ok => \A at \in DOMAIN t.sections :
              at[1] \in ToxEnvironments /\ at[2] \in {"deps", "requires"}
                => ToxValue(t.sections, at).notes \subseteq ToxIni(t).notes
        /\ \A y \in ToxIni(t).notes : y[1] \in Cycles =>
              /\ t.ok
              /\ \E at \in DOMAIN t.sections :
                   /\ at[1] \in ToxEnvironments /\ at[2] \in {"deps", "requires"}
                   /\ y \in ToxValue(t.sections, at).notes
    BY <2>4, ToxIniIs
  <2>6. ASSUME kind # "tox cycle" PROVE ~ Tells(r, kind)
    <3>1. kind \notin {"tox cycle"} /\ IsPy(r, {"tox cycle"})
      BY <2>3, <2>6
    <3> QED BY <3>1, OnlyKinds
  <2>7. Tells(ToxIni(t), "tox cycle") <=> ToxTells(t)
    BY <2>5 DEF Tells, ToxTells, Cycles
  <2>8. Tells(r, "tox cycle") <=> Tells(ToxIni(t), "tox cycle")
    BY <2>3 DEF Tells, Cycles, t
  <2> QED BY <1>5, <2>1, <2>6, <2>7, <2>8 DEF Telling, t, f
<1>6. CASE st \in {"setup.cfg", "Pipfile"}
  <2> DEFINE f == x[st]
  <2>1. f.ok => PythonFile(st, f)
    BY <1>1, <1>6, PythonFileIs
  <2>2. CASE st = "setup.cfg"
    <3>1. PythonGives(x, st) = SetupCfg(f)
      BY <2>2 DEF PythonGives
    <3>2. IsPy(SetupCfg(f), {})
      <4>1. f.ok => IsItems(f.install) /\ IsList(f.extras, IsTable)
        BY <2>1, <2>2 DEF PythonFile
      <4> HIDE DEF f
      <4> QED BY <4>1, SetupCfgIs
    <3> QED BY <2>2, <3>1, <3>2, OnlyKinds DEF Telling
  <2>3. CASE st = "Pipfile"
    <3>1. PythonGives(x, st) = Pipfile(f)
      BY <2>3 DEF PythonGives
    <3>2. IsPy(Pipfile(f), {})
      <4>1. f.ok => IsPinned(f.packages) /\ IsPinned(f.dev)
        BY <2>1, <2>3 DEF PythonFile
      <4> HIDE DEF f
      <4> QED BY <4>1, PipfileIs
    <3> QED BY <2>3, <3>1, <3>2, OnlyKinds DEF Telling
  <2> QED BY <1>6, <2>2, <2>3
<1>7. CASE st \in Locking
  <2>1. PythonGives(x, st) = Nothing
    BY <1>7, PythonGivesIs
  <2>3. IsPy(PythonGives(x, st), {}) /\ kind \notin {}
    BY <2>1, NothingIs
  <2>2. ~ Tells(PythonGives(x, st), kind)
    BY <2>3, OnlyKinds
  <2> QED BY <1>7, <2>2 DEF Telling, Locking
<1>8. st \in Declaring \cup Locking
  BY OrderIs DEF Declaring, Locking
<1> QED BY <1>2, <1>3, <1>4, <1>5, <1>6, <1>7, <1>8 DEF Declaring

\* A cycle is noted when one of the steps tells of it.
LEMMA NotedByStep ==
  ASSUME HandedOver, project.eco = "pypi", NEW kind \in Cycles
  PROVE  Notes(kind) # {} <=> \E st \in Steps(project) : Telling(files, st, kind)
<1>1. Complete(project, raw, graph, notes, declared) /\ IsProject(project)
  BY DEF HandedOver, Complete
<1>2. PythonFiles(files)
  BY <1>1 DEF IsProject, files
<1>3. \A st \in Steps(project) : Tells(PythonGives(files, st), kind) <=> Telling(files, st, kind)
  <2>1. \A st \in Steps(project) : st \in Range(Order.pypi) /\ Present(files, st)
    BY DEF Steps, files
  <2> QED BY <1>2, <2>1, WhoTells
<1>4. \A st \in Steps(project) : PythonGives(files, st).notes \subseteq notes
  BY <1>1 DEF Complete, Fulfilled, files
<1>5. \A y \in notes : y[1] \in Cycles => \E st \in Steps(project) : y \in PythonGives(files, st).notes
  BY <1>1 DEF Complete, Gathered, files
<1>6. Notes(kind) # {} <=> \E st \in Steps(project) : Tells(PythonGives(files, st), kind)
  BY <1>4, <1>5 DEF Notes, Tells
<1> QED BY <1>3, <1>6

LEMMA SmallSequences == Range(<<>>) = {} /\ <<>> \in Seq(Range(<<>>))
BY DEF Range

\* What the project's own files are to the three parsers.
LEMMA FilesAre ==
  ASSUME HandedOver, project.eco = "pypi"
  PROVE  /\ RequirementsAreLists(files) /\ IsFiniteSet(DOMAIN files)
         /\ IsList(Groups, IsTable)
         /\ AreSections(ToxValues) /\ IsFiniteSet(DOMAIN ToxValues)
<1>1. IsProject(project)
  BY DEF HandedOver, Complete
<1>2. PythonFiles(files)
  BY <1>1 DEF IsProject, files
<1>3. IsList(Groups, IsTable)
  <2>1. IsList(<<>>, IsTable)
    BY SmallSequences DEF IsList
  <2>2. There("pyproject.toml") => IsPyproject(files["pyproject.toml"])
    BY <1>2, PythonFileIs DEF There, PythonFile
  <2>3. There("pyproject.toml") => IsList(files["pyproject.toml"].groups, IsTable)
    BY <2>2 DEF IsPyproject
  <2> QED BY <2>1, <2>3 DEF Groups
<1>4. AreSections(ToxValues) /\ IsFiniteSet(DOMAIN ToxValues)
  <2>1. DOMAIN <<>> = {} OBVIOUS
  <2>2. CASE "containers and CI" \in DOMAIN files /\ files["containers and CI"].tox.ok
    <3>1. IsContainers(files["containers and CI"])
      BY <1>2, <2>2 DEF PythonFiles
    <3>2. IsTox(files["containers and CI"].tox)
      BY <2>2, <3>1 DEF IsContainers
    <3>3. ToxValues = files["containers and CI"].tox.sections
      BY <2>2 DEF ToxValues
    <3> QED BY <3>2, <3>3 DEF IsTox, AreSections
  <2>3. CASE ~ ("containers and CI" \in DOMAIN files /\ files["containers and CI"].tox.ok)
    <3>1. ToxValues = <<>>
      BY <2>3 DEF ToxValues
    <3> QED BY <2>1, <3>1, FS_EmptySet DEF AreSections
  <2> QED BY <2>2, <2>3
<1> QED BY <1>2, <1>3, <1>4 DEF PythonFiles

\* The steps that read what may have cycles.
LEMMA CycleSteps ==
  ASSUME project.eco = "pypi"
  PROVE  /\ "requirements.txt" \in Steps(project) <=> "requirements.txt" \in DOMAIN files
         /\ "pyproject.toml" \in Steps(project) <=> "pyproject.toml" \in DOMAIN files
         /\ "containers and CI" \in Steps(project) <=> "containers and CI" \in DOMAIN files
         /\ "test requirements" \in Steps(project) <=>
              Range(TestRequirements) \cap DOMAIN files # {}
<1>1. \A st \in Declaring : st \in Steps(project) <=> Present(files, st)
  BY StepsAre DEF Steps, files
<1> QED BY <1>1 DEF Declaring, Present

LEMMA RequirementNotes ==
  ASSUME HandedOver, project.eco = "pypi"
  PROVE  Notes("cycle") # {} <=>
           \E s \in RequirementStarts : Tells(Requirements(files, s), "cycle")
<1>1. Notes("cycle") # {} <=> \E st \in Steps(project) : Telling(files, st, "cycle")
  BY NotedByStep DEF Cycles
<1>2. \A st : Telling(files, st, "cycle") <=>
        \/ st = "requirements.txt" /\ Tells(Requirements(files, "requirements.txt"), "cycle")
        \/ st = "test requirements" /\ TestsTell(files)
  BY DEF Telling
<1>3. (\E st \in Steps(project) : Telling(files, st, "cycle")) <=>
        \/ "requirements.txt" \in DOMAIN files
           /\ Tells(Requirements(files, "requirements.txt"), "cycle")
        \/ Range(TestRequirements) \cap DOMAIN files # {} /\ TestsTell(files)
  <2> DEFINE First == Tells(Requirements(files, "requirements.txt"), "cycle")
             Aux   == TestsTell(files)
             S     == Steps(project)
  <2>1. /\ "requirements.txt" \in S <=> "requirements.txt" \in DOMAIN files
        /\ "test requirements" \in S <=> Range(TestRequirements) \cap DOMAIN files # {}
    BY CycleSteps
  <2>2. \A st : Telling(files, st, "cycle") <=>
          (st = "requirements.txt" /\ First) \/ (st = "test requirements" /\ Aux)
    BY <1>2
  <2> HIDE DEF First, Aux, S
  <2>3. (\E st \in S : Telling(files, st, "cycle")) <=>
          ("requirements.txt" \in S /\ First) \/ ("test requirements" \in S /\ Aux)
    BY <2>2
  <2> QED BY <2>1, <2>3 DEF First, Aux, S
<1> QED BY <1>1, <1>3 DEF TestsTell, RequirementStarts

LEMMA GroupNotes ==
  ASSUME HandedOver, project.eco = "pypi"
  PROVE  Notes("group cycle") # {} <=>
           \E s \in GroupStarts : Tells(ResolveGroup(Groups, s), "group cycle")
<1>1. Notes("group cycle") # {} <=> \E st \in Steps(project) : Telling(files, st, "group cycle")
  BY NotedByStep DEF Cycles
<1>2. \A st : Telling(files, st, "group cycle") <=>
        /\ st = "pyproject.toml" /\ files["pyproject.toml"].ok
        /\ GroupsTell(files["pyproject.toml"].groups)
  BY DEF Telling
<1>3. (\E st \in Steps(project) : Telling(files, st, "group cycle")) <=>
        There("pyproject.toml") /\ GroupsTell(files["pyproject.toml"].groups)
  BY <1>2, CycleSteps DEF There
<1>4. (\E s \in GroupStarts : Tells(ResolveGroup(Groups, s), "group cycle")) <=> GroupsTell(Groups)
  BY DEF GroupStarts, GroupsTell
<1>5. There("pyproject.toml") => Groups = files["pyproject.toml"].groups
  BY DEF Groups
<1>6. ~ There("pyproject.toml") => ~ GroupsTell(Groups)
  BY SmallSequences DEF Groups, GroupsTell
<1> QED BY <1>1, <1>3, <1>4, <1>5, <1>6

LEMMA ToxNotes ==
  ASSUME HandedOver, project.eco = "pypi"
  PROVE  Notes("tox cycle") # {} <=>
           \E s \in ToxStarts : Tells(ToxValue(ToxValues, s), "tox cycle")
<1> DEFINE f == files["containers and CI"].tox
<1>1. Notes("tox cycle") # {} <=> \E st \in Steps(project) : Telling(files, st, "tox cycle")
  BY NotedByStep DEF Cycles
<1>2. \A st : Telling(files, st, "tox cycle") <=> st = "containers and CI" /\ ToxTells(f)
  BY DEF Telling
<1>3. (\E st \in Steps(project) : Telling(files, st, "tox cycle")) <=>
        "containers and CI" \in DOMAIN files /\ ToxTells(f)
  BY <1>2, CycleSteps
<1>4. CASE "containers and CI" \in DOMAIN files /\ f.ok
  <2>1. ToxValues = f.sections
    BY <1>4 DEF ToxValues
  <2>2. ToxTells(f) <=> \E s \in ToxStarts : Tells(ToxValue(ToxValues, s), "tox cycle")
    <3> HIDE DEF f
    <3> QED BY <1>4, <2>1 DEF ToxTells, ToxStarts
  <2> QED BY <1>1, <1>3, <1>4, <2>2
<1>5. CASE ~ ("containers and CI" \in DOMAIN files /\ f.ok)
  <2>1. ToxValues = <<>>
    BY <1>5 DEF ToxValues
  <2>2. ToxStarts = {}
    BY <2>1 DEF ToxStarts
  <2>3. ~ ("containers and CI" \in DOMAIN files /\ ToxTells(f))
    <3> HIDE DEF f
    <3> QED BY <1>5 DEF ToxTells
  <2> QED BY <1>1, <1>3, <2>2, <2>3
<1> QED BY <1>4, <1>5

\* A cycle of includes, of included groups or of references in tox.ini is noted
\* exactly when there is one on the way from what the parsers start from, as
\* long as the depth of the parsers is enough for what can be reached.
THEOREM CyclesAreNotedInAnalysis == ASpec => []CyclesAreNoted
<1>1. ASSUME HandedOver, project.eco = "pypi", Shallow(RequirementGraph, RequirementStarts)
      PROVE  Cyclic(RequirementGraph, RequirementStarts) <=> Notes("cycle") # {}
  <2> DEFINE x == files
             starts == RequirementStarts
  <2>1. RequirementGraph = IncludeGraph(x)
    BY DEF RequirementGraph, IncludeGraph, Readable
  <2>2. RequirementsAreLists(x) /\ IsFiniteSet(DOMAIN x)
    BY <1>1, FilesAre
  <2>3. starts \in SUBSET DOMAIN x /\ \A s \in starts : x[s].ok => s \in Requirementlike(x)
    BY <2>2 DEF RequirementStarts, RequirementsAreLists
  <2>4. Shallow(IncludeGraph(x), starts)
    BY <1>1, <2>1
  <2> HIDE DEF x, starts
  <2>5. Cyclic(IncludeGraph(x), starts) <=> \E s \in starts : Tells(Requirements(x, s), "cycle")
    BY <2>2, <2>3, <2>4, RequirementsCycles
  <2> QED BY <1>1, <2>1, <2>5, RequirementNotes DEF x, starts
<1>2. ASSUME HandedOver, project.eco = "pypi", Shallow(GroupGraph, GroupStarts)
      PROVE  Cyclic(GroupGraph, GroupStarts) <=> Notes("group cycle") # {}
  <2> DEFINE x == Groups
             starts == GroupStarts
  <2>1. GroupGraph = GroupGraphOf(x)
    BY DEF GroupGraph, GroupGraphOf
  <2>2. IsList(x, IsTable)
    BY <1>2, FilesAre
  <2>3. starts \in SUBSET GroupNames(x)
    BY DEF GroupStarts, GroupNames
  <2>4. Shallow(GroupGraphOf(x), starts)
    BY <1>2, <2>1
  <2> HIDE DEF x, starts
  <2>5. Cyclic(GroupGraphOf(x), starts) <=>
          \E s \in starts : Tells(ResolveGroup(x, s), "group cycle")
    BY <2>2, <2>3, <2>4, GroupCycles
  <2> QED BY <1>2, <2>1, <2>5, GroupNotes DEF x, starts
<1>3. ASSUME HandedOver, project.eco = "pypi", Shallow(ToxGraph, ToxStarts)
      PROVE  Cyclic(ToxGraph, ToxStarts) <=> Notes("tox cycle") # {}
  <2> DEFINE x == ToxValues
             starts == ToxStarts
  <2>1. ToxGraph = ReferenceGraph(x)
    BY DEF ToxGraph, ReferenceGraph
  <2>2. AreSections(x) /\ IsFiniteSet(DOMAIN x)
    BY <1>3, FilesAre
  <2>3. starts \in SUBSET DOMAIN x
    BY DEF ToxStarts
  <2>4. Shallow(ReferenceGraph(x), starts)
    BY <1>3, <2>1
  <2> HIDE DEF x, starts
  <2>5. Cyclic(ReferenceGraph(x), starts) <=>
          \E s \in starts : Tells(ToxValue(x, s), "tox cycle")
    BY <2>2, <2>3, <2>4, ToxCycles
  <2> QED BY <1>3, <2>1, <2>5, ToxNotes DEF x, starts
<1>4. AInv => CyclesAreNoted
  BY <1>1, <1>2, <1>3, ReadAll DEF CyclesAreNoted
<1> QED BY <1>4, AInvariant, PTL
=============================================================================
