------------------------- MODULE FactPipelineProofs -------------------------
(***************************************************************************)
(* Proofs about the four-stage pipeline, for any number of leaves, facts,  *)
(* visits and answers: its type, the agreement of the gates, what a visit  *)
(* can publish, and that it implements ReviewedPairs.                      *)
(*                                                                         *)
(* None of these is inductive: each gate repeats what an earlier step has  *)
(* established, so the invariant below says for each step what the facts,  *)
(* the reports and the candidate have passed so far.                       *)
(***************************************************************************)
EXTENDS FactPipeline, FiniteSetTheorems, TLAPS

Building == {"build", "publish"} \cup Construction
WithCandidate == {"publish"} \cup Construction
Realized == WithCandidate \ {"realize"}

\* Facts and reports exist only from their step on, and the number whose
\* answer or candidate is awaited is that of a fact.
Control ==
    /\ pc \in {"raised", "completed", "scan"} => DOMAIN facts = {}
    /\ pc \in {"raised", "completed", "scan", "extract"} => DOMAIN reports = {}
    /\ pc \notin {"raised", "completed"} => visits >= 1
    /\ pc = "refocus" => Reflected \in DOMAIN facts
    /\ pc \in WithCandidate => cand.number \in DOMAIN facts

\* What an accepted report rests on.
ReportsSupport ==
    \A n \in DOMAIN reports :
        AcceptedReflection(reports[n], facts[n].scope) => n \in supported

\* Once assembled, every fact has been accepted.
Assembled ==
    pc \in Building =>
        \A n \in DOMAIN facts :
            /\ n \in DOMAIN reports
            /\ AcceptedReflection(reports[n], facts[n].scope)

\* What a candidate has passed.
CandidateRealized ==
    pc \in Realized =>
        LET fact == facts[cand.number]
        IN  /\ cand.value # fact.value
            /\ Aligned(fact.leaf, fact.value, cand.prefix,
                       cand.value, cand.counterPrefix)

\* An approval is that of the candidate, of a supported fact, and what the
\* last gate of the orchestrator looks for.
Approval ==
    /\ approved # {} => pc = "publish" /\ approved = {cand.number}
    /\ approved \subseteq supported
    /\ pc = "publish" /\ ReliabilityGate => cand.number \in approved

\* A pair id is published once; a visit that is under way has published only
\* facts of its own selection, and one that discovers facts nothing.
Published ==
    /\ \A r, s \in published : r.number = s.number => r = s
    /\ \A r \in published : r.visit <= visits
    /\ pc \in Discovery =>
         \A r \in published : r.visit # visits
    /\ pc \in Building =>
         \A r \in published : r.visit = visits =>
            r.number \in DOMAIN facts /\ facts[r.number].leaf = r.leaf
    /\ \A r, s \in published : r.visit = s.visit /\ r.leaf = s.leaf => r = s

\* The numbers a visit may publish are within the cap.
Capped ==
    \A v \in 1..MaxVisits :
        \E chosen \in SUBSET Number :
            /\ Cardinality(chosen) <= PairCap
            /\ \A r \in published : r.visit = v => r.number \in chosen
            /\ v = visits /\ pc \in Building =>
                 /\ todo \subseteq chosen
                 /\ pc \in WithCandidate => cand.number \in chosen

IInv ==
    /\ TypeOK /\ Control /\ RetrievalGate /\ FactsStable
    /\ ReportsSupport /\ Assembled /\ CandidateRealized /\ Approval
    /\ Published /\ Capped

-----------------------------------------------------------------------------
(* Types *)

LEMMA NoneTyped ==
    /\ NoMatrix \in [Leaf -> Row]
    /\ NoReport \in MonitorAnswer
    /\ NoCandidate \in Candidate
<1>1. NoMatrix \in [Leaf -> Row]
  BY DEF NoMatrix, Row
<1>2. NoReport \in MonitorAnswer
  BY DEF NoReport, MonitorAnswer, Verdict
<1>3. NoCandidate \in Candidate
  BY <1>2, PipelineAssumption
     DEF PipelineAssumption, NoCandidate, Candidate, Prefix
<1> QED
  BY <1>1, <1>2, <1>3

LEMMA EmptyTyped ==
    ASSUME NEW S
    PROVE  DOMAIN << >> = {} /\ << >> \in [DOMAIN << >> -> S]
OBVIOUS

LEMMA GoneTyped ==
    ASSUME VideoGone
    PROVE  /\ matrix' \in [Leaf -> Row]
           /\ DOMAIN facts' = {} /\ facts' \in [DOMAIN facts' -> Fact]
           /\ DOMAIN reports' = {}
           /\ reports' \in [DOMAIN reports' -> ReflectionAnswer]
           /\ todo' = {} /\ cand' \in Candidate
           /\ supported' = {} /\ approved' = {}
BY NoneTyped, EmptyTyped DEF VideoGone

LEMMA NormalizedTyped ==
    ASSUME NEW answer \in ReflectionAnswer, NEW fact
    PROVE  Normalized(answer, fact) \in ReflectionAnswer
BY DEF Normalized, ReflectionAnswer, Verdict

LEMMA MonitorTyped ==
    ASSUME NEW answer \in MonitorAnswer, NEW fact
    PROVE  NormalizedMonitor(answer, fact) \in MonitorAnswer
<1> DEFINE checks == answer.checks \ {"natural_answer_matches_source_fact"}
           withdrawn == answer.accepted /\ ~Grounded(answer, fact.scope)
<1>1. checks \in SUBSET MonitorCheck
  BY DEF MonitorAnswer
<1>2. CASE withdrawn
  <2>1. NormalizedMonitor(answer, fact) =
          [answer EXCEPT !.accepted = FALSE, !.answer = "insufficient",
                         !.checks = checks, !.interval = NoInterval,
                         !.summary = TRUE, !.recoverable = FALSE]
    BY <1>2, Zenon DEF NormalizedMonitor
  <2> HIDE DEF checks
  <2>2. [answer EXCEPT !.accepted = FALSE, !.answer = "insufficient",
                       !.checks = checks, !.interval = NoInterval,
                       !.summary = TRUE, !.recoverable = FALSE] \in MonitorAnswer
    BY <1>1 DEF MonitorAnswer, Verdict
  <2> QED
    BY <2>1, <2>2
<1>3. CASE ~withdrawn
  <2>1. NormalizedMonitor(answer, fact) = [answer EXCEPT !.recoverable = FALSE]
    BY <1>3, Zenon DEF NormalizedMonitor
  <2> QED
    BY <2>1 DEF MonitorAnswer
<1> QED
  BY <1>2, <1>3

LEMMA RowFields ==
    ASSUME NEW r \in Row, NEW s \in Row,
           r.status = s.status, r.intervals = s.intervals,
           r.anchored = s.anchored
    PROVE  r = s
<1>1. r = [status |-> r.status, intervals |-> r.intervals, anchored |-> r.anchored]
  BY DEF Row
<1>2. s = [status |-> s.status, intervals |-> s.intervals, anchored |-> s.anchored]
  BY DEF Row
<1> QED
  BY <1>1, <1>2

\* A row is cleared once, and stays valid.
LEMMA ClearedRow ==
    /\ \A row \in Row : /\ Cleared(row) \in Row
                        /\ Cleared(Cleared(row)) = Cleared(row)
                        /\ ValidRow(row) => ValidRow(Cleared(row))
    /\ LET none == [status |-> "not_constructible", intervals |-> {},
                    anchored |-> FALSE]
       IN  ValidRow(none) /\ Cleared(none) = none
<1>1. ASSUME NEW row \in Row
      PROVE  /\ Cleared(row) \in Row
             /\ Cleared(Cleared(row)) = Cleared(row)
             /\ ValidRow(row) => ValidRow(Cleared(row))
  <2>1. CASE row.status = "constructible"
    BY <2>1 DEF Cleared
  <2>2. CASE row.status # "constructible"
    <3> DEFINE once == [row EXCEPT !.intervals = {}, !.anchored = FALSE]
               twice == [once EXCEPT !.intervals = {}, !.anchored = FALSE]
    <3>1. /\ once \in Row /\ once.status = row.status
          /\ once.intervals = {} /\ once.anchored = FALSE
      BY DEF Row
    <3>2. /\ twice \in Row /\ twice.status = row.status
          /\ twice.intervals = {} /\ twice.anchored = FALSE
      BY <3>1 DEF Row
    <3>3. twice = once
      BY <3>1, <3>2, RowFields
    <3>4. Cleared(row) = once /\ Cleared(once) = twice
      BY <2>2, <3>1 DEF Cleared
    <3> HIDE DEF once, twice
    <3> QED
      BY <2>2, <3>1, <3>3, <3>4 DEF ValidRow
  <2> QED
    BY <2>1, <2>2
<1>2. LET none == [status |-> "not_constructible", intervals |-> {},
                   anchored |-> FALSE]
      IN  ValidRow(none) /\ Cleared(none) = none
  <2> DEFINE none == [status |-> "not_constructible", intervals |-> {},
                      anchored |-> FALSE]
  <2>1. none \in Row
    BY DEF Row
  <2>2. /\ [none EXCEPT !.intervals = {}, !.anchored = FALSE] \in Row
        /\ [none EXCEPT !.intervals = {}, !.anchored = FALSE].status = none.status
        /\ [none EXCEPT !.intervals = {}, !.anchored = FALSE].intervals = {}
        /\ [none EXCEPT !.intervals = {}, !.anchored = FALSE].anchored = FALSE
    BY <2>1 DEF Row
  <2>3. [none EXCEPT !.intervals = {}, !.anchored = FALSE] = none
    BY <2>1, <2>2, RowFields
  <2> QED
    BY <2>3 DEF ValidRow, Cleared
<1> QED
  BY <1>1, <1>2

LEMMA PipelineInit == Init => IInv
<1> SUFFICES ASSUME Init PROVE IInv
  OBVIOUS
<1> USE NoneTyped, EmptyTyped DEF Init
<1>1. TypeOK
  BY PipelineAssumption DEF PipelineAssumption, TypeOK
<1>2. Control
  BY DEF Control, WithCandidate, Construction
<1>3. RetrievalGate
  BY ClearedRow DEF RetrievalGate, NoMatrix
<1>4. FactsStable /\ ReportsSupport
  BY DEF FactsStable, ReportsSupport
<1>5. Assembled /\ CandidateRealized /\ Approval
  BY DEF Assembled, CandidateRealized, Approval, Building, Realized,
         WithCandidate, Construction
<1>6. Published
  BY DEF Published, Building, Construction, Discovery
<1>7. Capped
  <2>1. {} \in SUBSET Number /\ Cardinality({}) = 0
    BY FS_EmptySet
  <2> QED
    BY <2>1, PipelineAssumption
       DEF Capped, PipelineAssumption, Building, Construction
<1> QED
  BY <1>1, <1>2, <1>3, <1>4, <1>5, <1>6, <1>7 DEF IInv

\* The candidate given up.
LEMMA RejectedTyped ==
    ASSUME Rejected
    PROVE  cand' \in Candidate /\ approved' = {} /\ pc' = "build"
BY NoneTyped DEF Rejected

\* The report that is settled: only that of the fact under way changes, and
\* it is accepted only if the answer supports the fact.
LEMMA Settled ==
    ASSUME TypeOK, NEW answer \in ReflectionAnswer, SettleReport(answer),
           Reflected \in DOMAIN facts
    PROVE  /\ DOMAIN reports' = DOMAIN reports \cup {Reflected}
           /\ reports' \in [DOMAIN reports' -> ReflectionAnswer]
           /\ supported \subseteq supported'
           /\ supported' \subseteq supported \cup {Reflected}
           /\ reports'[Reflected] = Normalized(answer, facts[Reflected])
           /\ \A m \in DOMAIN reports \ {Reflected} : reports'[m] = reports[m]
           /\ Supports(answer, facts[Reflected]) => Reflected \in supported'
<1> DEFINE n == Reflected
<1> HIDE DEF n
<1>1. reports' = [m \in DOMAIN reports \cup {n} |->
                    IF m = n THEN Normalized(answer, facts[n]) ELSE reports[m]]
  BY DEF SettleReport, n
<1>2. Normalized(answer, facts[n]) \in ReflectionAnswer
  BY NormalizedTyped
<1>3. \A m \in DOMAIN reports : reports[m] \in ReflectionAnswer
  BY DEF TypeOK
<1>4. supported' = IF Supports(answer, facts[n]) THEN supported \cup {n}
                   ELSE supported
  BY DEF SettleReport, n
<1>5. DOMAIN reports' = DOMAIN reports \cup {n}
  BY <1>1
<1>6. reports' \in [DOMAIN reports' -> ReflectionAnswer]
  BY <1>1, <1>2, <1>3
<1>7. reports'[n] = Normalized(answer, facts[n])
  BY <1>1
<1>8. \A m \in DOMAIN reports \ {n} : reports'[m] = reports[m]
  BY <1>1
<1> QED
  BY <1>4, <1>5, <1>6, <1>7, <1>8 DEF n

LEMMA TypeStep == TypeOK /\ Control /\ [Next]_vars => TypeOK'
<1> SUFFICES ASSUME TypeOK, Control, [Next]_vars PROVE TypeOK'
  OBVIOUS
<1>1. CASE Visit
  BY <1>1, PipelineAssumption
     DEF Visit, TypeOK, videoVars, Discovery, PipelineAssumption
<1>2. CASE Scan
  <2>1. matrix' \in [Leaf -> Row]
    BY <1>2, ClearedRow DEF Scan
  <2> QED
    BY <1>2, <2>1 DEF Scan, TypeOK, Discovery
<1>3. ASSUME NEW f \in Fact, ExtractFact(f)
      PROVE  TypeOK'
  <2>1. /\ DOMAIN facts' = DOMAIN facts \cup {NextNumber}
        /\ DOMAIN facts' \subseteq Number
        /\ facts' \in [DOMAIN facts' -> Fact]
    <3> DEFINE n == NextNumber
    <3> HIDE DEF n
    <3>1. facts' = [m \in DOMAIN facts \cup {n} |-> IF m = n THEN f ELSE facts[m]]
      BY <1>3 DEF ExtractFact, n
    <3>2. n \in Number
      BY <1>3 DEF ExtractFact, n
    <3>3. \A m \in DOMAIN facts : facts[m] \in Fact
      BY DEF TypeOK
    <3>4. DOMAIN facts \subseteq Number
      BY DEF TypeOK
    <3> QED
      BY <3>1, <3>2, <3>3, <3>4 DEF n
  <2>2. UNCHANGED <<pc, visits, matrix, reports, todo, cand, supported,
                    approved, published>>
    BY <1>3 DEF ExtractFact
  <2> QED
    BY <2>1, <2>2 DEF TypeOK
<1>4. CASE ExtractEnds
  BY <1>4 DEF ExtractEnds, TypeOK, videoVars, Discovery
<1>5. ASSUME NEW a \in ReflectionAnswer, Reflect(a) \/ Refocus(a)
      PROVE  TypeOK'
  <2>1. Reflected \in DOMAIN facts
    BY <1>5 DEF Reflect, Refocus, Control
  <2>2. UNCHANGED <<reports, supported>> \/ SettleReport(a)
    BY <1>5 DEF Reflect, Refocus
  <2>3. /\ DOMAIN reports' \subseteq DOMAIN facts
        /\ reports' \in [DOMAIN reports' -> ReflectionAnswer]
        /\ supported' \subseteq Number
    <3>1. CASE UNCHANGED <<reports, supported>>
      BY <3>1 DEF TypeOK
    <3>2. CASE SettleReport(a)
      BY <2>1, <3>2, Settled DEF TypeOK
    <3> QED
      BY <2>2, <3>1, <3>2
  <2>4. /\ pc' \in Discovery
        /\ UNCHANGED <<visits, matrix, facts, todo, cand, approved, published>>
    BY <1>5 DEF Reflect, Refocus, Discovery
  <2> QED
    BY <2>3, <2>4 DEF TypeOK
<1>6. CASE Assemble
  <2>1. /\ DOMAIN facts' = FactGraph /\ DOMAIN reports' = FactGraph
        /\ FactGraph \subseteq DOMAIN facts /\ FactGraph \subseteq DOMAIN reports
        /\ \A n \in FactGraph : facts'[n] = facts[n] /\ reports'[n] = reports[n]
        /\ facts' \in [FactGraph -> Fact]
        /\ reports' \in [FactGraph -> ReflectionAnswer]
    BY <1>6 DEF Assemble, FactGraph, TypeOK
  <2>2. todo' \subseteq FactGraph
    BY <1>6 DEF Assemble, Selections
  <2>3. pc' = "build" /\ UNCHANGED <<visits, matrix, cand, supported, approved,
                                     published>>
    BY <1>6 DEF Assemble
  <2> QED
    BY <2>1, <2>2, <2>3 DEF TypeOK
<1>7. ASSUME NEW n \in todo, NextFact(n)
      PROVE  TypeOK'
  <2>1. n \in Number
    BY DEF TypeOK
  <2>2. cand' \in Candidate
    <3>1. CASE UNCHANGED cand
      BY <3>1 DEF TypeOK
    <3>2. CASE cand' = [NoCandidate EXCEPT !.number = n]
      BY <2>1, <3>2, NoneTyped DEF Candidate
    <3> QED
      BY <1>7, <3>1, <3>2 DEF NextFact
  <2> QED
    BY <1>7, <2>2 DEF NextFact, TypeOK, Construction
<1>8. ASSUME pc = "realize",
             NEW a \in RealizationAnswer(facts[cand.number].leaf), Realize(a)
      PROVE  TypeOK'
  <2>1. /\ a.value \in Value /\ a.prefix \in Prefix
        /\ a.counterPrefix \in Prefix /\ a.same \in BOOLEAN
    BY DEF RealizationAnswer, Prefix
  <2>2. cand' \in Candidate /\ approved' \subseteq Number
        /\ pc' \in {"backparse", "build"}
    <3>1. CASE Rejected
      BY <3>1, RejectedTyped
    <3>2. CASE /\ cand' = [cand EXCEPT !.value = a.value, !.prefix = a.prefix,
                                       !.counterPrefix = a.counterPrefix,
                                       !.same = a.same]
               /\ pc' = "backparse" /\ UNCHANGED approved
      BY <2>1, <3>2 DEF TypeOK, Candidate
    <3> QED
      BY <1>8, <3>1, <3>2 DEF Realize
  <2> QED
    BY <1>8, <2>2 DEF Realize, TypeOK, Construction
<1>9. ASSUME NEW a \in BackparseAnswer, Backparse(a)
      PROVE  TypeOK'
  <2>1. cand' \in Candidate /\ approved' \subseteq Number
        /\ pc' \in {"monitor", "build"}
    BY <1>9, RejectedTyped DEF Backparse, TypeOK
  <2> QED
    BY <1>9, <2>1 DEF Backparse, TypeOK, Construction
<1>10. ASSUME NEW a \in MonitorAnswer, Monitor(a) \/ Remonitor(a)
       PROVE  TypeOK'
  <2>1. cand.number \in DOMAIN facts
    BY <1>10 DEF Monitor, Remonitor, Control, WithCandidate, Construction
  <2>2. cand' \in Candidate /\ approved' \subseteq Number
        /\ pc' \in {"remonitor", "publish"}
    <3>1. CASE pc' = "remonitor" /\ UNCHANGED <<cand, approved>>
      BY <3>1 DEF TypeOK
    <3>2. CASE SettleMonitor(a)
      <4>1. cand' = [cand EXCEPT !.report =
                       NormalizedMonitor(a, facts[cand.number])]
        BY <3>2 DEF SettleMonitor
      <4>2. cand' \in Candidate
        BY <4>1, MonitorTyped DEF TypeOK, Candidate
      <4> QED
        BY <2>1, <3>2, <4>2 DEF SettleMonitor, TypeOK
    <3> QED
      BY <1>10, <3>1, <3>2 DEF Monitor, Remonitor
  <2> QED
    BY <1>10, <2>2 DEF Monitor, Remonitor, TypeOK, Construction
<1>11. CASE Publish
  <2>1. published' \subseteq Record
    <3>1. CASE UNCHANGED published
      BY <3>1 DEF TypeOK
    <3>2. CASE published' = published \cup
                 {[number |-> cand.number, leaf |-> facts[cand.number].leaf,
                   visit |-> visits]}
      <4>1. cand.number \in DOMAIN facts
        BY <1>11 DEF Publish, Control, WithCandidate
      <4>2. facts[cand.number] \in Fact /\ cand.number \in Number
        BY <4>1 DEF TypeOK
      <4>3. visits \in 1..MaxVisits
        BY <1>11 DEF Publish, TypeOK, Control
      <4> QED
        BY <3>2, <4>2, <4>3 DEF TypeOK, Fact, Record
    <3> QED
      BY <1>11, <3>1, <3>2 DEF Publish
  <2> QED
    BY <1>11, <2>1, RejectedTyped DEF Publish, TypeOK
<1>12. CASE Complete
  BY <1>12, GoneTyped DEF Complete, TypeOK
<1>13. CASE DiscoveryRaises
  BY <1>13, GoneTyped DEF DiscoveryRaises, TypeOK
<1>14. CASE ConstructionRaises
  BY <1>14, RejectedTyped DEF ConstructionRaises, TypeOK
<1>15. CASE Die
  BY <1>15, GoneTyped DEF Die, TypeOK
<1>16. CASE UNCHANGED vars
  BY <1>16 DEF vars, videoVars, TypeOK
<1> QED
  BY <1>1, <1>2, <1>3, <1>4, <1>5, <1>6, <1>7, <1>8, <1>9, <1>10, <1>11,
     <1>12, <1>13, <1>14, <1>15, <1>16 DEF Next, Step

-----------------------------------------------------------------------------
(* The parts of the invariant *)

\* A construction step keeps the number of its candidate or gives it up.
LEMMA ConstructionSteps ==
    ASSUME TypeOK, Control
    PROVE  /\ \A a \in RealizationAnswer(facts[cand.number].leaf) :
                Realize(a) => /\ pc' \in {"backparse", "build"}
                              /\ pc' = "build" \/ cand'.number = cand.number
           /\ \A a \in BackparseAnswer :
                Backparse(a) => /\ pc' \in {"monitor", "build"}
                                /\ pc' = "build" \/ UNCHANGED cand
           /\ \A a \in MonitorAnswer :
                Monitor(a) \/ Remonitor(a) =>
                    /\ pc' \in {"remonitor", "publish"}
                    /\ cand'.number = cand.number
<1>1. ASSUME NEW a \in RealizationAnswer(facts[cand.number].leaf), Realize(a)
      PROVE  /\ pc' \in {"backparse", "build"}
             /\ pc' = "build" \/ cand'.number = cand.number
  BY <1>1 DEF Realize, Rejected, TypeOK, Candidate
<1>2. ASSUME NEW a \in BackparseAnswer, Backparse(a)
      PROVE  /\ pc' \in {"monitor", "build"}
             /\ pc' = "build" \/ UNCHANGED cand
  BY <1>2 DEF Backparse, Rejected
<1>3. ASSUME NEW a \in MonitorAnswer, Monitor(a) \/ Remonitor(a)
      PROVE  /\ pc' \in {"remonitor", "publish"}
             /\ cand'.number = cand.number
  <2>1. CASE pc' = "remonitor" /\ UNCHANGED cand
    BY <2>1
  <2>2. CASE SettleMonitor(a)
    <3>1. cand' = [cand EXCEPT !.report =
                     NormalizedMonitor(a, facts[cand.number])]
      BY <2>2 DEF SettleMonitor
    <3> QED
      BY <2>2, <3>1 DEF SettleMonitor, TypeOK, Candidate
  <2> QED
    BY <1>3, <2>1, <2>2 DEF Monitor, Remonitor
<1> QED
  BY <1>1, <1>2, <1>3

LEMMA ControlStep == TypeOK /\ Control /\ [Next]_vars => Control'
<1> SUFFICES ASSUME TypeOK, Control, [Next]_vars PROVE Control'
  OBVIOUS
<1> USE DEF Control, WithCandidate, Construction, Discovery
<1>1. CASE Visit
  BY <1>1, PipelineAssumption DEF Visit, TypeOK, videoVars, PipelineAssumption
<1>2. CASE Scan
  BY <1>2 DEF Scan
<1>3. ASSUME NEW f \in Fact, ExtractFact(f)
      PROVE  Control'
  BY <1>3 DEF ExtractFact
<1>4. CASE ExtractEnds
  BY <1>4 DEF ExtractEnds, videoVars
<1>5. ASSUME NEW a \in ReflectionAnswer, Reflect(a) \/ Refocus(a)
      PROVE  Control'
  <2>1. /\ pc' \in {"reflect", "refocus"} /\ UNCHANGED <<facts, visits>>
        /\ pc' = "refocus" => UNCHANGED reports /\ Reflected \in DOMAIN facts
    BY <1>5 DEF Reflect, Refocus
  <2> QED
    BY <1>5, <2>1 DEF Reflect, Refocus, Reflected
<1>6. CASE Assemble
  BY <1>6 DEF Assemble
<1>7. ASSUME NEW n \in todo, NextFact(n)
      PROVE  Control'
  <2>1. n \in DOMAIN facts
    BY DEF TypeOK
  <2>2. [NoCandidate EXCEPT !.number = n].number = n
    BY DEF NoCandidate
  <2> QED
    BY <1>7, <2>1, <2>2 DEF NextFact
<1>8. ASSUME pc = "realize",
             NEW a \in RealizationAnswer(facts[cand.number].leaf), Realize(a)
      PROVE  Control'
  BY <1>8, ConstructionSteps DEF Realize
<1>9. ASSUME NEW a \in BackparseAnswer, Backparse(a)
      PROVE  Control'
  BY <1>9, ConstructionSteps DEF Backparse
<1>10. ASSUME NEW a \in MonitorAnswer, Monitor(a) \/ Remonitor(a)
       PROVE  Control'
  <2>1. pc \in {"monitor", "remonitor"} /\ UNCHANGED <<facts, visits>>
    BY <1>10 DEF Monitor, Remonitor
  <2> QED
    BY <1>10, <2>1, ConstructionSteps
<1>11. CASE Publish
  BY <1>11 DEF Publish, Rejected
<1>12. CASE Complete
  BY <1>12, GoneTyped DEF Complete
<1>13. CASE DiscoveryRaises
  BY <1>13, GoneTyped DEF DiscoveryRaises
<1>14. CASE ConstructionRaises
  BY <1>14 DEF ConstructionRaises, Rejected
<1>15. CASE Die
  BY <1>15, GoneTyped DEF Die
<1>16. CASE UNCHANGED vars
  BY <1>16 DEF vars, videoVars, Reflected
<1> QED
  BY <1>1, <1>2, <1>3, <1>4, <1>5, <1>6, <1>7, <1>8, <1>9, <1>10, <1>11,
     <1>12, <1>13, <1>14, <1>15, <1>16 DEF Next, Step

\* How a step may change what the discovery has found.
FoundNothing == VideoGone
FoundSame == UNCHANGED <<matrix, facts, reports, supported>>
FoundReport ==
    /\ UNCHANGED <<matrix, facts>>
    /\ Reflected \in DOMAIN facts
    /\ pc \in {"reflect", "refocus"} /\ pc' = "reflect"
    /\ \E a \in ReflectionAnswer : SettleReport(a)

LEMMA FoundSteps ==
    ASSUME TypeOK, Control, [Next]_vars
    PROVE  \/ FoundNothing /\ pc' \in {"raised", "completed"}
           \/ FoundSame /\ (pc' \in Building => pc \in Building)
           \/ FoundReport
           \/ Scan
           \/ \E f \in Fact : ExtractFact(f)
           \/ Assemble
<1> USE DEF FoundNothing, FoundSame, FoundReport, Building, Construction
<1>1. CASE Visit
  BY <1>1 DEF Visit, videoVars
<1>2. CASE Scan \/ \E f \in Fact : ExtractFact(f)
  BY <1>2
<1>3. CASE ExtractEnds
  BY <1>3 DEF ExtractEnds, videoVars
<1>4. ASSUME NEW a \in ReflectionAnswer, Reflect(a) \/ Refocus(a)
      PROVE  (FoundSame /\ pc' = "refocus") \/ FoundReport
  <2>1. UNCHANGED <<matrix, facts>> /\ Reflected \in DOMAIN facts
        /\ pc \in {"reflect", "refocus"}
    BY <1>4 DEF Reflect, Refocus, Control
  <2>2. \/ UNCHANGED <<reports, supported>> /\ pc' = "refocus"
        \/ SettleReport(a) /\ pc' = "reflect"
    BY <1>4 DEF Reflect, Refocus
  <2> QED
    BY <2>1, <2>2
<1>5. CASE \E n \in todo : NextFact(n)
  BY <1>5 DEF NextFact
<1>6. CASE /\ pc = "realize"
           /\ \E a \in RealizationAnswer(facts[cand.number].leaf) : Realize(a)
  BY <1>6 DEF Realize
<1>7. CASE \E a \in BackparseAnswer : Backparse(a)
  BY <1>7 DEF Backparse
<1>8. CASE \E a \in MonitorAnswer : Monitor(a) \/ Remonitor(a)
  BY <1>8 DEF Monitor, Remonitor
<1>9. CASE Publish
  BY <1>9 DEF Publish
<1>10. CASE Complete \/ DiscoveryRaises \/ Die
  BY <1>10 DEF Complete, DiscoveryRaises, Die
<1>11. CASE ConstructionRaises
  BY <1>11 DEF ConstructionRaises
<1>12. CASE UNCHANGED vars
  BY <1>12 DEF vars, videoVars
<1>13. CASE Assemble
  BY <1>13
<1> QED
  BY <1>1, <1>2, <1>3, <1>4, <1>5, <1>6, <1>7, <1>8, <1>9, <1>10, <1>11,
     <1>12, <1>13 DEF Next, Step

LEMMA RetrievalStep == TypeOK /\ Control /\ RetrievalGate /\ [Next]_vars => RetrievalGate'
<1> SUFFICES ASSUME TypeOK, Control, RetrievalGate, [Next]_vars
             PROVE  RetrievalGate'
  OBVIOUS
<1>1. CASE VideoGone
  BY <1>1, ClearedRow DEF VideoGone, RetrievalGate, NoMatrix
<1>2. CASE Scan
  BY <1>2, ClearedRow DEF Scan, RetrievalGate
<1>3. CASE UNCHANGED matrix
  BY <1>3 DEF RetrievalGate
<1> QED
  BY <1>1, <1>2, <1>3, FoundSteps
     DEF FoundNothing, FoundSame, FoundReport, ExtractFact, Assemble

LEMMA StableStep == TypeOK /\ Control /\ FactsStable /\ [Next]_vars => FactsStable'
<1> SUFFICES ASSUME TypeOK, Control, FactsStable, [Next]_vars
             PROVE  FactsStable'
  OBVIOUS
<1>1. CASE DOMAIN facts' = {}
  BY <1>1 DEF FactsStable
<1>2. CASE UNCHANGED <<matrix, facts>>
  BY <1>2 DEF FactsStable, Conditioned
<1>3. CASE Scan
  BY <1>1, <1>3 DEF Scan, Control
<1>4. ASSUME NEW f \in Fact, ExtractFact(f)
      PROVE  FactsStable'
  <2> DEFINE n == NextNumber
  <2>1. /\ UNCHANGED matrix /\ KeepFact(f)
        /\ facts' = [m \in DOMAIN facts \cup {n} |->
                       IF m = n THEN f ELSE facts[m]]
    BY <1>4 DEF ExtractFact
  <2> HIDE DEF n
  <2>2. \A m \in DOMAIN facts' : IF m = n THEN facts'[m] = f
                                 ELSE m \in DOMAIN facts /\ facts'[m] = facts[m]
    BY <2>1
  <2>3. \A m \in DOMAIN facts' : Conditioned(facts'[m])
    BY <2>1, <2>2 DEF FactsStable, KeepFact
  <2>4. \A l, m \in DOMAIN facts' : l # m => facts'[l].leaf # facts'[m].leaf
    BY <2>1, <2>2 DEF FactsStable, KeepFact
  <2>5. ASSUME NEW m \in DOMAIN facts'
        PROVE  Conditioned(facts[m])'
    BY <2>1, <2>3 DEF Conditioned
  <2> QED
    BY <2>4, <2>5 DEF FactsStable
<1>5. CASE Assemble
  <2>1. /\ UNCHANGED matrix /\ DOMAIN facts' \subseteq DOMAIN facts
        /\ \A m \in DOMAIN facts' : facts'[m] = facts[m]
    BY <1>5 DEF Assemble, FactGraph
  <2> QED
    BY <2>1 DEF FactsStable, Conditioned
<1> QED
  BY <1>1, <1>2, <1>3, <1>4, <1>5, FoundSteps, GoneTyped
     DEF FoundNothing, FoundSame, FoundReport

LEMMA SupportStep ==
    TypeOK /\ Control /\ ReportsSupport /\ [Next]_vars => ReportsSupport'
<1> SUFFICES ASSUME TypeOK, Control, ReportsSupport, [Next]_vars
             PROVE  ReportsSupport'
  OBVIOUS
<1>1. CASE DOMAIN reports' = {}
  BY <1>1 DEF ReportsSupport
<1>2. CASE UNCHANGED <<facts, reports, supported>>
  BY <1>2 DEF ReportsSupport
<1>3. CASE FoundReport
  <2>1. PICK a \in ReflectionAnswer : SettleReport(a)
    BY <1>3 DEF FoundReport
  <2>2. Reflected \in DOMAIN facts /\ UNCHANGED facts
    BY <1>3 DEF FoundReport
  <2> DEFINE n == Reflected
  <2>3. /\ DOMAIN reports' = DOMAIN reports \cup {n}
        /\ supported \subseteq supported'
        /\ reports'[n] = Normalized(a, facts[n])
        /\ \A m \in DOMAIN reports \ {n} : reports'[m] = reports[m]
        /\ Supports(a, facts[n]) => n \in supported'
    BY <2>1, <2>2, Settled
  <2> HIDE DEF n
  <2>4. ASSUME AcceptedReflection(Normalized(a, facts[n]), facts[n].scope)
        PROVE  Supports(a, facts[n])
    <3>1. CASE a.verdict = "supported" /\ ~Grounded(a, facts[n].scope)
      <4>1. Normalized(a, facts[n]).verdict = "insufficient"
        BY <3>1 DEF Normalized, ReflectionAnswer
      <4> QED
        BY <2>4, <4>1 DEF AcceptedReflection
    <3>2. CASE ~(a.verdict = "supported" /\ ~Grounded(a, facts[n].scope))
      <4>1. /\ Normalized(a, facts[n]).verdict = a.verdict
            /\ Normalized(a, facts[n]).checks = a.checks
            /\ Normalized(a, facts[n]).interval = a.interval
            /\ Normalized(a, facts[n]).summary = a.summary
        BY <3>2 DEF Normalized, ReflectionAnswer
      <4> QED
        BY <2>4, <4>1 DEF AcceptedReflection, Supports, Grounded
    <3> QED
      BY <3>1, <3>2
  <2>5. ASSUME NEW m \in DOMAIN reports',
               AcceptedReflection(reports'[m], facts[m].scope)
        PROVE  m \in supported'
    <3>1. CASE m = n
      BY <2>3, <2>4, <2>5, <3>1
    <3>2. CASE m # n
      BY <2>3, <2>5, <3>2 DEF ReportsSupport
    <3> QED
      BY <3>1, <3>2
  <2> QED
    BY <2>2, <2>5 DEF ReportsSupport
<1>4. CASE Scan
  BY <1>4, <1>1 DEF Scan, Control
<1>5. ASSUME NEW f \in Fact, ExtractFact(f)
      PROVE  ReportsSupport'
  BY <1>5, <1>1 DEF ExtractFact, Control
<1>6. CASE Assemble
  <2>1. /\ UNCHANGED supported /\ DOMAIN reports' \subseteq DOMAIN reports
        /\ \A m \in DOMAIN reports' :
              reports'[m] = reports[m] /\ facts'[m] = facts[m]
    BY <1>6 DEF Assemble, FactGraph
  <2> QED
    BY <2>1 DEF ReportsSupport
<1> QED
  BY <1>1, <1>2, <1>3, <1>4, <1>5, <1>6, FoundSteps, GoneTyped
     DEF FoundNothing, FoundSame

LEMMA AssembledStep == TypeOK /\ Control /\ Assembled /\ [Next]_vars => Assembled'
<1> SUFFICES ASSUME TypeOK, Control, Assembled, [Next]_vars
             PROVE  Assembled'
  OBVIOUS
<1>1. CASE pc' \notin Building
  BY <1>1 DEF Assembled
<1>2. CASE FoundSame /\ (pc' \in Building => pc \in Building)
  BY <1>2 DEF FoundSame, Assembled
<1>3. CASE Assemble
  <2>1. /\ DOMAIN facts' = FactGraph /\ DOMAIN reports' = FactGraph
        /\ \A m \in FactGraph : reports'[m] = reports[m] /\ facts'[m] = facts[m]
    BY <1>3 DEF Assemble, FactGraph
  <2>2. \A m \in FactGraph : AcceptedReflection(reports[m], facts[m].scope)
    BY DEF FactGraph
  <2> QED
    BY <2>1, <2>2 DEF Assembled
<1> QED
  BY <1>1, <1>2, <1>3, FoundSteps
     DEF FoundReport, Scan, ExtractFact, Building, Construction

\* What the graph difference sees of a replaced slot.
LEMMA SlotReplaced ==
    ASSUME NEW l, NEW value, NEW other, other # value
    PROVE  SingleSlot(Atomic(l, value), Replaced(Atomic(l, value), other))
<1> DEFINE f == Atomic(l, value)
           g == Replaced(Atomic(l, value), other)
<1>1. f = [kind |-> l, anchors |-> "own", slot |-> value]
  BY DEF Atomic
<1>2. /\ DOMAIN f = {"kind", "anchors", "slot"} /\ f.slot = value
      /\ g = [f EXCEPT !.slot = other]
  BY <1>1 DEF Replaced
<1> HIDE DEF f
<1>3. \A k \in DOMAIN f : f[k] # g[k] <=> k = "slot"
  BY <1>2, Zenon
<1> QED
  BY <1>2, <1>3 DEF SingleSlot, GraphDiff, f

LEMMA RealizedStep ==
    TypeOK /\ Control /\ CandidateRealized /\ [Next]_vars => CandidateRealized'
<1> SUFFICES ASSUME TypeOK, Control, CandidateRealized, [Next]_vars,
                    pc' \in Realized
             PROVE  CandidateRealized'
  BY DEF CandidateRealized
<1> USE DEF Realized, WithCandidate, Construction, Discovery
<1>1. ASSUME pc = "realize",
             NEW a \in RealizationAnswer(facts[cand.number].leaf), Realize(a)
      PROVE  CandidateRealized'
  <2>1. /\ RealizationOK(facts[cand.number], a)
        /\ cand' = [cand EXCEPT !.value = a.value, !.prefix = a.prefix,
                                !.counterPrefix = a.counterPrefix,
                                !.same = a.same]
        /\ UNCHANGED facts
    BY <1>1 DEF Realize, Rejected
  <2>2. /\ cand'.number = cand.number /\ cand'.value = a.value
        /\ cand'.prefix = a.prefix /\ cand'.counterPrefix = a.counterPrefix
    BY <2>1 DEF TypeOK, Candidate
  <2>3. /\ a.value # facts[cand.number].value
        /\ Aligned(facts[cand.number].leaf, facts[cand.number].value, a.prefix,
                   a.value, a.counterPrefix)
    BY <2>1 DEF RealizationOK, Replaceable, Atomic
  <2> QED
    BY <2>1, <2>2, <2>3 DEF CandidateRealized
<1>2. ASSUME NEW a \in BackparseAnswer, Backparse(a)
      PROVE  CandidateRealized'
  BY <1>2 DEF Backparse, Rejected, CandidateRealized
<1>3. ASSUME NEW a \in MonitorAnswer, Monitor(a) \/ Remonitor(a)
      PROVE  CandidateRealized'
  <2>1. /\ cand'.number = cand.number /\ cand'.value = cand.value
        /\ cand'.prefix = cand.prefix
        /\ cand'.counterPrefix = cand.counterPrefix
    <3>1. CASE UNCHANGED cand
      BY <3>1
    <3>2. CASE SettleMonitor(a)
      <4>1. cand' = [cand EXCEPT !.report =
                       NormalizedMonitor(a, facts[cand.number])]
        BY <3>2 DEF SettleMonitor
      <4> QED
        BY <4>1 DEF TypeOK, Candidate
    <3> QED
      BY <1>3, <3>1, <3>2 DEF Monitor, Remonitor
  <2>2. UNCHANGED facts /\ pc \in {"monitor", "remonitor"}
    BY <1>3 DEF Monitor, Remonitor
  <2> QED
    BY <2>1, <2>2 DEF CandidateRealized
<1>4. CASE UNCHANGED vars
  BY <1>4 DEF vars, videoVars, CandidateRealized
<1>5. ASSUME NEW n \in todo, NextFact(n)
      PROVE  FALSE
  BY <1>5 DEF NextFact
<1>6. ASSUME NEW a \in ReflectionAnswer, Reflect(a) \/ Refocus(a)
      PROVE  FALSE
  BY <1>6 DEF Reflect, Refocus
<1>7. ASSUME NEW f \in Fact, ExtractFact(f)
      PROVE  FALSE
  BY <1>7 DEF ExtractFact
<1>8. ~(Visit \/ Scan \/ ExtractEnds \/ Assemble \/ Publish \/ Complete
        \/ DiscoveryRaises \/ ConstructionRaises \/ Die)
  BY DEF Visit, Scan, ExtractEnds, Assemble, Publish, Complete,
         DiscoveryRaises, ConstructionRaises, Die, Rejected
<1> QED
  BY <1>1, <1>2, <1>3, <1>4, <1>5, <1>6, <1>7, <1>8 DEF Next, Step

\* The last gate of the orchestrator asks of the report what an approval asks
\* of the answer.
LEMMA ReportApproves ==
    ASSUME NEW answer \in MonitorAnswer, NEW fact,
           LET report == NormalizedMonitor(answer, fact)
           IN  /\ report.accepted
               /\ report.answer = "supported"
               /\ report.counterfactual = "contradicted"
               /\ report.checks = MonitorCheck
               /\ report.errors = 0
               /\ Grounded(report, fact.scope)
    PROVE  Approves(answer, fact)
<1> DEFINE withdrawn == answer.accepted /\ ~Grounded(answer, fact.scope)
<1>1. CASE withdrawn
  <2>1. NormalizedMonitor(answer, fact).accepted = FALSE
    BY <1>1 DEF NormalizedMonitor, MonitorAnswer
  <2> QED
    BY <2>1
<1>2. CASE ~withdrawn
  <2>1. NormalizedMonitor(answer, fact) = [answer EXCEPT !.recoverable = FALSE]
    BY <1>2, Zenon DEF NormalizedMonitor
  <2>2. LET report == NormalizedMonitor(answer, fact)
        IN  /\ report.accepted = answer.accepted
            /\ report.answer = answer.answer
            /\ report.counterfactual = answer.counterfactual
            /\ report.checks = answer.checks
            /\ report.errors = answer.errors
            /\ report.interval = answer.interval
            /\ report.summary = answer.summary
    BY <2>1 DEF MonitorAnswer
  <2> QED
    BY <2>2 DEF Approves, Grounded
<1> QED
  BY <1>1, <1>2

LEMMA ApprovalStep ==
    /\ TypeOK /\ Control /\ ReportsSupport /\ Assembled /\ Approval
    /\ [Next]_vars
    => Approval'
<1> SUFFICES ASSUME TypeOK, Control, ReportsSupport, Assembled, Approval,
                    [Next]_vars
             PROVE  Approval'
  OBVIOUS
<1> USE DEF Construction, Discovery
<1>1. CASE approved' = {} /\ pc' # "publish"
  BY <1>1 DEF Approval
<1>2. ASSUME NEW a \in MonitorAnswer, SettleMonitor(a), UNCHANGED <<facts, supported>>,
             pc \in Construction
      PROVE  Approval'
  <2> DEFINE n == cand.number
  <2>1. n \in DOMAIN facts /\ cand \in Candidate
    BY <1>2 DEF Control, WithCandidate, TypeOK
  <2>2. n \in supported
    BY <1>2, <2>1 DEF Assembled, ReportsSupport, Building
  <2>3. cand' = [cand EXCEPT !.report = NormalizedMonitor(a, facts[n])]
    BY <1>2 DEF SettleMonitor
  <2>4. cand'.number = n /\ cand'.report = NormalizedMonitor(a, facts[n])
    BY <2>1, <2>3 DEF Candidate
  <2>5. approved' = IF Approves(a, facts[n]) THEN {n} ELSE {}
    BY <1>2 DEF SettleMonitor
  <2>6. ASSUME ReliabilityGate' PROVE Approves(a, facts[n])
    BY <1>2, <2>4, <2>6, ReportApproves DEF ReliabilityGate
  <2>7. pc' = "publish"
    BY <1>2 DEF SettleMonitor
  <2> HIDE DEF n
  <2> QED
    BY <1>2, <2>2, <2>4, <2>5, <2>6, <2>7 DEF Approval
<1>3. CASE \E a \in MonitorAnswer : Monitor(a) \/ Remonitor(a)
  BY <1>1, <1>2, <1>3 DEF Monitor, Remonitor, Approval
<1>4. CASE UNCHANGED vars
  BY <1>4 DEF vars, videoVars, Approval, ReliabilityGate, Grounded
<1>5. CASE Publish \/ ConstructionRaises
  BY <1>1, <1>5 DEF Publish, ConstructionRaises, Rejected
<1>6. CASE Complete \/ DiscoveryRaises \/ Die
  BY <1>1, <1>6 DEF Complete, DiscoveryRaises, Die, VideoGone
<1>7. CASE Visit \/ Scan \/ ExtractEnds \/ Assemble
  BY <1>1, <1>7 DEF Visit, Scan, ExtractEnds, Assemble, Approval, videoVars
<1>8. CASE \E f \in Fact : ExtractFact(f)
  BY <1>1, <1>8 DEF ExtractFact, Approval
<1>9. CASE \E a \in ReflectionAnswer : Reflect(a) \/ Refocus(a)
  BY <1>1, <1>9 DEF Reflect, Refocus, Approval
<1>10. CASE \E n \in todo : NextFact(n)
  BY <1>1, <1>10 DEF NextFact, Approval
<1>11. CASE /\ pc = "realize"
            /\ \E a \in RealizationAnswer(facts[cand.number].leaf) : Realize(a)
  BY <1>1, <1>11 DEF Realize, Rejected, Approval
<1>12. CASE \E a \in BackparseAnswer : Backparse(a)
  BY <1>1, <1>12 DEF Backparse, Rejected, Approval
<1> QED
  BY <1>3, <1>4, <1>5, <1>6, <1>7, <1>8, <1>9, <1>10, <1>11, <1>12
     DEF Next, Step

LEMMA PublishedStep ==
    TypeOK /\ Control /\ FactsStable /\ Published /\ [Next]_vars => Published'
<1> SUFFICES ASSUME TypeOK, Control, FactsStable, Published, [Next]_vars
             PROVE  Published'
  OBVIOUS
<1> USE DEF Building, Construction, Discovery
<1>1. ASSUME UNCHANGED <<published, visits, facts>>,
             pc' \in Discovery => pc \in Discovery,
             pc' \in Building => pc \in Building
      PROVE  Published'
  BY <1>1 DEF Published
<1>2. ASSUME UNCHANGED <<published, visits>>, pc' \in {"raised", "completed"}
      PROVE  Published'
  BY <1>2 DEF Published
<1>3. CASE Visit
  <2>1. /\ visits' = visits + 1 /\ visits \in Nat /\ UNCHANGED published
        /\ pc' \in {"scan", "raised"}
    BY <1>3, PipelineAssumption DEF Visit, TypeOK, PipelineAssumption
  <2>2. \A r \in published : r.visit \in Nat /\ r.visit <= visits
    BY PipelineAssumption DEF TypeOK, Published, Record, PipelineAssumption
  <2>3. \A r \in published : r.visit <= visits' /\ r.visit # visits'
    BY <2>1, <2>2
  <2> QED
    BY <2>1, <2>3 DEF Published
<1>4. CASE Scan
  BY <1>4, <1>1 DEF Scan
<1>5. ASSUME NEW f \in Fact, ExtractFact(f)
      PROVE  Published'
  BY <1>5 DEF ExtractFact, Published
<1>6. CASE ExtractEnds
  BY <1>6, <1>1 DEF ExtractEnds, videoVars
<1>7. ASSUME NEW a \in ReflectionAnswer, Reflect(a) \/ Refocus(a)
      PROVE  Published'
  BY <1>7, <1>1 DEF Reflect, Refocus
<1>8. CASE Assemble
  BY <1>8 DEF Assemble, Published
<1>9. ASSUME NEW n \in todo, NextFact(n)
      PROVE  Published'
  BY <1>9, <1>1 DEF NextFact
<1>10. ASSUME pc = "realize",
              NEW a \in RealizationAnswer(facts[cand.number].leaf), Realize(a)
       PROVE  Published'
  BY <1>10, <1>1, ConstructionSteps DEF Realize
<1>11. ASSUME NEW a \in BackparseAnswer, Backparse(a)
       PROVE  Published'
  BY <1>11, <1>1, ConstructionSteps DEF Backparse
<1>12. ASSUME NEW a \in MonitorAnswer, Monitor(a) \/ Remonitor(a)
       PROVE  Published'
  <2>1. UNCHANGED <<published, visits, facts>> /\ pc \in {"monitor", "remonitor"}
        /\ pc' \in {"remonitor", "publish"}
    BY <1>12, ConstructionSteps DEF Monitor, Remonitor
  <2> QED
    BY <2>1, <1>1
<1>13. CASE Publish
  <2>1. pc = "publish" /\ pc' = "build" /\ UNCHANGED <<visits, facts>>
    BY <1>13 DEF Publish, Rejected
  <2>2. CASE UNCHANGED published
    BY <2>1, <2>2, <1>1
  <2> DEFINE new == [number |-> cand.number, leaf |-> facts[cand.number].leaf,
                     visit |-> visits]
  <2>3. CASE /\ published' = published \cup {new}
             /\ \A r \in published : r.number # cand.number
    <3>1. cand.number \in DOMAIN facts /\ visits \in Nat
      BY <2>1, PipelineAssumption
         DEF Control, WithCandidate, TypeOK, PipelineAssumption
    <3>2. /\ new.number = cand.number /\ new.leaf = facts[cand.number].leaf
          /\ new.visit = visits
      OBVIOUS
    <3> HIDE DEF new
    <3>3. \A r, s \in published' : r.number = s.number => r = s
      BY <2>3, <3>2 DEF Published
    <3>4. \A r \in published' : r.visit <= visits
      BY <2>3, <3>1, <3>2 DEF Published
    <3>5. \A r \in published' : r.visit = visits =>
             r.number \in DOMAIN facts /\ facts[r.number].leaf = r.leaf
      BY <2>1, <2>3, <3>1, <3>2 DEF Published
    <3>6. \A r, s \in published' : r.visit = s.visit /\ r.leaf = s.leaf => r = s
      <4>1. ASSUME NEW r \in published, r.visit = visits
            PROVE  r.leaf # new.leaf
        <5>1. /\ r.number \in DOMAIN facts /\ r.number # cand.number
              /\ facts[r.number].leaf = r.leaf
          BY <2>1, <2>3, <4>1 DEF Published
        <5> QED
          BY <3>1, <3>2, <5>1 DEF FactsStable
      <4> QED
        BY <2>3, <3>2, <4>1 DEF Published
    <3> QED
      BY <2>1, <3>3, <3>4, <3>5, <3>6 DEF Published
  <2> QED
    BY <1>13, <2>2, <2>3 DEF Publish
<1>14. CASE Complete \/ DiscoveryRaises \/ Die
  BY <1>14, <1>2 DEF Complete, DiscoveryRaises, Die
<1>15. CASE ConstructionRaises
  BY <1>15, <1>1 DEF ConstructionRaises, Rejected
<1>16. CASE UNCHANGED vars
  BY <1>16, <1>1 DEF vars, videoVars
<1> QED
  BY <1>3, <1>4, <1>5, <1>6, <1>7, <1>8, <1>9, <1>10, <1>11,
     <1>12, <1>13, <1>14, <1>15, <1>16 DEF Next, Step

LEMMA CappedStep ==
    /\ TypeOK /\ Control /\ Published /\ Capped /\ [Next]_vars
    => Capped'
<1> SUFFICES ASSUME TypeOK, Control, Published, Capped, [Next]_vars
             PROVE  Capped'
  OBVIOUS
<1> USE DEF Building, Construction, Discovery, WithCandidate
\* The cap of a visit is kept by whoever adds no record and no candidate.
<1>1. ASSUME UNCHANGED <<published, visits>>,
             pc' \in Building =>
                /\ pc \in Building /\ todo' \subseteq todo
                /\ pc' \in WithCandidate =>
                     \/ pc \in WithCandidate /\ cand'.number = cand.number
                     \/ cand'.number \in todo
      PROVE  Capped'
  <2> SUFFICES ASSUME NEW v \in 1..MaxVisits
               PROVE  \E chosen \in SUBSET Number :
                         /\ Cardinality(chosen) <= PairCap
                         /\ \A r \in published' : r.visit = v => r.number \in chosen
                         /\ v = visits' /\ pc' \in Building =>
                              /\ todo' \subseteq chosen
                              /\ pc' \in WithCandidate => cand'.number \in chosen
    BY DEF Capped
  <2>1. PICK chosen \in SUBSET Number :
            /\ Cardinality(chosen) <= PairCap
            /\ \A r \in published : r.visit = v => r.number \in chosen
            /\ v = visits /\ pc \in Building =>
                 /\ todo \subseteq chosen
                 /\ pc \in WithCandidate => cand.number \in chosen
    BY DEF Capped
  <2> QED
    BY <1>1, <2>1
<1>2. CASE Visit
  <2>1. UNCHANGED published /\ pc' \notin Building
    BY <1>2 DEF Visit
  <2> QED
    BY <2>1 DEF Capped
<1>3. CASE Scan
  BY <1>3, <1>1 DEF Scan
<1>4. ASSUME NEW f \in Fact, ExtractFact(f)
      PROVE  Capped'
  BY <1>4, <1>1 DEF ExtractFact
<1>5. CASE ExtractEnds
  BY <1>5, <1>1 DEF ExtractEnds
<1>6. ASSUME NEW a \in ReflectionAnswer, Reflect(a) \/ Refocus(a)
      PROVE  Capped'
  BY <1>6, <1>1 DEF Reflect, Refocus
<1>7. CASE Assemble
  <2>1. /\ UNCHANGED <<published, visits>> /\ pc' = "build" /\ pc = "reflect"
        /\ todo' \subseteq Number /\ Cardinality(todo') <= PairCap
    BY <1>7 DEF Assemble, Selections, FactGraph, TypeOK
  <2> SUFFICES ASSUME NEW v \in 1..MaxVisits
               PROVE  \E chosen \in SUBSET Number :
                         /\ Cardinality(chosen) <= PairCap
                         /\ \A r \in published' : r.visit = v => r.number \in chosen
                         /\ v = visits' /\ pc' \in Building =>
                              /\ todo' \subseteq chosen
                              /\ pc' \in WithCandidate => cand'.number \in chosen
    BY DEF Capped
  <2>2. CASE v = visits
    <3>1. \A r \in published' : r.visit # v
      BY <2>1, <2>2 DEF Published
    <3>2. todo' \in SUBSET Number
      BY <2>1
    <3> QED
      BY <2>1, <3>1, <3>2
  <2>3. CASE v # visits
    BY <2>1, <2>3 DEF Capped
  <2> QED
    BY <2>2, <2>3
<1>8. ASSUME NEW n \in todo, NextFact(n)
      PROVE  Capped'
  <2>1. [NoCandidate EXCEPT !.number = n].number = n
    BY DEF NoCandidate
  <2> QED
    BY <1>8, <1>1, <2>1 DEF NextFact
<1>9. ASSUME pc = "realize",
             NEW a \in RealizationAnswer(facts[cand.number].leaf), Realize(a)
      PROVE  Capped'
  BY <1>9, <1>1, ConstructionSteps DEF Realize
<1>10. ASSUME NEW a \in BackparseAnswer, Backparse(a)
       PROVE  Capped'
  BY <1>10, <1>1, ConstructionSteps DEF Backparse
<1>11. ASSUME NEW a \in MonitorAnswer, Monitor(a) \/ Remonitor(a)
       PROVE  Capped'
  <2>1. UNCHANGED <<published, visits, todo>> /\ pc \in {"monitor", "remonitor"}
        /\ pc' \in {"remonitor", "publish"} /\ cand'.number = cand.number
    BY <1>11, ConstructionSteps DEF Monitor, Remonitor
  <2> QED
    BY <1>1, <2>1
<1>12. CASE Publish
  <2>1. pc = "publish" /\ pc' = "build" /\ UNCHANGED <<visits, todo>>
    BY <1>12 DEF Publish, Rejected
  <2>2. \A r \in published' :
           r \in published \/ (r.number = cand.number /\ r.visit = visits)
    BY <1>12 DEF Publish
  <2> SUFFICES ASSUME NEW v \in 1..MaxVisits
               PROVE  \E chosen \in SUBSET Number :
                         /\ Cardinality(chosen) <= PairCap
                         /\ \A r \in published' : r.visit = v => r.number \in chosen
                         /\ v = visits' /\ pc' \in Building =>
                              /\ todo' \subseteq chosen
                              /\ pc' \in WithCandidate => cand'.number \in chosen
    BY DEF Capped
  <2>3. PICK chosen \in SUBSET Number :
            /\ Cardinality(chosen) <= PairCap
            /\ \A r \in published : r.visit = v => r.number \in chosen
            /\ v = visits => todo \subseteq chosen /\ cand.number \in chosen
    BY <2>1 DEF Capped
  <2> QED
    BY <2>1, <2>2, <2>3
<1>13. CASE Complete \/ DiscoveryRaises \/ Die
  BY <1>13, <1>1 DEF Complete, DiscoveryRaises, Die
<1>14. CASE ConstructionRaises
  BY <1>14, <1>1 DEF ConstructionRaises, Rejected
<1>15. CASE UNCHANGED vars
  BY <1>15, <1>1 DEF vars, videoVars
<1> QED
  BY <1>2, <1>3, <1>4, <1>5, <1>6, <1>7, <1>8, <1>9, <1>10, <1>11,
     <1>12, <1>13, <1>14, <1>15 DEF Next, Step

LEMMA PipelineStep == IInv /\ [Next]_vars => IInv'
BY TypeStep, ControlStep, RetrievalStep, StableStep, SupportStep, AssembledStep,
   RealizedStep, ApprovalStep, PublishedStep, CappedStep DEF IInv

-----------------------------------------------------------------------------
(* The properties *)

\* Every state of the pipeline has its type.
THEOREM PipelineTypeOK == Spec => []TypeOK
<1>1. IInv => TypeOK
  BY DEF IInv
<1> QED
  BY <1>1, PipelineInit, PipelineStep, PTL DEF Spec

\* The first three stages of the orchestrator refuse a candidate that the
\* runner has built, whatever the agents answered, only for errors that the
\* monitor has counted or for two answers of one text.
THEOREM PipelineRefusalsKnown == Spec => []RefusalsKnown
<1>1. IInv => RefusalsKnown
  <2> SUFFICES ASSUME IInv, pc = "publish"
               PROVE  /\ RetrievalGate /\ ExtractionGate
                      /\ \/ GenerationGate
                         \/ cand.report.errors # 0
                         \/ cand.same
    BY DEF RefusalsKnown
  <2> DEFINE fact == facts[cand.number]
  <2>1. cand.number \in DOMAIN facts
    BY DEF IInv, Control, WithCandidate
  <2>2. ExtractionGate
    BY <2>1 DEF IInv, ExtractionGate, Assembled, Building, AcceptedReflection,
                Grounded
  <2>3. /\ cand.value # fact.value
        /\ Aligned(fact.leaf, fact.value, cand.prefix,
                   cand.value, cand.counterPrefix)
    BY DEF IInv, CandidateRealized, Realized, WithCandidate
  <2>4. SingleSlot(Atomic(fact.leaf, fact.value),
                   Replaced(Atomic(fact.leaf, fact.value), cand.value))
    BY <2>3, SlotReplaced
  <2> QED
    BY <2>2, <2>3, <2>4 DEF IInv, GenerationGate
<1> QED
  BY <1>1, PipelineInit, PipelineStep, PTL DEF Spec

\* One visit publishes at most the cap and no leaf twice, for any number of
\* visits.
THEOREM PipelineVisitYield == Spec => []VisitYield
<1>1. IInv => VisitYield
  <2> SUFFICES ASSUME IInv, NEW v \in 1..MaxVisits
               PROVE  LET yield == {r \in published : r.visit = v}
                      IN  /\ Cardinality(yield) <= PairCap
                          /\ \A r, s \in yield : r.leaf = s.leaf => r = s
    BY DEF VisitYield
  <2> DEFINE yield == {r \in published : r.visit = v}
             number == [r \in yield |-> r.number]
  <2>1. PICK chosen \in SUBSET Number :
           /\ Cardinality(chosen) <= PairCap
           /\ \A r \in published : r.visit = v => r.number \in chosen
    BY DEF IInv, Capped
  <2>2. IsFiniteSet(chosen)
    BY <2>1, PipelineAssumption, FS_Subset DEF PipelineAssumption
  <2>3. number \in Injection(yield, chosen)
    BY <2>1 DEF IInv, Published, Injection, IsInjective
  <2>4. IsFiniteSet(yield) /\ Cardinality(yield) <= Cardinality(chosen)
    BY <2>2, <2>3, FS_Injection
  <2>5. Cardinality(yield) \in Nat /\ Cardinality(chosen) \in Nat
    BY <2>2, <2>4, FS_CardinalityType
  <2>6. \A r, s \in yield : r.leaf = s.leaf => r = s
    BY DEF IInv, Published
  <2> HIDE DEF yield
  <2> QED
    BY <2>1, <2>4, <2>5, <2>6, PipelineAssumption DEF PipelineAssumption, yield
<1> QED
  BY <1>1, PipelineInit, PipelineStep, PTL DEF Spec

\* The pipeline implements ReviewedPairs: whatever is published has been found
\* supported and then approved, by answers of this visit, and once only.
THEOREM PipelineImplementsReviewed == Spec => ReviewedSpec
<1> DEFINE ids == {r.number : r \in published}
<1>1. Init => Reviewed!Init
  BY DEF Init, Reviewed!Init
<1>2. IInv /\ IInv' /\ [Next]_vars
        => [Reviewed!Next]_<<supported, approved, ids>>
  <2> SUFFICES ASSUME IInv, IInv', [Next]_vars
               PROVE  [Reviewed!Next]_<<supported, approved, ids>>
    OBVIOUS
  <2> USE DEF Construction, Discovery, Building, WithCandidate
  <2>1. ASSUME UNCHANGED published, supported' \subseteq supported,
               approved' \subseteq approved
        PROVE  Reviewed!Forget
    BY <2>1 DEF Reviewed!Forget, IInv, Approval
  <2>2. ASSUME NEW a \in ReflectionAnswer, Reflect(a) \/ Refocus(a)
        PROVE  [Reviewed!Next]_<<supported, approved, ids>>
    <3>1. UNCHANGED <<approved, published>> /\ Reflected \in DOMAIN facts
      BY <2>2 DEF Reflect, Refocus, IInv, Control
    <3>2. Reflected \in Number
      BY <3>1 DEF IInv, TypeOK
    <3>3. supported' = supported \/ supported' = supported \cup {Reflected}
      BY <2>2 DEF Reflect, Refocus, SettleReport
    <3> QED
      BY <3>1, <3>2, <3>3 DEF Reviewed!Next, Reviewed!Reflect
  <2>3. ASSUME NEW a \in MonitorAnswer, Monitor(a) \/ Remonitor(a)
        PROVE  [Reviewed!Next]_<<supported, approved, ids>>
    <3>1. /\ UNCHANGED <<supported, published>>
          /\ cand.number \in DOMAIN facts /\ approved = {}
      BY <2>3 DEF Monitor, Remonitor, IInv, Control, Approval
    <3>2. cand.number \in Number /\ cand.number \in supported
      BY <2>3, <3>1
         DEF Monitor, Remonitor, IInv, TypeOK, Assembled, ReportsSupport
    <3>3. approved' = approved \/ approved' = {} \/ approved' = {cand.number}
      BY <2>3 DEF Monitor, Remonitor, SettleMonitor
    <3> QED
      BY <3>1, <3>2, <3>3 DEF Reviewed!Next, Reviewed!Approve
  <2>4. CASE Publish
    <3> DEFINE n == cand.number
    <3>1. /\ pc = "publish" /\ n \in Number /\ UNCHANGED supported
          /\ approved' = {}
      BY <2>4 DEF Publish, Rejected, IInv, Control, TypeOK
    <3>2. CASE UNCHANGED published
      BY <2>1, <3>1, <3>2 DEF Reviewed!Next
    <3>3. CASE /\ FourStages
               /\ \A r \in published : r.number # n
               /\ published' = published \cup
                    {[number |-> n, leaf |-> facts[n].leaf, visit |-> visits]}
      <4>1. n \in approved /\ approved \ {n} = {}
        BY <3>1, <3>3 DEF IInv, Approval, FourStages
      <4>2. n \notin ids
        BY <3>3
      <4>3. ids' = ids \cup {n}
        <5> DEFINE new == [number |-> n, leaf |-> facts[n].leaf, visit |-> visits]
        <5>1. published' = published \cup {new} /\ new.number = n
          BY <3>3
        <5> HIDE DEF new
        <5> QED
          BY <5>1
      <4> HIDE DEF n
      <4> QED
        BY <3>1, <4>1, <4>2, <4>3 DEF Reviewed!Next, Reviewed!Publish
    <3> QED
      BY <2>4, <3>2, <3>3 DEF Publish
  <2>5. CASE Complete \/ DiscoveryRaises \/ Die
    BY <2>1, <2>5, GoneTyped DEF Complete, DiscoveryRaises, Die, Reviewed!Next
  <2>6. CASE ConstructionRaises
    BY <2>1, <2>6 DEF ConstructionRaises, Rejected, Reviewed!Next
  <2>7. CASE /\ pc = "realize"
             /\ \E a \in RealizationAnswer(facts[cand.number].leaf) : Realize(a)
    BY <2>1, <2>7 DEF Realize, Rejected, Reviewed!Next
  <2>8. CASE \E a \in BackparseAnswer : Backparse(a)
    BY <2>1, <2>8 DEF Backparse, Rejected, Reviewed!Next
  <2>9. CASE \/ Visit \/ Scan \/ ExtractEnds \/ Assemble
             \/ \E f \in Fact : ExtractFact(f)
             \/ \E n \in todo : NextFact(n)
             \/ UNCHANGED vars
    BY <2>9 DEF Visit, Scan, ExtractEnds, Assemble, ExtractFact, NextFact,
                vars, videoVars
  <2> QED
    BY <2>2, <2>3, <2>4, <2>5, <2>6, <2>7, <2>8, <2>9 DEF Next, Step
<1> QED
  BY <1>1, <1>2, PipelineInit, PipelineStep, PTL
     DEF Spec, ReviewedSpec, Reviewed!Spec

=============================================================================
