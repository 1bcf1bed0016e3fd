---------------------------- MODULE FactPipeline ----------------------------
(***************************************************************************)
(* The four-stage agent pipeline over one video (LiveBuildRunner of        *)
(* src/videohalo/live_build.py and the graphs it invokes).                 *)
(*                                                                         *)
(* A visit registers the video, lets the agents scan it for leaves,        *)
(* extract facts and reflect on each of them, keeps the verified ones,     *)
(* selects some, and for each builds a candidate pair that is realized,    *)
(* parsed back, monitored, checked once more by the orchestrator and       *)
(* appended to the public file.  An agent's answer is any value its JSON   *)
(* schema admits.  An exception during discovery or the death of the       *)
(* process ends the visit; the scheduler may visit the video again, and    *)
(* then everything is asked anew.                                          *)
(*                                                                         *)
(* A fact is named by its number within its extraction, as source_fact_id  *)
(* and pair_id are.  Of an answer only what some gate looks at is kept.    *)
(***************************************************************************)
EXTENDS Integers, FiniteSets

CONSTANTS Number,           \* fact numbers, at least as many as leaves
          Leaf,             \* the leaves of the taxonomy, one fact kind each
          PolarLeaf,        \* EntityExistence in a video_qa task
          Value,            \* values of a conflict slot
          Present,          \* the value that a polar answer affirms
          SourceValue,      \* leaf -> values a source fact may have
          Interval,         \* time intervals <<start, end>>, any order
          ReflectionCheck,  \* boolean fields of a reflection, all required
          MonitorCheck,     \* boolean fields of a monitor report, all required
          PairCap,          \* per_video_pair_cap
          MaxVisits         \* bound on visits

ASSUME PipelineAssumption ==
    /\ Number \subseteq Nat \ {0} /\ IsFiniteSet(Number)
    /\ PolarLeaf \subseteq Leaf /\ Present \in Value
    /\ SourceValue \in [Leaf -> SUBSET Value]
    /\ Interval \subseteq Nat \X Nat
    /\ PairCap \in Nat /\ MaxVisits \in Nat

VARIABLES
    pc,         \* the step of the visit, "raised": none under way
    visits,     \* visits begun
    matrix,     \* the opportunity matrix
    facts,      \* number -> fact; once assembled, the verified ones
    reports,    \* number -> reflection report
    todo,       \* the selected numbers not tried yet
    cand,       \* the candidate under construction
    supported,  \* history: numbers whose last reflection supports the fact
    approved,   \* history: numbers whose last monitor answer approves
    published   \* the public records of this video

videoVars == <<matrix, facts, reports, todo, cand>>
vars == <<pc, visits, videoVars, supported, approved, published>>

Verdict == {"supported", "contradicted", "insufficient"}
Prefix == {"yes", "no", "none"}
NoInterval == << >>

Row == [status : {"constructible", "not_constructible", "uncertain"},
        intervals : SUBSET Interval, anchored : BOOLEAN]

Fact == [leaf : Leaf, scope : Interval, value : Value]

\* FACT_VERIFICATION_SCHEMA.  "recoverable" stands for any of the four
\* recoverable reasons.
ReflectionAnswer ==
    [verdict : Verdict, checks : SUBSET ReflectionCheck,
     interval : Interval \cup {NoInterval}, summary : BOOLEAN,
     recoverable : BOOLEAN]

\* CANDIDATE_VERIFICATION_SCHEMA; of the error count, whether it is zero.
MonitorAnswer ==
    [accepted : BOOLEAN, answer : Verdict, counterfactual : Verdict,
     checks : SUBSET MonitorCheck, errors : {0, 1},
     interval : Interval \cup {NoInterval}, summary : BOOLEAN,
     recoverable : BOOLEAN]

\* realization_schema_for: the question and the answer as frozen or not, what
\* each sentence begins with, whether both answers are one text, and the
\* replacement for the slot.
RealizationAnswer(l) ==
    LET starts == IF l \in PolarLeaf THEN {"yes", "no"} ELSE Prefix
    IN  {a \in [question : BOOLEAN, answer : BOOLEAN, prefix : starts,
                counterPrefix : starts, same : BOOLEAN, value : Value] :
            a.same => a.prefix = a.counterPrefix}

\* paired_backparse_schema_for: the values read from the two answers, and
\* whether every other field of both facts was copied.
BackparseAnswer == [copied : BOOLEAN, supported : Value, counterfactual : Value]

NoReport == [accepted |-> FALSE, answer |-> "insufficient",
             counterfactual |-> "insufficient", checks |-> {}, errors |-> 0,
             interval |-> NoInterval, summary |-> FALSE, recoverable |-> FALSE]

Candidate == [number : Number \cup {0}, value : Value, prefix : Prefix,
              counterPrefix : Prefix, same : BOOLEAN, report : MonitorAnswer]

NoCandidate == [number |-> 0, value |-> Present, prefix |-> "none",
                counterPrefix |-> "none", same |-> FALSE, report |-> NoReport]

Record == [number : Number, leaf : Leaf, visit : 1..MaxVisits]

Discovery == {"scan", "extract", "reflect", "refocus"}
Construction == {"realize", "backparse", "monitor", "remonitor"}

TypeOK ==
    /\ pc \in Discovery \cup Construction
              \cup {"raised", "build", "publish", "completed"}
    /\ visits \in 0..MaxVisits
    /\ matrix \in [Leaf -> Row]
    /\ DOMAIN facts \subseteq Number /\ facts \in [DOMAIN facts -> Fact]
    /\ DOMAIN reports \subseteq DOMAIN facts
    /\ reports \in [DOMAIN reports -> ReflectionAnswer]
    /\ todo \subseteq DOMAIN facts
    /\ cand \in Candidate
    /\ supported \subseteq Number /\ approved \subseteq Number
    /\ published \subseteq Record

-----------------------------------------------------------------------------
(* Intervals and evidence *)

\* _intervals_overlap: no interval and an inverted one overlap nothing.
Overlap(i, scope) ==
    /\ i # NoInterval
    /\ i[1] <= i[2] /\ scope[1] <= scope[2]
    /\ i[1] <= scope[2] /\ scope[1] <= i[2]

\* _has_grounded_evidence.
Grounded(answer, scope) == Overlap(answer.interval, scope) /\ answer.summary

\* What a reflection answer must say for the fact to be supported, and what a
\* monitor answer must say for the pair to be approved.
Supports(answer, fact) ==
    /\ answer.verdict = "supported"
    /\ answer.checks = ReflectionCheck
    /\ Grounded(answer, fact.scope)

Approves(answer, fact) ==
    /\ answer.accepted
    /\ answer.answer = "supported" /\ answer.counterfactual = "contradicted"
    /\ answer.checks = MonitorCheck /\ answer.errors = 0
    /\ Grounded(answer, fact.scope)

-----------------------------------------------------------------------------
(* Discovery *)

\* The matrix a row of the answer must agree with is the frozen plan: kind
\* and slot of the leaf.  A row that is not constructible loses its evidence.
ValidRow(row) ==
    row.status = "constructible" => row.intervals # {} /\ row.anchored

Cleared(row) ==
    IF row.status = "constructible" THEN row
    ELSE [row EXCEPT !.intervals = {}, !.anchored = FALSE]

NoMatrix == [l \in Leaf |->
    [status |-> "not_constructible", intervals |-> {}, anchored |-> FALSE]]

\* The tests of leaf_conditioned_facts on one fact.  Its test of the overlap
\* is not that of the evidence: an inverted interval may overlap here.
Conditioned(f) ==
    /\ matrix[f.leaf].status = "constructible"
    /\ f.scope[1] <= f.scope[2]
    /\ \E i \in matrix[f.leaf].intervals :
          f.scope[1] <= i[2] /\ f.scope[2] >= i[1]
    /\ f.value \in SourceValue[f.leaf]

\* leaf_conditioned_facts keeps a proposal if no fact of its leaf was kept.
KeepFact(f) ==
    /\ Conditioned(f)
    /\ \A n \in DOMAIN facts : facts[n].leaf # f.leaf

\* The next number of an extraction.
NextNumber == Cardinality(DOMAIN facts) + 1

\* The fact whose reflection is under way.
Reflected == Cardinality(DOMAIN reports) + 1

\* Mutation of VideoGone: the selection of the visit outlives it.
VideoGoneButTodo ==
    /\ matrix' = NoMatrix
    /\ facts' = << >> /\ reports' = << >>
    /\ cand' = NoCandidate
    /\ supported' = {} /\ approved' = {}
    /\ UNCHANGED todo

\* The locals of a discovery that raised, and of a process that died.
VideoGone ==
    /\ matrix' = NoMatrix
    /\ facts' = << >> /\ reports' = << >>
    /\ todo' = {} /\ cand' = NoCandidate
    /\ supported' = {} /\ approved' = {}

Init ==
    /\ pc = "raised" /\ visits = 0
    /\ matrix = NoMatrix
    /\ facts = << >> /\ reports = << >>
    /\ todo = {} /\ cand = NoCandidate
    /\ supported = {} /\ approved = {}
    /\ published = {}

\* What _register_and_materialize requires of preloaded media.
PreloadCheck ==
    {"manifest", "media_uri", "lease", "own_video", "active", "source_bytes",
     "lease_active", "lease_bytes", "lease_uri", "gcs", "source_ref", "schema"}

\* Preloaded media are taken when all of it agrees; without any, the video is
\* registered and uploaded here, which may raise like anything else.
MediaReady(given) == given = {} \/ given = PreloadCheck

\* The scheduler submits the video (again).
Visit ==
    /\ pc = "raised"
    /\ visits < MaxVisits
    /\ visits' = visits + 1
    /\ \E given \in SUBSET PreloadCheck :
          pc' = IF MediaReady(given) THEN "scan" ELSE "raised"
    /\ UNCHANGED <<videoVars, supported, approved, published>>

\* _scan_leaf_opportunities: an invalid matrix, or one of another video or
\* with other rows than the leaves, raises.
Scan ==
    /\ pc = "scan"
    /\ \E answer \in [Leaf -> Row] :
          /\ \A l \in Leaf : ValidRow(answer[l])
          /\ matrix' = [l \in Leaf |-> Cleared(answer[l])]
    /\ pc' = "extract"
    /\ UNCHANGED <<visits, facts, reports, todo, cand, supported, approved,
                   published>>

\* One more of the facts of the extraction answer; a fact that is not kept
\* leaves no trace.
ExtractFact(f) ==
    /\ pc = "extract"
    /\ NextNumber \in Number
    /\ KeepFact(f)
    /\ facts' = [n \in DOMAIN facts \cup {NextNumber} |->
                   IF n = NextNumber THEN f ELSE facts[n]]
    /\ UNCHANGED <<pc, visits, matrix, reports, todo, cand, supported,
                   approved, published>>

\* The answer has no more facts, or nothing was constructible.
ExtractEnds ==
    /\ pc = "extract"
    /\ pc' = "reflect"
    /\ UNCHANGED <<visits, videoVars, supported, approved, published>>

\* _focused_retry asks once more only for a recoverable reason.
Retried(insufficient, answer) == insufficient /\ answer.recoverable

\* The report _reflect_on_fact returns for the last answer: support without
\* evidence is turned into its opposite.  The reason for a retry is not read
\* again.
Normalized(answer, fact) ==
    IF answer.verdict = "supported" /\ ~Grounded(answer, fact.scope)
      THEN [answer EXCEPT !.verdict = "insufficient", !.checks = {},
                          !.interval = NoInterval, !.summary = TRUE,
                          !.recoverable = FALSE]
    ELSE [answer EXCEPT !.recoverable = FALSE]

\* The report of the fact under way is settled by this answer.
SettleReport(answer) ==
    LET n == Reflected
    IN  /\ reports' = [m \in DOMAIN reports \cup {n} |->
                         IF m = n THEN Normalized(answer, facts[n])
                         ELSE reports[m]]
        /\ supported' = IF Supports(answer, facts[n]) THEN supported \cup {n}
                        ELSE supported

Reflect(answer) ==
    /\ pc = "reflect"
    /\ Reflected \in DOMAIN facts
    /\ IF Retried(answer.verdict = "insufficient", answer)
         THEN pc' = "refocus" /\ UNCHANGED <<reports, supported>>
         ELSE SettleReport(answer) /\ UNCHANGED pc
    /\ UNCHANGED <<visits, matrix, facts, todo, cand, approved, published>>

Refocus(answer) ==
    /\ pc = "refocus"
    /\ SettleReport(answer)
    /\ pc' = "reflect"
    /\ UNCHANGED <<visits, matrix, facts, todo, cand, approved, published>>

\* Mutation of AcceptedReflection: the boolean findings are not looked at.
AcceptedVerdict(report, scope) ==
    report.verdict = "supported" /\ Grounded(report, scope)

\* _accepted_reflection of the fact graph.
AcceptedReflection(report, scope) ==
    /\ report.verdict = "supported"
    /\ report.checks = ReflectionCheck
    /\ Overlap(report.interval, scope) /\ report.summary

\* assemble_fact_graph: the facts whose one report is accepted.
FactGraph ==
    {n \in DOMAIN facts : /\ n \in DOMAIN reports
                          /\ AcceptedReflection(reports[n], facts[n].scope)}

\* evaluate_eligibility: the reasons against a fact.
EligibilityReasons(reflected, evaluable, alternatives, verdict) ==
    {r \in {"fact_reflection_missing", "dependency_not_evaluable",
            "no_grounded_counterfactual_alternative",
            "source_fact_not_supported"} :
        \/ r = "fact_reflection_missing" /\ ~reflected
        \/ r = "dependency_not_evaluable" /\ ~evaluable
        \/ r = "no_grounded_counterfactual_alternative" /\ alternatives < 1
        \/ r = "source_fact_not_supported" /\ verdict # "supported"}

\* Mutation of Selections: the cap is not looked at.
SelectionsUncapped(numbers) ==
    {s \in SUBSET numbers :
        \A m, n \in s : m # n => facts[m].leaf # facts[n].leaf}

\* select_faithful_relative for one video: at most the cap (fewer near the
\* target of the file), one per leaf; the rank decides which.
Selections(numbers) ==
    {s \in SUBSET numbers :
        /\ Cardinality(s) <= PairCap
        /\ \A m, n \in s : m # n => facts[m].leaf # facts[n].leaf}

\* The end of _discover_video and the head of run(): the verified facts, all
\* of them eligible, go to the selection.
Assemble ==
    /\ pc = "reflect"
    /\ Reflected \notin DOMAIN facts
    /\ facts' = [n \in FactGraph |-> facts[n]]
    /\ reports' = [n \in FactGraph |-> reports[n]]
    /\ todo' \in Selections({n \in FactGraph :
                    EligibilityReasons(TRUE, TRUE, 1, "supported") = {}})
    /\ pc' = "build"
    /\ UNCHANGED <<visits, matrix, cand, supported, approved, published>>

-----------------------------------------------------------------------------
(* Construction of a candidate *)

\* A normalized fact has the kind of its leaf, anchors and a slot; "own" are
\* the anchors of the source fact.
Atomic(l, value) == [kind |-> l, anchors |-> "own", slot |-> value]

\* diff_atomic_facts, for two facts of one structure.
GraphDiff(f, g) == {k \in DOMAIN f : f[k] # g[k]}

\* assert_single_slot_change and the comparison with the frozen slot.
SingleSlot(f, g) == GraphDiff(f, g) = {"slot"}

\* apply_slot_replacement: the fact with another value in its slot.
Replaceable(f, value) == value # f.slot
Replaced(f, value) == [f EXCEPT !.slot = value]

\* validate_mutation: one slot changed, that of the operator for this leaf.
ValidMutation(f, g, l) == SingleSlot(f, g) /\ g.kind = l

\* "Yes" exactly for the value that affirms existence.
PolarPrefix(value) == IF value = Present THEN "yes" ELSE "no"

\* validate_question_answer_alignment, with answer_form_for.
Aligned(l, value, prefix, counterValue, counterPrefix) ==
    IF l \in PolarLeaf
      THEN prefix = PolarPrefix(value) /\ counterPrefix = PolarPrefix(counterValue)
      ELSE prefix = "none" /\ counterPrefix = "none"

\* The tests of _realize on the answer of the generation agent.  None of them
\* compares the two answers with each other.
RealizationOK(fact, answer) ==
    LET source == Atomic(fact.leaf, fact.value)
    IN  /\ answer.question
        /\ fact.leaf \notin PolarLeaf => answer.answer
        /\ Replaceable(source, answer.value)
        /\ ValidMutation(source, Replaced(source, answer.value), fact.leaf)
        /\ Aligned(fact.leaf, fact.value, answer.prefix,
                   answer.value, answer.counterPrefix)

\* A candidate is given up; the next one is tried.
Rejected ==
    /\ cand' = NoCandidate
    /\ approved' = {}
    /\ pc' = "build"

\* Mutation of NextFact: the fact stays selected.
NextFactAgain(n) ==
    /\ pc = "build"
    /\ n \in todo
    /\ \A r \in published : r.number # n
    /\ cand' = [NoCandidate EXCEPT !.number = n]
    /\ pc' = "realize"
    /\ UNCHANGED <<visits, matrix, facts, reports, todo, supported, approved,
                   published>>

\* The next selected fact: one whose pair id is in the file is skipped.
NextFact(n) ==
    /\ pc = "build"
    /\ n \in todo
    /\ todo' = todo \ {n}
    /\ IF \E r \in published : r.number = n
         THEN UNCHANGED <<pc, cand>>
         ELSE /\ cand' = [NoCandidate EXCEPT !.number = n]
              /\ pc' = "realize"
    /\ UNCHANGED <<visits, matrix, facts, reports, supported, approved,
                   published>>

Realize(answer) ==
    /\ pc = "realize"
    /\ IF RealizationOK(facts[cand.number], answer)
         THEN /\ cand' = [cand EXCEPT !.value = answer.value,
                                      !.prefix = answer.prefix,
                                      !.counterPrefix = answer.counterPrefix,
                                      !.same = answer.same]
              /\ pc' = "backparse"
              /\ UNCHANGED approved
         ELSE Rejected
    /\ UNCHANGED <<visits, matrix, facts, reports, todo, supported, published>>

\* The tests of _backparse_pair and of _construct_candidate on its result:
\* what was read from the answers is what they were made from.
BackparseOK(fact, value, answer) ==
    /\ answer.copied
    /\ answer.supported = fact.value /\ answer.counterfactual = value
    /\ SingleSlot(Atomic(fact.leaf, answer.supported),
                  Atomic(fact.leaf, answer.counterfactual))

Backparse(answer) ==
    /\ pc = "backparse"
    /\ IF BackparseOK(facts[cand.number], cand.value, answer)
         THEN pc' = "monitor" /\ UNCHANGED <<cand, approved>>
         ELSE Rejected
    /\ UNCHANGED <<visits, matrix, facts, reports, todo, supported, published>>

\* The report _monitor_candidate returns for the last answer: acceptance
\* without evidence is withdrawn.
NormalizedMonitor(answer, fact) ==
    IF answer.accepted /\ ~Grounded(answer, fact.scope)
      THEN [answer EXCEPT !.accepted = FALSE, !.answer = "insufficient",
                          !.checks = @ \ {"natural_answer_matches_source_fact"},
                          !.interval = NoInterval, !.summary = TRUE,
                          !.recoverable = FALSE]
    ELSE [answer EXCEPT !.recoverable = FALSE]

\* The candidate leaves _construct_candidate whatever its report says.
SettleMonitor(answer) ==
    LET n == cand.number
    IN  /\ cand' = [cand EXCEPT !.report = NormalizedMonitor(answer, facts[n])]
        /\ approved' = IF Approves(answer, facts[n]) THEN {n} ELSE {}
        /\ pc' = "publish"

Monitor(answer) ==
    /\ pc = "monitor"
    /\ IF Retried("insufficient" \in {answer.answer, answer.counterfactual},
                  answer)
         THEN pc' = "remonitor" /\ UNCHANGED <<cand, approved>>
         ELSE SettleMonitor(answer)
    /\ UNCHANGED <<visits, matrix, facts, reports, todo, supported, published>>

Remonitor(answer) ==
    /\ pc = "remonitor"
    /\ SettleMonitor(answer)
    /\ UNCHANGED <<visits, matrix, facts, reports, todo, supported, published>>

-----------------------------------------------------------------------------
(* The orchestrator's gates and the publication *)

\* hallucination_category_retrieval: the one matrix is validated again.
RetrievalGate == \A l \in Leaf : ValidRow(matrix[l]) /\ Cleared(matrix[l]) = matrix[l]

\* leaf_conditioned_fact_extraction: filtering the facts again must not drop
\* any of them.
FactsStable ==
    \A n \in DOMAIN facts :
        /\ Conditioned(facts[n])
        /\ \A m \in DOMAIN facts : m # n => facts[m].leaf # facts[n].leaf

\* fact_extraction_and_reflection: every fact of the graph, not only that of
\* the candidate, has one report that supports it in all respects.
ExtractionGate ==
    /\ FactsStable
    /\ \A n \in DOMAIN facts :
          /\ n \in DOMAIN reports
          /\ reports[n].verdict = "supported"
          /\ reports[n].checks = ReflectionCheck
          /\ Grounded(reports[n], facts[n].scope)
    /\ cand.number \in DOMAIN facts

\* generation_and_verification_of_adversarial_pairs.
GenerationGate ==
    LET fact == facts[cand.number]
        source == Atomic(fact.leaf, fact.value)
    IN  /\ SingleSlot(source, Replaced(source, cand.value))
        /\ ~cand.same
        /\ Aligned(fact.leaf, fact.value, cand.prefix,
                   cand.value, cand.counterPrefix)
        /\ cand.report.errors = 0

\* Mutation of ReliabilityGate: the verdict on the counterfactual is not
\* looked at.
ReliabilityLax ==
    /\ cand.report.accepted /\ cand.report.answer = "supported"
    /\ cand.report.checks = MonitorCheck /\ cand.report.errors = 0
    /\ Grounded(cand.report, facts[cand.number].scope)

\* validate_internal_pair with _monitor_rejection_reason.
ReliabilityGate ==
    /\ cand.report.accepted
    /\ cand.report.answer = "supported"
    /\ cand.report.counterfactual = "contradicted"
    /\ cand.report.checks = MonitorCheck
    /\ cand.report.errors = 0
    /\ Grounded(cand.report, facts[cand.number].scope)

\* The four nodes of the BuildGraph, one after the other.
FourStages ==
    RetrievalGate /\ ExtractionGate /\ GenerationGate /\ ReliabilityGate

\* The end of the BuildGraph: all four stages, then the append, which refuses
\* a pair id that is there and a file that is full.
Publish ==
    /\ pc = "publish"
    /\ \/ /\ FourStages
          /\ \A r \in published : r.number # cand.number
          /\ published' = published \cup
               {[number |-> cand.number, leaf |-> facts[cand.number].leaf,
                 visit |-> visits]}
       \/ UNCHANGED published
    /\ Rejected
    /\ UNCHANGED <<visits, matrix, facts, reports, todo, supported>>

\* run() returns: the video is completed.
Complete ==
    /\ pc = "build" /\ todo = {}
    /\ pc' = "completed"
    /\ VideoGone
    /\ UNCHANGED <<visits, published>>

\* A call that raises (its attempts are exhausted, or the answer came for
\* other media) and the tests of the discovery that raise.
DiscoveryRaises ==
    /\ pc \in Discovery
    /\ pc' = "raised"
    /\ VideoGone
    /\ UNCHANGED <<visits, published>>

\* In run() the exception costs the candidate only.
ConstructionRaises ==
    /\ pc \in Construction
    /\ Rejected
    /\ UNCHANGED <<visits, matrix, facts, reports, todo, supported, published>>

\* The process dies.
Die ==
    /\ pc \notin {"raised", "completed"}
    /\ pc' = "raised"
    /\ VideoGone
    /\ UNCHANGED <<visits, published>>

Step ==
    \/ Scan \/ ExtractEnds \/ Assemble \/ Publish \/ Complete
    \/ \E f \in Fact : ExtractFact(f)
    \/ \E a \in ReflectionAnswer : Reflect(a) \/ Refocus(a)
    \/ \E n \in todo : NextFact(n)
    \/ pc = "realize" /\ \E a \in RealizationAnswer(facts[cand.number].leaf) : Realize(a)
    \/ \E a \in BackparseAnswer : Backparse(a)
    \/ \E a \in MonitorAnswer : Monitor(a) \/ Remonitor(a)
    \/ DiscoveryRaises \/ ConstructionRaises

Next == Visit \/ Step \/ Die

Spec == Init /\ [][Next]_vars

\* Every call ends, with an answer or an exception: its client has a timeout
\* and its retries are bounded.
FairSpec == Spec /\ WF_vars(Step)

-----------------------------------------------------------------------------
(* Properties *)

\* The gates of the orchestrator repeat in other words what the runner has
\* established, on all facts of the graph.  For two reasons only may its first
\* three stages refuse a candidate the runner has built: errors that the
\* monitor counted, and two answers of one text, which _realize lets through.
RefusalsKnown ==
    pc = "publish" => /\ RetrievalGate /\ ExtractionGate
                      /\ \/ GenerationGate
                         \/ cand.report.errors # 0
                         \/ cand.same

\* However often a video is visited: one visit publishes at most the cap, and
\* no leaf twice.
VisitYield ==
    \A v \in 1..MaxVisits :
        LET yield == {r \in published : r.visit = v}
        IN  /\ Cardinality(yield) <= PairCap
            /\ \A r, s \in yield : r.leaf = s.leaf => r = s

\* Whatever is published was supported and approved by the last answers of
\* the two agents that have read the video, in this visit and in this order.
Reviewed == INSTANCE ReviewedPairs WITH
    published <- {r.number : r \in published}

ReviewedSpec == Reviewed!Spec

\* A visit ends: focused retries and rejected candidates do not go on for
\* ever.
VisitEnds == (pc = "scan") ~> (pc \in {"raised", "completed"})

=============================================================================
