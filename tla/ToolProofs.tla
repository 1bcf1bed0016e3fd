----------------------------- MODULE ToolProofs -----------------------------
(***************************************************************************)
(* Proofs about the tools that run beside and after the construction       *)
(* (src/tools): the budget guard, the selections, the release and the      *)
(* readable names.                                                         *)
(*                                                                         *)
(* Nothing here bounds the number of workers, processes, rows, strata,     *)
(* videos or leaves.  Sums over them are handled by DataLemmas.  Where a   *)
(* lemma is about operators of the model that read a variable, it has an   *)
(* operator of its own here that takes the value as an argument, so that   *)
(* it can be used for the state before and after a step.                   *)
(***************************************************************************)
EXTENDS BudgetGuard, DatasetSelection, BudgetSelection, DatasetRelease,
        ReadableIds, DataLemmas, SequenceTheorems, FunctionTheorems, TLAPS

-----------------------------------------------------------------------------
(* BudgetGuard: the logs and the store *)

\* Every completed call of the log has its artifact in the store.
Audited(lines) ==
    \A i \in DOMAIN lines :
        lines[i].event = "completed" => lines[i].artifact \in store

\* AuditedCalls is inductive with this: a call that has come as far as its
\* event has put its artifact.
CallsInv ==
    /\ stage \in [Worker -> {"down", "idle", "asking", "putting", "replacing",
                             "stored"}]
    /\ answer \in [Worker -> Answers]
    /\ log \in [Worker -> Seq(Line)]
    /\ \A w \in Worker : stage[w] = "stored" => answer[w].artifact \in store
    /\ \A w \in Worker : Audited(log[w])

\* What an append leaves that no parser takes.
Scrap == [event : {"torn", "split", "lost", "garbled"}]

LEMMA ScrapLines == Scrap \subseteq Line /\ \A s \in Scrap : s.event # "completed"
BY DEF Scrap, Line

\* The last line of a log is replaced.
LEMMA Patched ==
    ASSUME NEW lines \in Seq(Line), lines # << >>, NEW line \in Line
    PROVE  /\ Front(lines) \in Seq(Line)
           /\ Append(Front(lines), line) \in Seq(Line)
           /\ \A i \in DOMAIN Append(Front(lines), line) :
                \/ Append(Front(lines), line)[i] = line
                \/ i \in DOMAIN lines /\ Append(Front(lines), line)[i] = lines[i]
           /\ Last(lines) \in Line
           /\ lines = Append(Front(lines), Last(lines))
<1> DEFINE n == Len(lines) - 1
           kept == SubSeq(lines, 1, n)
           more == Append(kept, line)
<1>1. n \in Nat /\ Len(lines) = n + 1 /\ \A i \in 1..(n + 1) : lines[i] \in Line
  OBVIOUS
<1>2. Front(lines) = kept /\ Last(lines) = lines[n + 1]
  BY <1>1 DEF Front, Last
<1> HIDE DEF n
<1>3. kept \in Seq(Line) /\ Len(kept) = n /\ \A i \in 1..n : kept[i] = lines[i]
  <2>1. /\ SubSeq(lines, 1, n) \in Seq(Line)
        /\ Len(SubSeq(lines, 1, n)) = IF 1 <= n THEN n - 1 + 1 ELSE 0
        /\ \A i \in 1..(n - 1 + 1) : SubSeq(lines, 1, n)[i] = lines[1 + i - 1]
    <3>1. \A i \in 1..n : lines[i] \in Line
      BY <1>1
    <3> QED
      BY <1>1, <3>1, SubSeqProperties
  <2> QED
    BY <1>1, <2>1
<1> HIDE DEF kept
<1>4. more \in Seq(Line) /\ Len(more) = n + 1 /\ more[n + 1] = line
      /\ \A i \in 1..n : more[i] = lines[i]
  BY <1>1, <1>3
<1>5. \A i \in DOMAIN more : more[i] = line \/ (i \in DOMAIN lines /\ more[i] = lines[i])
  <2>1. DOMAIN more = 1..(n + 1) /\ DOMAIN lines = 1..(n + 1)
    BY <1>1, <1>4
  <2>2. \A i \in 1..(n + 1) : i \in 1..n \/ i = n + 1
    BY <1>1
  <2> QED
    BY <1>4, <2>1, <2>2
<1>6. lines = Append(kept, lines[n + 1])
  <2> DEFINE same == Append(kept, lines[n + 1])
  <2>1. /\ same \in Seq(Line) /\ Len(same) = n + 1 /\ same[n + 1] = lines[n + 1]
        /\ \A i \in 1..n : same[i] = lines[i]
    BY <1>1, <1>3
  <2>2. \A i \in 1..(n + 1) : same[i] = lines[i]
    <3>1. \A i \in 1..(n + 1) : i \in 1..n \/ i = n + 1
      BY <1>1
    <3> QED
      BY <2>1, <3>1
  <2> HIDE DEF same
  <2>3. same = lines
    BY <1>1, <2>1, <2>2
  <2> QED
    BY <2>3 DEF same
<1> QED
  BY <1>1, <1>2, <1>3, <1>4, <1>5, <1>6

\* What an append and a death in an append make of a log.
LEMMA EmittedIs ==
    ASSUME NEW lines \in Seq(Line), NEW line
    PROVE  \/ Emitted(lines, line) = Append(lines, line)
           \/ /\ lines # << >>
              /\ \E s \in Scrap : Emitted(lines, line) = Append(Front(lines), s)
BY DEF Emitted, Unfinished, Scrap

LEMMA LeftIs ==
    ASSUME NEW lines \in Seq(Line), NEW line, NEW fate \in Fate
    PROVE  \/ Left(lines, line, fate) = lines
           \/ /\ lines # << >>
              /\ \E s \in Scrap : Left(lines, line, fate) = Append(Front(lines), s)
           \/ \E s \in Scrap : Left(lines, line, fate) = Append(lines, s)
           \/ /\ fate = "unended"
              /\ Left(lines, line, fate) = Append(lines, line)
<1>1. CASE fate = "whole"
  BY <1>1 DEF Left
<1>2. CASE fate # "whole" /\ Unfinished(lines)
  <2> DEFINE s == [event |-> IF "split" \in {fate, Last(lines).event} THEN "split"
                             ELSE "torn"]
  <2>1. Left(lines, line, fate) = Append(Front(lines), s)
    BY <1>2 DEF Left
  <2>2. s \in Scrap /\ lines # << >>
    BY <1>2 DEF Scrap, Unfinished
  <2> QED
    BY <2>1, <2>2
<1>3. CASE fate = "unended" /\ ~Unfinished(lines)
  BY <1>3 DEF Left
<1>4. CASE fate \in {"torn", "split"} /\ ~Unfinished(lines)
  <2>1. Left(lines, line, fate) = Append(lines, [event |-> fate])
    BY <1>4 DEF Left
  <2>2. [event |-> fate] \in Scrap
    BY <1>4 DEF Scrap
  <2> QED
    BY <2>1, <2>2
<1> QED
  BY <1>1, <1>2, <1>3, <1>4 DEF Fate

LEMMA AppendLines ==
    ASSUME NEW lines \in Seq(Line), NEW line \in Line
    PROVE  /\ Append(lines, line) \in Seq(Line)
           /\ \A i \in DOMAIN Append(lines, line) :
                \/ Append(lines, line)[i] = line
                \/ i \in DOMAIN lines /\ Append(lines, line)[i] = lines[i]
OBVIOUS

\* An append loses no line but an unfinished one, and adds only its own.
LEMMA EmittedLines ==
    ASSUME NEW lines \in Seq(Line), NEW line \in Line
    PROVE  /\ Emitted(lines, line) \in Seq(Line)
           /\ \A i \in DOMAIN Emitted(lines, line) :
                \/ Emitted(lines, line)[i] = line
                \/ Emitted(lines, line)[i] \in Scrap
                \/ i \in DOMAIN lines /\ Emitted(lines, line)[i] = lines[i]
<1>1. CASE Emitted(lines, line) = Append(lines, line)
  BY <1>1, AppendLines
<1>2. ASSUME lines # << >>, NEW s \in Scrap,
             Emitted(lines, line) = Append(Front(lines), s)
      PROVE  /\ Emitted(lines, line) \in Seq(Line)
             /\ \A i \in DOMAIN Emitted(lines, line) :
                  \/ Emitted(lines, line)[i] \in Scrap
                  \/ i \in DOMAIN lines /\ Emitted(lines, line)[i] = lines[i]
  BY <1>2, ScrapLines, Patched
<1> QED
  BY <1>1, <1>2, EmittedIs

\* A death in an append takes no more, and adds the line only if it is whole.
LEMMA LeftLines ==
    ASSUME NEW lines \in Seq(Line), NEW line, NEW fate \in Fate,
           fate = "unended" => line \in Line
    PROVE  /\ Left(lines, line, fate) \in Seq(Line)
           /\ \A i \in DOMAIN Left(lines, line, fate) :
                \/ /\ fate = "unended"
                   /\ Left(lines, line, fate)[i] = line
                \/ Left(lines, line, fate)[i] \in Scrap
                \/ i \in DOMAIN lines /\ Left(lines, line, fate)[i] = lines[i]
<1> DEFINE left == Left(lines, line, fate)
<1>1. CASE left = lines
  BY <1>1
<1>2. ASSUME lines # << >>, NEW s \in Scrap, left = Append(Front(lines), s)
      PROVE  /\ left \in Seq(Line)
             /\ \A i \in DOMAIN left :
                  left[i] \in Scrap \/ (i \in DOMAIN lines /\ left[i] = lines[i])
  BY <1>2, ScrapLines, Patched
<1>3. ASSUME NEW s \in Scrap, left = Append(lines, s)
      PROVE  /\ left \in Seq(Line)
             /\ \A i \in DOMAIN left :
                  left[i] \in Scrap \/ (i \in DOMAIN lines /\ left[i] = lines[i])
  BY <1>3, ScrapLines, AppendLines
<1>4. ASSUME fate = "unended", left = Append(lines, line)
      PROVE  /\ left \in Seq(Line)
             /\ \A i \in DOMAIN left :
                  left[i] = line \/ (i \in DOMAIN lines /\ left[i] = lines[i])
  BY <1>4, AppendLines
<1> QED
  BY <1>1, <1>2, <1>3, <1>4, LeftIs

\* The event of a call names what the call has.
LEMMA CompletedLine ==
    ASSUME NEW w, answer[w] \in Answers, NEW ended \in BOOLEAN
    PROVE  /\ Completed(w, ended) \in Line /\ Completed(w, ended).event = "completed"
           /\ Completed(w, ended).usage = answer[w].usage
           /\ Completed(w, ended).artifact = answer[w].artifact
<1>1. answer[w].usage \in Usage \cup {NoUsage} /\ answer[w].artifact \in Artifact
  BY DEF Answers
<1>2. ASSUME NEW u \in Usage \cup {NoUsage}, NEW a \in Artifact
      PROVE  [event |-> "completed", ended |-> ended, usage |-> u, artifact |-> a] \in Line
  BY DEF Line
<1> QED
  BY <1>1, <1>2 DEF Completed

LEMMA NoAnswerTyped == NoAnswer \in Answers
BY CallsAssumption DEF CallsAssumption, NoAnswer, Answers, NoUsage

LEMMA GuardInit == Init => CallsInv
BY NoAnswerTyped DEF Init, CallsInit, CallsInv, Audited

\* Killing or losing a process takes nothing from the store; a worker that was
\* writing the event of its call has put its artifact.
LEMMA GoneKeeps ==
    ASSUME CallsInv, NEW p, NEW fate \in [Worker -> Fate], Gone(p, fate)
    PROVE  CallsInv'
<1>1. UNCHANGED store
  BY DEF Gone
<1>2. /\ stage' \in [Worker -> {"down", "idle", "asking", "putting",
                                "replacing", "stored"}]
      /\ answer' \in [Worker -> Answers]
      /\ \A w \in Worker : stage'[w] = "stored" =>
            stage[w] = "stored" /\ answer'[w] = answer[w]
  BY NoAnswerTyped DEF Gone, CallsInv
<1>3. ASSUME NEW w \in Worker
      PROVE  /\ log[w] \in Seq(Line) /\ fate[w] \in Fate /\ answer[w] \in Answers
             /\ log'[w] = Left(log[w], Completed(w, FALSE), fate[w])
             /\ fate[w] = "unended" => answer[w].artifact \in store
             /\ Audited(log[w])
  BY DEF Gone, CallsInv
<1>4. ASSUME NEW w \in Worker
      PROVE  /\ log'[w] \in Seq(Line)
             /\ \A i \in DOMAIN log'[w] :
                  \/ /\ fate[w] = "unended"
                     /\ log'[w][i] = Completed(w, FALSE)
                  \/ log'[w][i] \in Scrap
                  \/ i \in DOMAIN log[w] /\ log'[w][i] = log[w][i]
  <2>1. Completed(w, FALSE) \in Line
    BY <1>3, CompletedLine
  <2>2. PICK line, lines, f : line = Completed(w, FALSE) /\ lines = log[w] /\ f = fate[w]
    OBVIOUS
  <2>3. lines \in Seq(Line) /\ f \in Fate /\ line \in Line
    BY <1>3, <2>1, <2>2
  <2>4. /\ Left(lines, line, f) \in Seq(Line)
        /\ \A i \in DOMAIN Left(lines, line, f) :
             \/ /\ f = "unended"
                /\ Left(lines, line, f)[i] = line
             \/ Left(lines, line, f)[i] \in Scrap
             \/ i \in DOMAIN lines /\ Left(lines, line, f)[i] = lines[i]
    BY ONLY <2>3, LeftLines, Zenon
  <2>5. log'[w] = Left(lines, line, f)
    BY <1>3, <2>2
  <2> QED
    BY ONLY <2>2, <2>4, <2>5
<1>5. log' \in [Worker -> Seq(Line)]
  <2>1. log' = [w \in Worker |-> Left(log[w], Completed(w, FALSE), fate[w])]
    BY DEF Gone
  <2> QED
    BY <1>4, <2>1
<1>6. ASSUME NEW w \in Worker, NEW i \in DOMAIN log'[w], log'[w][i].event = "completed"
      PROVE  log'[w][i].artifact \in store'
  <2>1. CASE fate[w] = "unended" /\ log'[w][i] = Completed(w, FALSE)
    BY <1>1, <1>3, <2>1, CompletedLine
  <2>2. CASE log'[w][i] \in Scrap
    BY <1>6, <2>2, ScrapLines
  <2>3. CASE i \in DOMAIN log[w] /\ log'[w][i] = log[w][i]
    BY <1>1, <1>3, <1>6, <2>3 DEF Audited
  <2> QED
    BY <1>4, <2>1, <2>2, <2>3
<1>7. \A w \in Worker : Audited(log[w])'
  BY <1>6 DEF Audited
<1> QED
  BY <1>1, <1>2, <1>5, <1>7 DEF CallsInv

\* A step of a call that emits nothing and takes nothing from the store.
LEMMA SilentStep ==
    ASSUME CallsInv, UNCHANGED log, store \subseteq store',
           NEW w \in Worker,
           \/ UNCHANGED <<stage, answer>>
           \/ /\ \E g \in {"idle", "asking", "putting", "replacing"} :
                    stage' = [stage EXCEPT ![w] = g]
              /\ \/ UNCHANGED answer
                 \/ \E a \in Answers : answer' = [answer EXCEPT ![w] = a]
           \/ /\ stage' = [stage EXCEPT ![w] = "stored"]
              /\ UNCHANGED answer
              /\ answer[w].artifact \in store'
    PROVE  CallsInv'
<1>1. stage' \in [Worker -> {"down", "idle", "asking", "putting",
                             "replacing", "stored"}]
  BY DEF CallsInv
<1>2. answer' \in [Worker -> Answers]
  BY DEF CallsInv
<1>3. \A v \in Worker : stage'[v] = "stored" => answer'[v].artifact \in store'
  BY DEF CallsInv
<1>4. \A v \in Worker : Audited(log[v])'
  BY DEF CallsInv, Audited
<1> QED
  BY <1>1, <1>2, <1>3, <1>4 DEF CallsInv

\* A worker asks: the event, the wait for the provider.
LEMMA BeginKeeps ==
    ASSUME CallsInv, NEW w \in Worker, BeginCall(w)
    PROVE  CallsInv'
<1> DEFINE line == [event |-> "started"]
<1>1. line \in Line /\ line.event # "completed"
  BY DEF Line
<1>2. log[w] \in Seq(Line) /\ log' = [log EXCEPT ![w] = Emitted(log[w], line)]
  BY DEF BeginCall, CallsInv
<1>3. log' \in [Worker -> Seq(Line)]
  BY <1>1, <1>2, EmittedLines DEF CallsInv
<1>4. UNCHANGED <<store, answer>> /\ stage' = [stage EXCEPT ![w] = "asking"]
  BY DEF BeginCall
<1>5. ASSUME NEW v \in Worker, NEW i \in DOMAIN log'[v],
             log'[v][i].event = "completed"
      PROVE  i \in DOMAIN log[v] /\ log'[v][i] = log[v][i]
  <2>1. CASE v # w
    BY <1>2, <1>5, <2>1 DEF CallsInv
  <2>2. CASE v = w
    <3>1. log'[v] = Emitted(log[w], line)
      BY <1>2, <2>2 DEF CallsInv
    <3> HIDE DEF line
    <3>2. \A k \in DOMAIN Emitted(log[w], line) :
             \/ Emitted(log[w], line)[k] = line
             \/ Emitted(log[w], line)[k] \in Scrap
             \/ k \in DOMAIN log[w] /\ Emitted(log[w], line)[k] = log[w][k]
      <4>1. log[w] \in Seq(Line) /\ line \in Line
        BY <1>1, <1>2
      <4> QED
        BY ONLY <4>1, EmittedLines, Zenon
    <3> QED
      BY ONLY <1>1, <1>5, <2>2, <3>1, <3>2, ScrapLines
  <2> QED
    BY <2>1, <2>2
<1>6. \A v \in Worker : Audited(log[v])'
  BY <1>4, <1>5 DEF Audited, CallsInv
<1> QED
  BY <1>3, <1>4, <1>6 DEF CallsInv

\* The answer has its artifact before it has its event.
LEMMA EndKeeps ==
    ASSUME CallsInv, NEW w \in Worker, EndCall(w)
    PROVE  CallsInv'
<1> DEFINE line == Completed(w, TRUE)
<1>1. line \in Line /\ line.artifact \in store
  <2>1. answer[w] \in Answers /\ answer[w].artifact \in store
    BY DEF CallsInv, EndCall
  <2> QED
    BY <2>1, CompletedLine
<1>2. log[w] \in Seq(Line) /\ log' = [log EXCEPT ![w] = Emitted(log[w], line)]
  BY DEF EndCall, CallsInv
<1> HIDE DEF line
<1>3. log' \in [Worker -> Seq(Line)]
  BY <1>1, <1>2, EmittedLines DEF CallsInv
<1>4. /\ UNCHANGED store /\ stage' = [stage EXCEPT ![w] = "idle"]
      /\ answer' = [answer EXCEPT ![w] = NoAnswer]
  BY DEF EndCall
<1>5. ASSUME NEW v \in Worker, NEW i \in DOMAIN log'[v],
             log'[v][i].event = "completed"
      PROVE  \/ log'[v][i] = line
             \/ i \in DOMAIN log[v] /\ log'[v][i] = log[v][i]
  <2>1. CASE v # w
    BY <1>2, <1>5, <2>1 DEF CallsInv
  <2>2. CASE v = w
    <3>1. log'[v] = Emitted(log[w], line)
      BY <1>2, <2>2 DEF CallsInv
    <3>2. \A k \in DOMAIN Emitted(log[w], line) :
             \/ Emitted(log[w], line)[k] = line
             \/ Emitted(log[w], line)[k] \in Scrap
             \/ k \in DOMAIN log[w] /\ Emitted(log[w], line)[k] = log[w][k]
      <4>1. log[w] \in Seq(Line) /\ line \in Line
        BY <1>1, <1>2
      <4> QED
        BY ONLY <4>1, EmittedLines, Zenon
    <3> QED
      BY ONLY <1>1, <1>5, <2>2, <3>1, <3>2, ScrapLines
  <2> QED
    BY <2>1, <2>2
<1>6. \A v \in Worker : Audited(log[v])'
  BY <1>1, <1>4, <1>5 DEF Audited, CallsInv
<1> QED
  BY <1>3, <1>4, <1>6, NoAnswerTyped DEF CallsInv

LEMMA CallKeeps ==
    ASSUME CallsInv, NEW w \in Worker, CallStep(w)
    PROVE  CallsInv'
<1>1. CASE BeginCall(w)
  BY <1>1, BeginKeeps
<1>2. CASE \E u \in Usage \cup {NoUsage} : AttemptFails(w, u)
  <2>1. /\ UNCHANGED <<log, store>>
        /\ UNCHANGED <<stage, answer>> \/ Raised(w)
    BY <1>2 DEF AttemptFails
  <2> QED
    BY <2>1, SilentStep, NoAnswerTyped DEF Raised
<1>3. CASE CapacityFails(w)
  BY <1>3, SilentStep, NoAnswerTyped DEF CapacityFails, Raised
<1>4. CASE \E u \in Usage, a \in Artifact : Answer(w, u, a)
  <2>1. /\ UNCHANGED <<log, store>>
        /\ stage' = [stage EXCEPT ![w] = "putting"]
        /\ \E a \in Answers : answer' = [answer EXCEPT ![w] = a]
    BY <1>4 DEF Answer, Answers
  <2> QED
    BY <2>1, SilentStep
<1>5. CASE PutCheck(w)
  BY <1>5, SilentStep DEF PutCheck
<1>6. CASE PutReplaces(w)
  BY <1>6, SilentStep DEF PutReplaces
<1>7. CASE PutRefused(w)
  <2>1. /\ UNCHANGED <<log, store>>
        /\ \/ UNCHANGED <<stage, answer>>
           \/ Raised(w)
           \/ /\ stage' = [stage EXCEPT ![w] = "stored"]
              /\ UNCHANGED answer
              /\ answer[w].artifact \in store
    BY <1>7 DEF PutRefused
  <2> QED
    BY <2>1, SilentStep, NoAnswerTyped DEF Raised
<1>8. CASE MediaDisagree(w)
  BY <1>8, SilentStep, NoAnswerTyped DEF MediaDisagree, Raised
<1>9. CASE EndCall(w)
  BY <1>9, EndKeeps
<1> QED
  BY <1>1, <1>2, <1>3, <1>4, <1>5, <1>6, <1>7, <1>8, <1>9 DEF CallStep

LEMMA NothingChanged ==
    ASSUME CallsInv, UNCHANGED <<stage, answer, log, store>>
    PROVE  CallsInv'
BY DEF CallsInv, Audited

\* The guard itself only reads the logs.
LEMMA GuardKeeps == CallsInv /\ [Next]_vars => CallsInv'
<1> SUFFICES ASSUME CallsInv, [Next]_vars PROVE CallsInv'
  OBVIOUS
<1>1. CASE \E w \in Worker : Call(w)
  BY <1>1, CallKeeps DEF Call
<1>2. CASE \E w \in Worker : PublishPair(w)
  BY <1>2, NothingChanged DEF PublishPair, callVars, workerVars
<1>3. ASSUME NEW p \in Process, StartProcess(p)
      PROVE  CallsInv'
  <2>1. /\ UNCHANGED <<answer, log, store>>
        /\ stage' = [w \in Worker |-> IF home[w] = p THEN "idle" ELSE stage[w]]
    BY <1>3 DEF StartProcess, Start
  <2> QED
    BY <2>1 DEF CallsInv, Audited
<1>4. CASE \E p \in Process : CrashProcess(p)
  BY <1>4, GoneKeeps DEF CrashProcess, Crash
<1>5. CASE ReadDirectory
  BY <1>5, NothingChanged DEF ReadDirectory, callVars, workerVars
<1>6. CASE Decide
  BY <1>6, NothingChanged DEF Decide, callVars, workerVars
<1>7. ASSUME NEW p \in Process, StopProcess(p)
      PROVE  CallsInv'
  <2>1. UNCHANGED callVars \/ \E fate \in [Worker -> Fate] : Gone(p, fate)
    BY <1>7 DEF StopProcess
  <2> QED
    BY <2>1, GoneKeeps, NothingChanged DEF callVars, workerVars
<1>8. CASE ReadRaises \/ GuardFails \/ RestartGuard
  BY <1>8, NothingChanged DEF ReadRaises, GuardFails, RestartGuard, callVars, workerVars
<1>9. CASE Finish
  BY <1>9, NothingChanged DEF Finish, callVars, workerVars
<1>10. CASE UNCHANGED vars
  BY <1>10, NothingChanged DEF vars, callVars, workerVars
<1> QED
  BY <1>1, <1>2, <1>3, <1>4, <1>5, <1>6, <1>7, <1>8, <1>9, <1>10
     DEF Next, GuardStep

\* However the calls, the deaths, the kills of the guard and the torn lines
\* interleave: a call whose completion is in an event log can be audited.
THEOREM GuardAuditedCalls == Spec => []AuditedCalls
<1>1. CallsInv => AuditedCalls
  BY DEF CallsInv, Audited, AuditedCalls
<1> QED
  BY <1>1, GuardInit, GuardKeeps, PTL DEF Spec

-----------------------------------------------------------------------------
(* BudgetGuard: the estimate and the bill *)

\* Usage that can be priced.
Priced(u) == /\ u.input \in Nat /\ u.cached \in Nat /\ u.output \in Nat
             /\ u.cached <= u.input

Adds(w, u, v) == /\ w.input = u.input + v.input
                 /\ w.cached = u.cached + v.cached
                 /\ w.output = u.output + v.output

\* The cost has no negative part where the cached input is a part of the input.
LEMMA CostOf ==
    ASSUME NEW u, Priced(u)
    PROVE  /\ Cost(u) = 10 * (u.input - u.cached) + u.cached + 50 * u.output
           /\ Cost(u) \in Nat
<1>1. Cost(u) = 10 * (u.input - u.cached) + u.cached + 50 * u.output
  BY DEF Cost, Priced
<1> QED
  BY <1>1 DEF Priced

\* The price is linear, as long as no more is cached than there is input.
LEMMA CostAdds ==
    ASSUME NEW w, NEW u, NEW v, Adds(w, u, v), Priced(u), Priced(v)
    PROVE  Priced(w) /\ Cost(w) = Cost(u) + Cost(v)
<1>1. Priced(w)
  BY DEF Adds, Priced
<1>2. /\ Cost(w) = 10 * (w.input - w.cached) + w.cached + 50 * w.output
      /\ Cost(u) = 10 * (u.input - u.cached) + u.cached + 50 * u.output
      /\ Cost(v) = 10 * (v.input - v.cached) + v.cached + 50 * v.output
  BY <1>1, CostOf
<1> QED
  BY <1>1, <1>2 DEF Adds, Priced

\* What a line of the log may name.
Tokens == Usage \cup {NoUsage}

LEMMA TokensPriced == \A u \in Tokens : Priced(u) /\ Cost(NoUsage) = 0
BY CallsAssumption DEF Tokens, CallsAssumption, Priced, NoUsage, Cost

-----------------------------------------------------------------------------

\* The lines that the estimate adds up.
Done(lines) == {i \in DOMAIN lines : lines[i].event = "completed"}

\* The sum of one kind of tokens over a log.
Column(val, lines) ==
    On([i \in DOMAIN lines |-> val[lines[i].usage]], Done(lines))

InputTokens == [u \in Tokens |-> u.input]
CachedTokens == [u \in Tokens |-> u.cached]
OutputTokens == [u \in Tokens |-> u.output]

LEMMA DoneLines ==
    ASSUME NEW lines \in Seq(Line)
    PROVE  /\ IsFiniteSet(Done(lines))
           /\ \A i \in Done(lines) : i \in DOMAIN lines /\ lines[i].usage \in Tokens
<1>1. IsFiniteSet(1..Len(lines))
  BY FS_Interval, 1 \in Int, Len(lines) \in Int
<1>2. Done(lines) \in SUBSET (1..Len(lines))
  BY DEF Done
<1>3. \A i \in Done(lines) : lines[i] \in Line /\ lines[i].event = "completed"
  BY DEF Done
<1>4. \A line \in Line : line.event = "completed" => line.usage \in Tokens
  BY DEF Line, Tokens
<1> QED
  BY <1>1, <1>2, <1>3, <1>4, FS_Subset

\* The tokens of a log are its three columns.
LEMMA ColumnLink ==
    ASSUME NEW lines \in Seq(Line)
    PROVE  /\ LogUsage(lines).input = Column(InputTokens, lines)
           /\ LogUsage(lines).cached = Column(CachedTokens, lines)
           /\ LogUsage(lines).output = Column(OutputTokens, lines)
<1>1. \A i \in Done(lines) : i \in DOMAIN lines /\ lines[i].usage \in Tokens
  BY DoneLines
<1> DEFINE f1 == [i \in DOMAIN lines |-> InputTokens[lines[i].usage]]
           f2 == [i \in DOMAIN lines |-> CachedTokens[lines[i].usage]]
           f3 == [i \in DOMAIN lines |-> OutputTokens[lines[i].usage]]
<1>2. [i \in Done(lines) |-> lines[i].usage.input] = [i \in Done(lines) |-> f1[i]]
  BY <1>1 DEF InputTokens
<1>3. [i \in Done(lines) |-> lines[i].usage.cached] = [i \in Done(lines) |-> f2[i]]
  BY <1>1 DEF CachedTokens
<1>4. [i \in Done(lines) |-> lines[i].usage.output] = [i \in Done(lines) |-> f3[i]]
  BY <1>1 DEF OutputTokens
<1>5. /\ LogUsage(lines).input = Total([i \in Done(lines) |-> lines[i].usage.input])
      /\ LogUsage(lines).cached = Total([i \in Done(lines) |-> lines[i].usage.cached])
      /\ LogUsage(lines).output = Total([i \in Done(lines) |-> lines[i].usage.output])
  BY DEF LogUsage, SumOf, Done
<1> QED
  BY <1>2, <1>3, <1>4, <1>5 DEF Column, On

LEMMA TokenColumns ==
    /\ InputTokens \in [Tokens -> Nat] /\ CachedTokens \in [Tokens -> Nat]
    /\ OutputTokens \in [Tokens -> Nat]
    /\ \A u \in Tokens : /\ InputTokens[u] = u.input /\ CachedTokens[u] = u.cached
                         /\ OutputTokens[u] = u.output
                         /\ CachedTokens[u] <= InputTokens[u]
BY TokensPriced DEF InputTokens, CachedTokens, OutputTokens, Priced

LEMMA ColumnNat ==
    ASSUME NEW lines \in Seq(Line), NEW val \in [Tokens -> Nat]
    PROVE  Column(val, lines) \in Nat
<1> DEFINE f == [i \in DOMAIN lines |-> val[lines[i].usage]]
<1>1. \A i \in Done(lines) : f[i] \in Nat
  BY DoneLines
<1>2. IsFiniteSet(Done(lines))
  BY DoneLines
<1> HIDE DEF f
<1>3. On(f, Done(lines)) \in Nat
  BY ONLY <1>1, <1>2, SumNat
<1> QED
  BY <1>3 DEF Column, f

\* The cached input of a log is a part of its input.
LEMMA LogPriced ==
    ASSUME NEW lines \in Seq(Line)
    PROVE  Priced(LogUsage(lines))
<1> DEFINE f == [i \in DOMAIN lines |-> CachedTokens[lines[i].usage]]
           g == [i \in DOMAIN lines |-> InputTokens[lines[i].usage]]
<1>1. \A i \in Done(lines) : f[i] \in Int /\ g[i] \in Int /\ f[i] <= g[i]
  BY DoneLines, TokenColumns
<1>2. IsFiniteSet(Done(lines))
  BY DoneLines
<1>3. Column(CachedTokens, lines) = On(f, Done(lines))
      /\ Column(InputTokens, lines) = On(g, Done(lines))
  BY DEF Column
<1> HIDE DEF f, g
<1>4. On(f, Done(lines)) <= On(g, Done(lines))
  BY ONLY <1>1, <1>2, SumMonotone
<1>5. Column(CachedTokens, lines) \in Nat /\ Column(InputTokens, lines) \in Nat
      /\ Column(OutputTokens, lines) \in Nat
  BY ColumnNat, TokenColumns
<1> QED
  BY <1>3, <1>4, <1>5, ColumnLink DEF Priced

LEMMA ColumnSame ==
    ASSUME NEW a, NEW b, Done(a) = Done(b), \A i \in Done(a) : a[i] = b[i], NEW val
    PROVE  Column(val, a) = Column(val, b)
<1> DEFINE f == [i \in DOMAIN a |-> val[a[i].usage]]
           g == [i \in DOMAIN b |-> val[b[i].usage]]
<1>1. \A i \in Done(a) : f[i] = g[i]
  BY DEF Done
<1> HIDE DEF f, g
<1>2. On(f, Done(a)) = On(g, Done(a))
  BY ONLY <1>1, SumSame
<1> QED
  BY <1>2 DEF Column, f, g

-----------------------------------------------------------------------------
(* What the steps of the logs do to the sums *)

\* A line more: the column grows by what it says.
LEMMA ColumnAppend ==
    ASSUME NEW lines \in Seq(Line), NEW line \in Line, NEW val \in [Tokens -> Nat]
    PROVE  Column(val, Append(lines, line)) =
             Column(val, lines) + (IF line.event = "completed" THEN val[line.usage]
                                   ELSE 0)
<1> DEFINE more == Append(lines, line)
           n == Len(lines) + 1
<1>1. /\ more \in Seq(Line) /\ Len(more) = n /\ n \in Nat /\ more[n] = line
      /\ \A i \in 1..Len(lines) : more[i] = lines[i]
      /\ DOMAIN lines = 1..Len(lines) /\ DOMAIN more = 1..n
  OBVIOUS
<1>2. Column(val, lines) \in Nat
  BY ColumnNat
<1> HIDE DEF more
<1>3. CASE line.event # "completed"
  <2>1. Done(more) = Done(lines)
    BY <1>1, <1>3 DEF Done
  <2>2. \A i \in Done(more) : more[i] = lines[i]
    BY <1>1, <2>1 DEF Done
  <2>3. Column(val, more) = Column(val, lines)
    BY ONLY <2>1, <2>2, ColumnSame
  <2> QED
    BY <1>2, <1>3, <2>3 DEF more
<1>4. CASE line.event = "completed"
  <2> DEFINE D == Done(lines)
             f == [i \in DOMAIN lines |-> val[lines[i].usage]]
             g == [i \in DOMAIN more |-> val[more[i].usage]]
  <2>1. Done(more) = D \cup {n} /\ n \notin D
    BY <1>1, <1>4 DEF Done
  <2>2. IsFiniteSet(D) /\ \A i \in Done(more) : g[i] \in Nat
    BY <1>1, DoneLines
  <2>3. (\A i \in D : g[i] \in Int) /\ g[n] \in Int /\ g[n] = val[line.usage]
        /\ \A i \in D : g[i] = f[i]
    BY <1>1, <2>1, <2>2 DEF Done
  <2> HIDE DEF D, f, g, n
  <2>4. On(g, D \cup {n}) = g[n] + On(g, D)
    BY ONLY <2>1, <2>2, <2>3, SumAdd
  <2>5. On(g, D) = On(f, D)
    BY ONLY <2>3, SumSame
  <2>6. Column(val, lines) = On(f, D) /\ Column(val, more) = On(g, D \cup {n})
    BY <2>1 DEF Column, D, f, g
  <2> QED
    BY <1>2, <1>4, <2>3, <2>4, <2>5, <2>6 DEF more
<1> QED
  BY <1>3, <1>4

\* What the estimate makes of a log.
LogCost(lines) == Cost(LogUsage(lines))

LEMMA LogCostNat ==
    ASSUME NEW lines \in Seq(Line)
    PROVE  LogCost(lines) \in Nat
BY LogPriced, CostOf DEF LogCost

LEMMA SameUsageSameCost ==
    ASSUME NEW u, NEW v, u.input = v.input, u.cached = v.cached, u.output = v.output
    PROVE  Cost(u) = Cost(v)
BY DEF Cost

\* What a line says was charged.
Price(line) == IF line.event = "completed" THEN Cost(line.usage) ELSE 0

LEMMA PriceNat ==
    ASSUME NEW line \in Line
    PROVE  /\ Price(line) \in Nat
           /\ line.event = "completed" =>
                line.usage \in Tokens /\ Price(line) = Cost(line.usage)
<1>1. line.event = "completed" => line.usage \in Tokens
  BY DEF Line, Tokens
<1> QED
  BY <1>1, TokensPriced, CostOf DEF Price

\* A line more adds its price.
LEMMA CostAppend ==
    ASSUME NEW lines \in Seq(Line), NEW line \in Line
    PROVE  LogCost(Append(lines, line)) = LogCost(lines) + Price(line)
<1> DEFINE more == Append(lines, line)
           counts == line.event = "completed"
<1>1. more \in Seq(Line)
  OBVIOUS
<1>2. \A val \in [Tokens -> Nat] :
        Column(val, more) = Column(val, lines) + (IF counts THEN val[line.usage] ELSE 0)
  BY ColumnAppend
<1>3. /\ LogUsage(lines).input = Column(InputTokens, lines)
      /\ LogUsage(lines).cached = Column(CachedTokens, lines)
      /\ LogUsage(lines).output = Column(OutputTokens, lines)
  BY ColumnLink
<1> HIDE DEF more
<1>4. /\ LogUsage(more).input = Column(InputTokens, more)
      /\ LogUsage(more).cached = Column(CachedTokens, more)
      /\ LogUsage(more).output = Column(OutputTokens, more)
  BY <1>1, ColumnLink
<1>5. Priced(LogUsage(lines))
  BY LogPriced
<1>6. CASE counts
  <2>1. line.usage \in Tokens
    BY <1>6, PriceNat
  <2>2. Adds(LogUsage(more), LogUsage(lines), line.usage)
    BY <1>2, <1>3, <1>4, <1>6, <2>1, TokenColumns DEF Adds
  <2>3. Cost(LogUsage(more)) = Cost(LogUsage(lines)) + Cost(line.usage)
    BY <1>5, <2>1, <2>2, CostAdds, TokensPriced
  <2> QED
    BY <1>6, <2>3 DEF LogCost, Price, more
<1>7. CASE ~counts
  <2>1. \A val \in [Tokens -> Nat] : Column(val, lines) \in Nat
    BY ColumnNat
  <2>2. \A val \in [Tokens -> Nat] : Column(val, more) = Column(val, lines)
    BY <1>2, <1>7, <2>1
  <2>3. Cost(LogUsage(more)) = Cost(LogUsage(lines))
    BY <1>3, <1>4, <2>2, TokenColumns, SameUsageSameCost
  <2> QED
    BY <1>7, <2>3, LogCostNat DEF LogCost, Price, more
<1> QED
  BY <1>6, <1>7

\* Where the last line is spoilt, the estimate can only fall.
LEMMA CostPatched ==
    ASSUME NEW lines \in Seq(Line), lines # << >>, NEW s \in Scrap
    PROVE  /\ LogCost(Append(Front(lines), s)) \in Nat
           /\ LogCost(Append(Front(lines), s)) <= LogCost(lines)
<1>1. s \in Line /\ Price(s) = 0
  BY ScrapLines DEF Price
<1>2. Front(lines) \in Seq(Line) /\ Last(lines) \in Line
      /\ lines = Append(Front(lines), Last(lines))
  BY <1>1, Patched
<1>3. LogCost(Append(Front(lines), s)) = LogCost(Front(lines)) + 0
  BY <1>1, <1>2, CostAppend
<1>4. LogCost(lines) = LogCost(Front(lines)) + Price(Last(lines))
  BY <1>2, CostAppend
<1> QED
  BY <1>2, <1>3, <1>4, PriceNat, LogCostNat

\* An event adds no more than the price of its call.
LEMMA CostEmitted ==
    ASSUME NEW lines \in Seq(Line), NEW line \in Line
    PROVE  LogCost(Emitted(lines, line)) <= LogCost(lines) + Price(line)
<1>1. LogCost(lines) \in Nat /\ Price(line) \in Nat
  BY LogCostNat, PriceNat
<1>2. CASE Emitted(lines, line) = Append(lines, line)
  BY <1>1, <1>2, CostAppend
<1>3. ASSUME lines # << >>, NEW s \in Scrap,
             Emitted(lines, line) = Append(Front(lines), s)
      PROVE  LogCost(Emitted(lines, line)) <= LogCost(lines) + Price(line)
  BY <1>1, <1>3, CostPatched
<1> QED
  BY <1>2, <1>3, EmittedIs

\* A death adds the price of a call whose event was written but for its end.
LEMMA CostLeft ==
    ASSUME NEW lines \in Seq(Line), NEW line, NEW fate \in Fate, NEW price \in Nat,
           fate = "unended" => line \in Line /\ Price(line) = price
    PROVE  LogCost(Left(lines, line, fate))
             <= LogCost(lines) + (IF fate = "unended" THEN price ELSE 0)
<1> DEFINE left == Left(lines, line, fate)
           more == IF fate = "unended" THEN price ELSE 0
<1>1. LogCost(lines) \in Nat /\ more \in Nat
  BY LogCostNat
<1>2. CASE left = lines
  BY <1>1, <1>2
<1>3. ASSUME lines # << >>, NEW s \in Scrap, left = Append(Front(lines), s)
      PROVE  LogCost(left) <= LogCost(lines) + more
  BY <1>1, <1>3, CostPatched
<1>4. ASSUME NEW s \in Scrap, left = Append(lines, s)
      PROVE  LogCost(left) <= LogCost(lines) + more
  <2>1. s \in Line /\ Price(s) = 0
    BY ScrapLines DEF Price
  <2>2. LogCost(left) = LogCost(lines) + 0
    BY <1>4, <2>1, CostAppend
  <2> QED
    BY <1>1, <2>2
<1>5. ASSUME fate = "unended", left = Append(lines, line)
      PROVE  LogCost(left) <= LogCost(lines) + more
  <2>1. line \in Line /\ Price(line) = price
    BY <1>5
  <2>2. LogCost(left) = LogCost(lines) + price
    BY <1>5, <2>1, CostAppend
  <2> QED
    BY <1>1, <1>5, <2>2
<1> QED
  BY <1>2, <1>3, <1>4, <1>5, LeftIs

LEMMA CostStarts == LogCost(<< >>) = 0
<1>1. << >> \in Seq(Line) /\ Done(<< >>) = {}
  BY DEF Done
<1>2. \A val : Column(val, << >>) = 0
  BY <1>1, SumEmpty DEF Column
<1>3. LogUsage(<< >>).input = 0 /\ LogUsage(<< >>).cached = 0
      /\ LogUsage(<< >>).output = 0
  BY <1>1, <1>2, ColumnLink
<1> QED
  BY <1>3 DEF LogCost, Cost

-----------------------------------------------------------------------------

\* The directories that the snapshot has been to.
Visited == {Directories[i] : i \in 1..(Len(Directories) - unread)}

\* What the guard has seen is no more than the bills of the directories it has
\* been to: what is charged is charged before it is logged, a line that is lost
\* again was charged nevertheless, and bills and pairs only grow.
BillInv ==
    /\ billed \in [Worker -> Nat]
    /\ \A w \in Worker : LogCost(log[w]) + Cost(answer[w].usage) <= billed[w]
    /\ pairs \in [Worker -> Nat]
    /\ guard \in {"reading", "stopping", "stopped", "dead"}
    /\ unread \in 0..Len(Directories)
    /\ Priced(seen) /\ seen.pairs \in Nat
    /\ Cost(seen) <= On(billed, Visited)
    /\ seen.pairs <= On(pairs, Visited)
    /\ StopJustified

LEMMA WorkersFinite ==
    /\ IsFiniteSet(Worker)
    /\ unread \in 0..Len(Directories) => Visited \in SUBSET Worker /\ IsFiniteSet(Visited)
<1>1. IsFiniteSet(Worker)
  BY CallsAssumption DEF CallsAssumption
<1>2. ASSUME unread \in 0..Len(Directories) PROVE Visited \in SUBSET Worker
  <2>1. Directories \in Seq(Worker)
    BY GuardAssumption DEF GuardAssumption
  <2> QED
    BY <1>2, <2>1 DEF Visited
<1> QED
  BY <1>1, <1>2, FS_Subset

LEMMA LogsPriced ==
    ASSUME CallsInv
    PROVE  \A w \in Worker : /\ log[w] \in Seq(Line) /\ answer[w] \in Answers
                             /\ answer[w].usage \in Tokens
                             /\ LogCost(log[w]) \in Nat /\ Cost(answer[w].usage) \in Nat
<1> SUFFICES ASSUME NEW w \in Worker
             PROVE  /\ log[w] \in Seq(Line) /\ answer[w] \in Answers
                    /\ answer[w].usage \in Tokens
                    /\ LogCost(log[w]) \in Nat /\ Cost(answer[w].usage) \in Nat
  OBVIOUS
<1>1. /\ log[w] \in Seq(Line) /\ answer[w] \in Answers
      /\ answer[w].usage \in Tokens
  BY DEF CallsInv, Answers, Tokens
<1> QED
  BY <1>1, LogCostNat, TokensPriced, CostOf

\* Sums of what only grows.
LEMMA SumsGrow ==
    ASSUME NEW f \in [Worker -> Nat], NEW g \in [Worker -> Nat],
           \A w \in Worker : f[w] <= g[w], NEW S \in SUBSET Worker
    PROVE  On(f, S) \in Nat /\ On(g, S) \in Nat /\ On(f, S) <= On(g, S)
<1>1. IsFiniteSet(S)
  BY WorkersFinite, FS_Subset
<1>2. /\ \A w \in S : f[w] \in Nat
      /\ \A w \in S : g[w] \in Nat
      /\ \A w \in S : f[w] \in Int /\ g[w] \in Int /\ f[w] <= g[w]
  OBVIOUS
<1>3. On(f, S) \in Nat /\ On(g, S) \in Nat
  BY ONLY <1>1, <1>2, SumNat
<1>4. On(f, S) <= On(g, S)
  BY ONLY <1>1, <1>2, SumMonotone
<1> QED
  BY <1>3, <1>4

LEMMA PartOfTotal ==
    ASSUME NEW f \in [Worker -> Nat], NEW S \in SUBSET Worker
    PROVE  /\ On(f, S) \in Nat /\ Total(f) \in Nat
           /\ On(f, S) <= Total(f)
<1> DEFINE rest == Worker \ S
<1>1. S \cup rest = Worker /\ S \cap rest = {} /\ IsFiniteSet(Worker)
      /\ rest \in SUBSET Worker /\ Worker \in SUBSET Worker
  BY WorkersFinite
<1>2. \A w \in Worker : f[w] \in Int
  OBVIOUS
<1> HIDE DEF rest
<1>3. On(f, Worker) = On(f, S) + On(f, rest)
  BY ONLY <1>1, <1>2, SumUnion
<1>4. On(f, S) \in Nat /\ On(f, rest) \in Nat
  BY <1>1, SumsGrow
<1>5. Total(f) = On(f, Worker)
  BY TotalOn
<1> QED
  BY <1>3, <1>4, <1>5

\* The bill covers every step after which each log and answer is charged for.
LEMMA BillGrows ==
    ASSUME BillInv, billed' \in [Worker -> Nat], pairs' \in [Worker -> Nat],
           \A w \in Worker : billed[w] <= billed'[w] /\ pairs[w] <= pairs'[w],
           UNCHANGED <<unread, seen>>,
           guard' \in {"reading", "stopping", "stopped", "dead"},
           guard' \in {"stopping", "stopped"} => guard \in {"stopping", "stopped"},
           \A w \in Worker : LogCost(log'[w]) + Cost(answer'[w].usage) <= billed'[w]
    PROVE  BillInv'
<1>a. PICK b, q : b = billed' /\ q = pairs'
  OBVIOUS
<1>1. /\ b \in [Worker -> Nat] /\ q \in [Worker -> Nat]
      /\ billed \in [Worker -> Nat] /\ pairs \in [Worker -> Nat]
      /\ \A w \in Worker : billed[w] <= b[w]
      /\ \A w \in Worker : pairs[w] <= q[w]
  BY <1>a DEF BillInv
<1>2. Visited' = Visited /\ Visited \in SUBSET Worker /\ Worker \in SUBSET Worker
  BY WorkersFinite DEF Visited, BillInv
<1>3. /\ On(billed, Visited) \in Nat /\ On(b, Visited) \in Nat
      /\ On(billed, Visited) <= On(b, Visited)
      /\ On(pairs, Visited) \in Nat /\ On(q, Visited) \in Nat
      /\ On(pairs, Visited) <= On(q, Visited)
      /\ On(billed, Worker) \in Nat /\ On(b, Worker) \in Nat
      /\ On(billed, Worker) <= On(b, Worker)
      /\ On(pairs, Worker) \in Nat /\ On(q, Worker) \in Nat
      /\ On(pairs, Worker) <= On(q, Worker)
  BY <1>1, <1>2, SumsGrow
<1>4. /\ Total(billed) = On(billed, Worker) /\ Total(b) = On(b, Worker)
      /\ Total(pairs) = On(pairs, Worker) /\ Total(q) = On(q, Worker)
  BY <1>1, TotalOn
<1>5. Cost(seen') <= On(billed', Visited') /\ seen'.pairs <= On(pairs', Visited')
  <2>1. Cost(seen) \in Nat /\ Cost(seen) <= On(billed, Visited)
        /\ seen.pairs \in Nat /\ seen.pairs <= On(pairs, Visited)
    BY CostOf DEF BillInv
  <2>2. Cost(seen) <= On(b, Visited) /\ seen.pairs <= On(q, Visited)
    BY <1>3, <2>1
  <2> QED
    BY <1>a, <1>2, <2>2
<1>6. StopJustified'
  <2>1. StopLine \in Nat /\ TargetPairs \in Nat
    BY GuardAssumption DEF GuardAssumption
  <2> QED
    BY <1>a, <1>3, <1>4, <2>1 DEF StopJustified, BillInv
<1> QED
  BY <1>1, <1>5, <1>6 DEF BillInv

\* A step that charges nothing, and after which no log and no answer says more.
LEMMA BillKeeps ==
    ASSUME CallsInv, BillInv, UNCHANGED <<billed, pairs, unread, seen>>,
           guard' \in {"reading", "stopping", "stopped", "dead"},
           guard' \in {"stopping", "stopped"} => guard \in {"stopping", "stopped"},
           \A w \in Worker : LogCost(log'[w]) + Cost(answer'[w].usage)
                             <= LogCost(log[w]) + Cost(answer[w].usage),
           \A w \in Worker : LogCost(log'[w]) \in Nat /\ Cost(answer'[w].usage) \in Nat
    PROVE  BillInv'
<1>1. \A w \in Worker : LogCost(log'[w]) + Cost(answer'[w].usage) <= billed'[w]
  BY LogsPriced DEF BillInv
<1>2. /\ billed' \in [Worker -> Nat] /\ pairs' \in [Worker -> Nat]
      /\ \A w \in Worker : billed[w] <= billed'[w] /\ pairs[w] <= pairs'[w]
  BY DEF BillInv
<1> QED
  BY <1>1, <1>2, BillGrows

LEMMA NoAnswerIsFree == Cost(NoAnswer.usage) = 0
BY DEF NoAnswer, NoUsage, Cost

\* A step that lets the logs be and adds no answer.
LEMMA BillIdle ==
    ASSUME CallsInv, BillInv, UNCHANGED <<log, billed, pairs, unread, seen>>,
           \A w \in Worker : answer'[w] = answer[w] \/ answer'[w] = NoAnswer,
           guard' \in {"reading", "stopping", "stopped", "dead"},
           guard' \in {"stopping", "stopped"} => guard \in {"stopping", "stopped"}
    PROVE  BillInv'
<1>1. \A w \in Worker : LogCost(log'[w]) + Cost(answer'[w].usage)
                         <= LogCost(log[w]) + Cost(answer[w].usage)
  BY LogsPriced, NoAnswerIsFree
<1>2. \A w \in Worker : LogCost(log'[w]) \in Nat /\ Cost(answer'[w].usage) \in Nat
  BY LogsPriced, NoAnswerIsFree
<1> QED
  BY <1>1, <1>2, BillKeeps

\* Charging for an answer, used or not.
LEMMA BillCharges ==
    ASSUME CallsInv, BillInv, NEW w \in Worker, NEW u \in Tokens,
           billed' = [billed EXCEPT ![w] = @ + Cost(u)],
           UNCHANGED <<log, pairs, unread, seen, guard>>,
           \A v \in Worker : \/ answer'[v] = answer[v] \/ answer'[v] = NoAnswer
                             \/ v = w /\ answer'[v].usage = u
    PROVE  BillInv'
<1>1. Cost(u) \in Nat
  BY TokensPriced, CostOf
<1>2. /\ billed' \in [Worker -> Nat] /\ pairs' \in [Worker -> Nat]
      /\ \A v \in Worker : billed[v] <= billed'[v] /\ pairs[v] <= pairs'[v]
      /\ billed'[w] = billed[w] + Cost(u)
  BY <1>1 DEF BillInv
<1>3. \A v \in Worker : LogCost(log'[v]) + Cost(answer'[v].usage) <= billed'[v]
  <2> SUFFICES ASSUME NEW v \in Worker
               PROVE  LogCost(log'[v]) + Cost(answer'[v].usage) <= billed'[v]
    OBVIOUS
  <2>1. /\ LogCost(log[v]) \in Nat /\ Cost(answer[v].usage) \in Nat
        /\ LogCost(log[v]) + Cost(answer[v].usage) <= billed[v]
        /\ billed[v] \in Nat /\ billed'[v] \in Nat
    BY <1>2, LogsPriced DEF BillInv
  <2>2. CASE v = w /\ answer'[v].usage = u
    BY <1>1, <1>2, <2>1, <2>2
  <2>3. CASE answer'[v] = answer[v] \/ answer'[v] = NoAnswer
    BY <1>2, <2>1, <2>3, NoAnswerIsFree
  <2> QED
    BY <2>2, <2>3
<1>4. guard' \in {"reading", "stopping", "stopped", "dead"} /\ guard' = guard
  BY DEF BillInv
<1> QED
  BY <1>2, <1>3, <1>4, BillGrows

\* An answer is charged when it arrives; its line says no more than that.
LEMMA BillCalls ==
    ASSUME CallsInv, BillInv, NEW w \in Worker, Call(w)
    PROVE  BillInv'
<1>a. UNCHANGED <<pairs, unread, seen, guard>> /\ CallStep(w)
  BY DEF Call, guardVars
<1>b. /\ guard \in {"reading", "stopping", "stopped", "dead"}
      /\ guard' \in {"reading", "stopping", "stopped", "dead"}
      /\ guard' \in {"stopping", "stopped"} => guard \in {"stopping", "stopped"}
      /\ log \in [Worker -> Seq(Line)] /\ answer \in [Worker -> Answers]
  BY <1>a DEF BillInv, CallsInv
<1>c. \A v \in Worker : log[v] \in Seq(Line) /\ LogCost(log[v]) \in Nat
                        /\ Cost(answer[v].usage) \in Nat /\ answer[v] \in Answers
  BY LogsPriced
<1>1. CASE BeginCall(w)
  <2> DEFINE line == [event |-> "started"]
  <2>1. UNCHANGED <<answer, billed>> /\ log' = [log EXCEPT ![w] = Emitted(log[w], line)]
    BY <1>1, <1>b DEF BeginCall
  <2>2. line \in Line /\ Price(line) = 0
    BY DEF Line, Price
  <2> HIDE DEF line
  <2>3. Emitted(log[w], line) \in Seq(Line)
        /\ LogCost(Emitted(log[w], line)) <= LogCost(log[w]) + 0
    BY <1>c, <2>2, CostEmitted, EmittedLines
  <2>4. \A v \in Worker : LogCost(log'[v]) \in Nat /\ LogCost(log'[v]) <= LogCost(log[v])
    BY <1>b, <1>c, <2>1, <2>3, LogCostNat
  <2>5. \A v \in Worker : LogCost(log'[v]) + Cost(answer'[v].usage)
                           <= LogCost(log[v]) + Cost(answer[v].usage)
    BY <1>c, <2>1, <2>4
  <2>6. \A v \in Worker : LogCost(log'[v]) \in Nat /\ Cost(answer'[v].usage) \in Nat
    BY <1>c, <2>1, <2>4
  <2> QED
    BY <1>a, <1>b, <2>1, <2>5, <2>6, BillKeeps
<1>2. CASE \E u \in Usage \cup {NoUsage} : AttemptFails(w, u)
  <2> PICK u \in Tokens : AttemptFails(w, u)
    BY <1>2 DEF Tokens
  <2>1. /\ UNCHANGED log /\ billed' = [billed EXCEPT ![w] = @ + Cost(u)]
        /\ \A v \in Worker : answer'[v] = answer[v] \/ answer'[v] = NoAnswer
    BY <1>b DEF AttemptFails, Raised
  <2> QED
    BY <1>a, <2>1, BillCharges
<1>3. CASE \E u \in Usage, a \in Artifact : Answer(w, u, a)
  <2> PICK u \in Tokens, a \in Artifact : Answer(w, u, a)
    BY <1>3 DEF Tokens
  <2>1. /\ UNCHANGED log /\ billed' = [billed EXCEPT ![w] = @ + Cost(u)]
        /\ answer' = [answer EXCEPT ![w] = [usage |-> u, artifact |-> a]]
    BY DEF Answer
  <2>2. answer'[w].usage = u /\ \A v \in Worker \ {w} : answer'[v] = answer[v]
    BY <1>b, <2>1
  <2> QED
    BY <1>a, <2>1, <2>2, BillCharges
<1>4. CASE EndCall(w)
  <2> DEFINE line == Completed(w, TRUE)
  <2>1. /\ UNCHANGED billed /\ log' = [log EXCEPT ![w] = Emitted(log[w], line)]
        /\ answer' = [answer EXCEPT ![w] = NoAnswer]
    BY <1>4, <1>b DEF EndCall
  <2>2. line \in Line /\ Price(line) = Cost(answer[w].usage)
    BY <1>c, CompletedLine DEF Price
  <2> HIDE DEF line
  <2>3. /\ Emitted(log[w], line) \in Seq(Line)
        /\ LogCost(Emitted(log[w], line)) <= LogCost(log[w]) + Cost(answer[w].usage)
    BY <1>c, <2>2, CostEmitted, EmittedLines
  <2>4. /\ log'[w] = Emitted(log[w], line) /\ answer'[w] = NoAnswer
        /\ \A v \in Worker \ {w} : log'[v] = log[v] /\ answer'[v] = answer[v]
    BY <1>b, <2>1
  <2>5. \A v \in Worker : LogCost(log'[v]) \in Nat /\ Cost(answer'[v].usage) \in Nat
    BY <1>c, <2>3, <2>4, LogCostNat, NoAnswerIsFree
  <2>6. \A v \in Worker : LogCost(log'[v]) + Cost(answer'[v].usage)
                           <= LogCost(log[v]) + Cost(answer[v].usage)
    BY <1>c, <2>3, <2>4, <2>5, NoAnswerIsFree
  <2> QED
    BY <1>a, <1>b, <2>1, <2>5, <2>6, BillKeeps
<1>5. ASSUME \/ CapacityFails(w) \/ PutCheck(w) \/ PutReplaces(w) \/ PutRefused(w)
             \/ MediaDisagree(w)
      PROVE  BillInv'
  <2>1. /\ UNCHANGED <<log, billed>>
        /\ \A v \in Worker : answer'[v] = answer[v] \/ answer'[v] = NoAnswer
    BY <1>5, <1>b DEF CapacityFails, PutCheck, PutReplaces, PutRefused, MediaDisagree,
       Raised
  <2> QED
    BY <1>a, <1>b, <2>1, BillIdle
<1> QED
  BY <1>a, <1>1, <1>2, <1>3, <1>4, <1>5 DEF CallStep

\* A worker that is gone loses the answer it holds, not the bill for it.
LEMMA BillGone ==
    ASSUME CallsInv, BillInv, NEW p, NEW fate \in [Worker -> Fate], Gone(p, fate),
           UNCHANGED <<pairs, unread, seen, guard>>
    PROVE  BillInv'
<1>1. /\ UNCHANGED billed
      /\ \A w \in Worker :
            /\ log'[w] = Left(log[w], Completed(w, FALSE), fate[w]) /\ fate[w] \in Fate
            /\ answer'[w] = answer[w] \/ answer'[w] = NoAnswer
            /\ fate[w] # "whole" => answer'[w] = NoAnswer
  BY DEF Gone
<1>2. ASSUME NEW w \in Worker
      PROVE  /\ LogCost(log'[w]) \in Nat /\ Cost(answer'[w].usage) \in Nat
             /\ LogCost(log'[w]) + Cost(answer'[w].usage)
                  <= LogCost(log[w]) + Cost(answer[w].usage)
  <2> DEFINE price == Cost(answer[w].usage)
             whole == Completed(w, FALSE)
  <2>1. /\ log[w] \in Seq(Line) /\ answer[w] \in Answers
        /\ LogCost(log[w]) \in Nat /\ price \in Nat
    BY LogsPriced
  <2>2. whole \in Line /\ Price(whole) = price
    BY <2>1, CompletedLine DEF Price
  <2>3. /\ Left(log[w], Completed(w, FALSE), fate[w]) \in Seq(Line)
        /\ LogCost(Left(log[w], Completed(w, FALSE), fate[w]))
              <= LogCost(log[w]) + (IF fate[w] = "unended" THEN price ELSE 0)
    BY <1>1, <2>1, <2>2, LeftLines, CostLeft
  <2>4. LogCost(log'[w]) \in Nat
        /\ LogCost(log'[w]) <= LogCost(log[w]) + (IF fate[w] = "unended" THEN price ELSE 0)
    BY <1>1, <2>3, LogCostNat
  <2>5. Cost(answer'[w].usage) = price \/ Cost(answer'[w].usage) = 0
    BY <1>1, NoAnswerIsFree
  <2>6. fate[w] = "unended" => Cost(answer'[w].usage) = 0
    BY <1>1, NoAnswerIsFree
  <2> HIDE DEF price
  <2>7. LogCost(log'[w]) + Cost(answer'[w].usage) <= LogCost(log[w]) + price
    BY <2>1, <2>4, <2>5, <2>6
  <2> QED
    BY <2>1, <2>4, <2>5, <2>7 DEF price
<1>3. guard' \in {"reading", "stopping", "stopped", "dead"} /\ guard' = guard
  BY DEF BillInv
<1> QED
  BY <1>1, <1>2, <1>3, BillKeeps

\* A published pair is seen by the next reading, and never taken back.
LEMMA BillPublishes ==
    ASSUME CallsInv, BillInv, NEW w \in Worker, PublishPair(w)
    PROVE  BillInv'
<1>1. /\ UNCHANGED <<log, answer, billed, unread, seen, guard>>
      /\ pairs \in [Worker -> Nat] /\ pairs' = [pairs EXCEPT ![w] = @ + 1]
  BY DEF PublishPair, callVars, workerVars, BillInv
<1>2. /\ billed' \in [Worker -> Nat] /\ pairs' \in [Worker -> Nat]
      /\ \A v \in Worker : billed[v] <= billed'[v] /\ pairs[v] <= pairs'[v]
      /\ \A v \in Worker : LogCost(log'[v]) + Cost(answer'[v].usage) <= billed'[v]
      /\ guard' \in {"reading", "stopping", "stopped", "dead"} /\ guard' = guard
  BY <1>1 DEF BillInv
<1> QED
  BY <1>1, <1>2, BillGrows

\* Reading a directory that the snapshot has not been to.
LEMMA BillReads ==
    ASSUME CallsInv, BillInv, ReadDirectory
    PROVE  BillInv'
<1> DEFINE n == Len(Directories) - unread
           w == Directories[n + 1]
           got == LogUsage(log[w])
<1>1. /\ UNCHANGED <<log, answer, billed, pairs, guard>> /\ unread' = unread - 1
      /\ unread > 0 /\ guard = "reading"
      /\ seen' = [input |-> seen.input + got.input,
                  cached |-> seen.cached + got.cached,
                  output |-> seen.output + got.output,
                  pairs |-> seen.pairs + pairs[w]]
  BY DEF ReadDirectory, callVars, workerVars
<1>2. /\ Directories \in Seq(Worker) /\ n \in Nat /\ n + 1 \in 1..Len(Directories)
      /\ unread' \in 0..Len(Directories) /\ Len(Directories) - unread' = n + 1
  BY <1>1, GuardAssumption DEF GuardAssumption, BillInv
<1>3. \A i, j \in 1..Len(Directories) : Directories[i] = Directories[j] => i = j
  BY <1>2, GuardAssumption DEF GuardAssumption, IsInjective
<1>4. w \in Worker /\ w \notin Visited /\ Visited' = Visited \cup {w}
  <2>1. Visited = {Directories[i] : i \in 1..n}
    BY DEF Visited
  <2>2. Visited' = {Directories[i] : i \in 1..(n + 1)}
    BY <1>2 DEF Visited
  <2>3. 1..(n + 1) = (1..n) \cup {n + 1} /\ n + 1 \notin 1..n
        /\ 1..n \subseteq 1..Len(Directories)
    BY <1>2
  <2>4. w \in Worker
    BY <1>2
  <2> HIDE DEF n
  <2>5. Visited' = Visited \cup {w}
    BY <2>1, <2>2, <2>3
  <2>6. w \notin Visited
    BY <1>2, <1>3, <2>1, <2>3
  <2> QED
    BY <2>4, <2>5, <2>6
<1>5. IsFiniteSet(Visited) /\ Visited \in SUBSET Worker
  BY WorkersFinite DEF BillInv
<1>6. \A v \in Worker : log[v] \in Seq(Line) /\ LogCost(log[v]) <= billed[v]
                        /\ LogCost(log[v]) \in Nat /\ billed[v] \in Nat
                        /\ pairs[v] \in Nat
  <2>1. \A v \in Worker : /\ log[v] \in Seq(Line) /\ LogCost(log[v]) \in Nat
                          /\ Cost(answer[v].usage) \in Nat /\ billed[v] \in Nat
                          /\ LogCost(log[v]) + Cost(answer[v].usage) <= billed[v]
    BY LogsPriced DEF BillInv
  <2> QED
    BY <2>1 DEF BillInv
<1> HIDE DEF n
<1>7. Priced(got) /\ Cost(got) \in Nat /\ Cost(got) <= billed[w]
  BY <1>4, <1>6, LogPriced DEF LogCost
<1>8. Priced(seen') /\ Cost(seen') = Cost(seen) + Cost(got)
  <2>1. Adds(seen', seen, got)
    BY <1>1 DEF Adds
  <2> HIDE DEF got
  <2> QED
    BY <1>7, <2>1, CostAdds DEF BillInv
<1> HIDE DEF w, got
<1>10. /\ On(billed, Visited \cup {w}) = billed[w] + On(billed, Visited)
       /\ On(pairs, Visited \cup {w}) = pairs[w] + On(pairs, Visited)
  <2>1. (\A v \in Visited : billed[v] \in Int) /\ (\A v \in Visited : pairs[v] \in Int)
        /\ billed[w] \in Int /\ pairs[w] \in Int
    BY <1>4, <1>5, <1>6
  <2> QED
    BY ONLY <1>4, <1>5, <2>1, SumAdd
<1>11. On(billed, Visited) \in Int /\ On(pairs, Visited) \in Int
  <2>1. (\A v \in Visited : billed[v] \in Int) /\ (\A v \in Visited : pairs[v] \in Int)
    BY <1>5, <1>6
  <2> QED
    BY ONLY <1>5, <2>1, SumInt
<1>13. Cost(seen') <= On(billed', Visited')
  <2>1. Cost(seen) \in Nat /\ Cost(seen) <= On(billed, Visited) /\ billed[w] \in Nat
    BY <1>4, <1>6, CostOf DEF BillInv
  <2>2. Cost(seen') <= Cost(seen) + billed[w]
    BY <1>7, <1>8, <2>1
  <2>3. On(billed', Visited') = billed[w] + On(billed, Visited)
    BY <1>1, <1>4, <1>10
  <2>4. Cost(seen') \in Nat
    BY <1>8, CostOf
  <2> QED
    BY <1>11, <2>1, <2>2, <2>3, <2>4
<1>14. seen'.pairs \in Nat /\ seen'.pairs <= On(pairs', Visited')
  <2>1. seen.pairs \in Nat /\ pairs[w] \in Nat /\ seen.pairs <= On(pairs, Visited)
    BY <1>4, <1>6 DEF BillInv
  <2>2. seen'.pairs = seen.pairs + pairs[w]
    BY <1>1
  <2>3. On(pairs', Visited') = pairs[w] + On(pairs, Visited)
    BY <1>1, <1>4, <1>10
  <2> QED
    BY <1>11, <2>1, <2>2, <2>3
<1>15. StopJustified'
  BY <1>1 DEF StopJustified
<1> QED
  BY <1>1, <1>2, <1>8, <1>13, <1>14, <1>15 DEF BillInv

\* What the snapshot shows is no more than there is.
LEMMA BillDecides ==
    ASSUME CallsInv, BillInv, Decide
    PROVE  BillInv'
<1>1. UNCHANGED <<log, answer, billed, pairs>> /\ guard = "reading"
  BY DEF Decide, callVars, workerVars
<1>3. CASE LimitReached
  <2>1. guard' = "stopping" /\ UNCHANGED <<unread, seen>> /\ Visited' = Visited
    BY <1>3 DEF Decide, Visited
  <2>2. Visited \in SUBSET Worker
    BY WorkersFinite DEF BillInv
  <2>3. /\ On(billed, Visited) \in Nat /\ Total(billed) \in Nat
        /\ On(billed, Visited) <= Total(billed)
        /\ On(pairs, Visited) \in Nat /\ Total(pairs) \in Nat
        /\ On(pairs, Visited) <= Total(pairs)
    BY <2>2, PartOfTotal DEF BillInv
  <2>4. /\ Cost(seen) \in Nat /\ Cost(seen) <= On(billed, Visited)
        /\ seen.pairs \in Nat /\ seen.pairs <= On(pairs, Visited)
    BY CostOf DEF BillInv
  <2>5. StopLine \in Nat /\ TargetPairs \in Nat
    BY GuardAssumption DEF GuardAssumption
  <2>6. StopJustified'
    BY <1>1, <1>3, <2>3, <2>4, <2>5 DEF StopJustified, LimitReached
  <2> QED
    BY <1>1, <2>1, <2>6 DEF BillInv
<1>4. CASE ~LimitReached
  <2>1. /\ guard' = "reading" /\ unread' = Len(Directories) /\ seen' = NothingSeen
    BY <1>1, <1>4 DEF Decide
  <2>2. Visited' = {} /\ unread' \in 0..Len(Directories)
    <3>1. Len(Directories) \in Nat
      BY GuardAssumption DEF GuardAssumption
    <3> QED
      BY <2>1, <3>1 DEF Visited
  <2>3. Priced(seen') /\ Cost(seen') = 0 /\ seen'.pairs = 0
    BY <2>1 DEF NothingSeen, Priced, Cost
  <2>4. \A f : On(f, {}) = 0
    BY SumEmpty
  <2> QED
    BY <1>1, <2>1, <2>2, <2>3, <2>4 DEF BillInv, StopJustified
<1> QED
  BY <1>3, <1>4

\* A guard that is started again has seen nothing.
LEMMA BillRestarts ==
    ASSUME BillInv, RestartGuard
    PROVE  BillInv'
<1>1. /\ UNCHANGED <<log, answer, billed, pairs>> /\ guard' = "reading"
      /\ unread' = Len(Directories) /\ seen' = NothingSeen
  BY DEF RestartGuard, callVars, workerVars
<1>2. Visited' = {} /\ unread' \in 0..Len(Directories)
  <2>1. Len(Directories) \in Nat
    BY GuardAssumption DEF GuardAssumption
  <2> QED
    BY <1>1, <2>1 DEF Visited
<1>3. Priced(seen') /\ Cost(seen') = 0 /\ seen'.pairs = 0
  BY <1>1 DEF NothingSeen, Priced, Cost
<1>4. \A f : On(f, {}) = 0
  BY SumEmpty
<1> QED
  BY <1>1, <1>2, <1>3, <1>4 DEF BillInv, StopJustified

LEMMA BillStarts == Init => BillInv
<1> SUFFICES ASSUME Init PROVE BillInv
  OBVIOUS
<1>1. /\ billed = [w \in Worker |-> 0] /\ pairs = [w \in Worker |-> 0]
      /\ guard = "reading" /\ unread = Len(Directories) /\ seen = NothingSeen
      /\ \A w \in Worker : log[w] = << >> /\ answer[w] = NoAnswer
  BY DEF Init, CallsInit
<1>2. Len(Directories) \in Nat
  BY GuardAssumption DEF GuardAssumption
<1>3. Visited = {} /\ unread \in 0..Len(Directories)
  BY <1>1, <1>2 DEF Visited
<1>4. \A w \in Worker : LogCost(log[w]) + Cost(answer[w].usage) <= billed[w]
  BY <1>1, NoAnswerIsFree, CostStarts
<1>5. Priced(seen) /\ Cost(seen) = 0 /\ seen.pairs = 0
  BY <1>1 DEF NothingSeen, Priced, Cost
<1>6. On(billed, Visited) = 0 /\ On(pairs, Visited) = 0
  BY <1>3, SumEmpty
<1> QED
  BY <1>1, <1>3, <1>4, <1>5, <1>6 DEF BillInv, StopJustified

\* One step of a worker, of its process or of the guard.
LEMMA BillStep == CallsInv /\ BillInv /\ [Next]_vars => BillInv'
<1> SUFFICES ASSUME CallsInv, BillInv, [Next]_vars PROVE BillInv'
  OBVIOUS
<1>a. guard \in {"reading", "stopping", "stopped", "dead"}
  BY DEF BillInv
<1>1. CASE \E w \in Worker : Call(w)
  BY <1>1, BillCalls
<1>2. CASE \E w \in Worker : PublishPair(w)
  BY <1>2, BillPublishes
<1>3. CASE \E p \in Process : StartProcess(p)
  <2>1. UNCHANGED <<log, answer, billed, pairs, unread, seen, guard>>
    BY <1>3 DEF StartProcess, Start, guardVars
  <2> QED
    BY <1>a, <2>1, BillIdle
<1>4. CASE \E p \in Process : CrashProcess(p)
  BY <1>4, BillGone DEF CrashProcess, Crash, guardVars
<1>5. CASE ReadDirectory
  BY <1>5, BillReads
<1>6. CASE Decide
  BY <1>6, BillDecides
<1>7. ASSUME NEW p \in Process, StopProcess(p)
      PROVE  BillInv'
  <2>1. UNCHANGED <<pairs, guard, unread, seen>> /\ guard = "stopping"
    BY <1>7 DEF StopProcess
  <2>2. UNCHANGED callVars \/ \E fate \in [Worker -> Fate] : Gone(p, fate)
    BY <1>7 DEF StopProcess
  <2>3. CASE UNCHANGED callVars
    BY <1>a, <2>1, <2>3, BillIdle DEF callVars, workerVars
  <2>4. CASE \E fate \in [Worker -> Fate] : Gone(p, fate)
    BY <2>1, <2>4, BillGone
  <2> QED
    BY <2>2, <2>3, <2>4
<1>8. CASE ReadRaises \/ GuardFails
  <2>1. UNCHANGED <<log, answer, billed, pairs, unread, seen>> /\ guard' = "dead"
    BY <1>8 DEF ReadRaises, GuardFails, callVars, workerVars
  <2> QED
    BY <2>1, BillIdle
<1>9. CASE Finish
  <2>1. /\ UNCHANGED <<log, answer, billed, pairs, unread, seen>>
        /\ guard = "stopping" /\ guard' = "stopped"
    BY <1>9 DEF Finish, callVars, workerVars
  <2> QED
    BY <2>1, BillIdle
<1>10. CASE UNCHANGED vars
  BY <1>a, <1>10, BillIdle DEF vars, callVars, workerVars, guardVars
<1>11. CASE RestartGuard
  BY <1>11, BillRestarts
<1> QED
  BY <1>1, <1>2, <1>3, <1>4, <1>5, <1>6, <1>7, <1>8, <1>9, <1>10, <1>11
     DEF Next, GuardStep

\* However the calls, the publications, the kills, the torn and the lost lines
\* interleave with a reading of the logs that takes many steps: when the guard stops the
\* run, the pairs it counted are there or the bill has reached the limit, for
\* any number of workers, processes and prices of a call.
THEOREM GuardStopJustified == Spec => []StopJustified
<1>1. Init => CallsInv /\ BillInv
  BY GuardInit, BillStarts
<1>2. (CallsInv /\ BillInv) /\ [Next]_vars => (CallsInv /\ BillInv)'
  BY GuardKeeps, BillStep
<1>3. CallsInv /\ BillInv => StopJustified
  BY DEF BillInv
<1> QED
  BY <1>1, <1>2, <1>3, PTL DEF Spec

-----------------------------------------------------------------------------
(* DatasetSelection *)

\* What passes the check of a document has no content twice.
LEMMA SoundDiffers ==
    ASSUME NEW d, \A t \in Task : IsFiniteSet(d[t]), Sound(d)
    PROVE  /\ \A u, v \in Rows(d) : given.content[u] = given.content[v] => u = v
           /\ \A t \in Task : Cardinality(d[t]) = PerTask
<1>1. IsFiniteSet(Task) /\ PerTask \in Nat
  BY SelectionAssumption DEF SelectionAssumption
<1>2. \A t \in Task : IsFiniteSet(d[t]) /\ Cardinality(d[t]) = PerTask
  BY DEF Sound
<1>3. IsFiniteSet(Rows(d)) /\ Cardinality(Rows(d)) <= PerTask * Cardinality(Task)
  BY <1>1, <1>2, UnionBound DEF Rows
<1>4. Cardinality(Contents(Rows(d))) = PerTask * Cardinality(Task)
  BY DEF Sound
<1>5. /\ Cardinality(Contents(Rows(d))) \in Nat
      /\ Cardinality(Contents(Rows(d))) <= Cardinality(Rows(d))
      /\ Cardinality(Contents(Rows(d))) = Cardinality(Rows(d))
            => \A u, v \in Rows(d) : given.content[u] = given.content[v] => u = v
  BY <1>3, ImageOf DEF Contents
<1>6. Cardinality(Rows(d)) \in Nat
  BY <1>3, FS_CardinalityType
<1> QED
  BY <1>2, <1>3, <1>4, <1>5, <1>6

\* What is known of the documents, with the manifests and the base selection as
\* arguments.
ContentsIn(g, rows) == {g.content[v] : v \in rows}

\* No content twice.
Distinct(g, d) ==
    \A u, v \in Rows(d) : g.content[u] = g.content[v] => u = v

\* A base selection.
Based(g, b) ==
    /\ \A t \in Task : b[t] \in SUBSET Final /\ Cardinality(b[t]) = PerTask
    /\ Cardinality(ContentsIn(g, Rows(b))) = PerTask * Cardinality(Task)
    /\ Distinct(g, b)
    /\ Rows(b) \cap g.prior = {}
    /\ ContentsIn(g, Rows(b)) \cap ContentsIn(g, g.prior) = {}

\* A revision of it: as many rows, and only rows of the perception group gone.
Revises(g, b, d) ==
    /\ Distinct(g, d)
    /\ \A t \in Task :
          /\ Cardinality(d[t]) = PerTask
          /\ Cardinality(b[t] \ d[t]) = Replaced
          /\ \A v \in b[t] \ d[t] : GroupOf[v] = Perception

\* One clip of an external video.
OneClip(g, d) ==
    \A u, v \in Rows(d) \cap External : g.parent[u] = g.parent[v] => u = v

\* Rows that are not in the base take the place of as many of the group.
LEMMA ReplaceRevises ==
    ASSUME NEW removed, NEW added,
           \A t \in Task : base[t] \in SUBSET Final,
           \A t \in Task : removed[t] \in Removals(t),
           \A t \in Task : added[t] \cap base[t] = {} /\ IsFiniteSet(added[t]),
           NEW d, d = Replace(removed, added), Written(d)
    PROVE  /\ Revises(given, base, d)
           /\ \A t \in Task : d[t] = (base[t] \ removed[t]) \cup added[t]
<1>1. /\ d = [t \in Task |-> (base[t] \ removed[t]) \cup added[t]]
      /\ Sound(d)
  BY DEF Replace, Written
<1>2. \A t \in Task : d[t] = (base[t] \ removed[t]) \cup added[t]
  BY <1>1
<1>3. IsFiniteSet(Final)
  BY SelectionAssumption DEF SelectionAssumption
<1>4. ASSUME NEW t \in Task PROVE IsFiniteSet(d[t])
  <2>1. IsFiniteSet(base[t] \ removed[t])
    BY <1>3, FS_Subset
  <2>2. IsFiniteSet(added[t])
    OBVIOUS
  <2>3. IsFiniteSet((base[t] \ removed[t]) \cup added[t])
    BY ONLY <2>1, <2>2, FS_Union
  <2> QED
    BY <1>2, <2>3
<1>5. \A t \in Task : /\ removed[t] \subseteq base[t]
                      /\ Cardinality(removed[t]) = Replaced
                      /\ \A v \in removed[t] : GroupOf[v] = Perception
  BY DEF Removals, kSubset
<1>6. \A t \in Task : base[t] \ d[t] = removed[t]
  BY <1>2, <1>5
<1>7. /\ \A u, v \in Rows(d) : given.content[u] = given.content[v] => u = v
      /\ \A t \in Task : Cardinality(d[t]) = PerTask
  BY <1>1, <1>4, SoundDiffers
<1> QED
  BY <1>2, <1>5, <1>6, <1>7 DEF Revises, Distinct

\* The fallback of the external revision takes none but the candidates.
LEMMA TakesRows ==
    ASSUME NEW rows, NEW total, NEW cuts
    PROVE  TakeStratified(rows, total, cuts) \subseteq SUBSET rows
<1>1. \A r, n : Leading(r, n) \subseteq SUBSET r
  BY DEF Leading, kSubset
<1>2. \A taken : Fallback(rows, taken) \subseteq rows
  BY DEF Fallback
<1>3. \A r : Deduplicated(r) \subseteq SUBSET r
  BY DEF Deduplicated
<1> DEFINE strata == {c \cup m : c \in Leading(rows \cap given.cut, cuts),
                                 m \in Leading(rows \ given.cut, total - cuts)}
           fill(taken) == {taken \cup f : f \in Leading(Fallback(rows, taken),
                                                        total - Cardinality(taken))}
           filled == UNION {fill(s) : s \in strata}
<1>4. strata \subseteq SUBSET rows
  BY <1>1
<1>5. \A taken \in SUBSET rows : fill(taken) \subseteq SUBSET rows
  BY <1>1, <1>2
<1>6. TakeStratified(rows, total, cuts)
        = UNION {fill(d) : d \in UNION {Deduplicated(s) : s \in filled}}
  BY DEF TakeStratified
<1> HIDE DEF strata, fill
<1>7. filled \subseteq SUBSET rows
  BY <1>4, <1>5
<1>8. UNION {Deduplicated(s) : s \in filled} \subseteq SUBSET rows
  BY <1>3, <1>7
<1> QED
  BY <1>5, <1>6, <1>8

\* The documents that are written, against the manifests they were made from.
SelectionInv ==
    /\ given \in Manifests
    /\ Written(base) => Based(given, base)
    /\ Written(dynamic) => Written(base) /\ Revises(given, base, dynamic)
    /\ Written(external) => /\ Written(base) /\ Revises(given, base, external)
                           /\ OneClip(given, external)
    /\ report # "failed"

LEMMA SelectionStart == SelectionInit => SelectionInv
BY SelectionAssumption
   DEF SelectionAssumption, SelectionInit, SelectionInv, Written

LEMMA SelectionIsClean == SelectionInv => SelectionClean
BY DEF SelectionInv, SelectionClean, Based, Revises, Distinct, OneClip, Contents,
       ContentsIn

\* The chosen rows are checked before they are written.
LEMMA BaseSelected ==
    ASSUME SelectionInv, Select
    PROVE  SelectionInv'
<1>1. PICK chosen :
        /\ \A t \in Task : chosen[t] \subseteq Eligible
        /\ base' # Refused =>
              /\ base' = chosen /\ Sound(chosen)
              /\ Rows(chosen) \cap given.prior = {}
              /\ Contents(Rows(chosen)) \cap Contents(given.prior) = {}
  <2> DEFINE quotas == LargestRemainder(Weights, PerTask, GroupOrder)
             chosen == [t \in Task |->
                          UNION {Earliest(InGroup(t, g), quotas[g]) : g \in Group}]
  <2>1. \A t \in Task : chosen[t] \subseteq Eligible
    BY DEF Earliest, InGroup
  <2>2. base' # Refused =>
              /\ base' = chosen /\ Sound(chosen)
              /\ Rows(chosen) \cap given.prior = {}
              /\ Contents(Rows(chosen)) \cap Contents(given.prior) = {}
    BY DEF Select
  <2> HIDE DEF chosen
  <2> QED
    BY <2>1, <2>2
<1>2. UNCHANGED <<given, dynamic, external, report>> /\ base = Missing
  BY DEF Select
<1>3. Eligible \subseteq Final
  BY DEF Eligible
<1>4. ~Written(dynamic) /\ ~Written(external)
  BY <1>2 DEF SelectionInv, Written
<1>5. ASSUME Written(base') PROVE Based(given, base')
  <2>1. /\ base' = chosen /\ Sound(chosen)
        /\ Rows(chosen) \cap given.prior = {}
        /\ Contents(Rows(chosen)) \cap Contents(given.prior) = {}
    BY <1>1, <1>5 DEF Written
  <2>2. \A t \in Task : chosen[t] \in SUBSET Final /\ IsFiniteSet(chosen[t])
    <3>1. IsFiniteSet(Final)
      BY SelectionAssumption DEF SelectionAssumption
    <3> QED
      BY <1>1, <1>3, <3>1, FS_Subset
  <2>3. /\ \A u, v \in Rows(chosen) : given.content[u] = given.content[v] => u = v
        /\ \A t \in Task : Cardinality(chosen[t]) = PerTask
    BY <2>1, <2>2, SoundDiffers
  <2>4. Cardinality(ContentsIn(given, Rows(chosen))) = PerTask * Cardinality(Task)
    BY <2>1 DEF Sound, Contents, ContentsIn
  <2> QED
    BY <2>1, <2>2, <2>3, <2>4 DEF Based, Distinct, Contents, ContentsIn
<1> QED
  BY <1>2, <1>4, <1>5 DEF SelectionInv

\* Rows that the base does not have, so that every removal is a real one.
LEMMA DynamicRevised ==
    ASSUME SelectionInv, ReplaceDynamic, Written(dynamic')
    PROVE  Revises(given, base, dynamic')
<1>1. PICK added \in Pick(Additions), removed \in Pick(Removals) :
         dynamic' = Replace(removed, added)
  BY DEF ReplaceDynamic, Written
<1>2. \A t \in Task : added[t] \in Additions(t) /\ removed[t] \in Removals(t)
  BY DEF Pick
<1>3. ASSUME NEW t \in Task
      PROVE  added[t] \subseteq Final /\ added[t] \cap base[t] = {}
  <2>1. \A k, S : kSubset(k, S) \subseteq SUBSET S
    BY DEF kSubset
  <2>2. added[t] \in Additions(t)
    BY <1>2
  <2>3. Additions(t) \subseteq SUBSET Addable(t)
    BY <2>1 DEF Additions
  <2>5. added[t] \subseteq Addable(t)
    BY <2>2, <2>3
  <2> QED
    BY <2>5 DEF Addable, Rows
<1>4. \A t \in Task : added[t] \subseteq Final /\ added[t] \cap base[t] = {}
  BY <1>3
<1>5. \A t \in Task : IsFiniteSet(added[t])
  <2>1. IsFiniteSet(Final)
    BY SelectionAssumption DEF SelectionAssumption
  <2> QED
    BY <1>4, <2>1, FS_Subset
<1>6. \A t \in Task : base[t] \in SUBSET Final
  BY DEF SelectionInv, Based, ReplaceDynamic
<1> QED
  BY <1>1, <1>2, <1>4, <1>5, <1>6, ReplaceRevises

\* External rows are never rows of the base, and one clip for each parent is
\* checked on all of them together.
LEMMA ExternalRevised ==
    ASSUME SelectionInv, ReplaceExternal, Written(external')
    PROVE  Revises(given, base, external') /\ OneClip(given, external')
<1> DEFINE sources == {SourceOf[v] : v \in External}
           takes(s) == TakeStratified(Candidates(s), Replaced, Cuts)
<1>a. Written(base)
  BY DEF ReplaceExternal
<1>1. PICK taken : 
        LET all == UNION {taken[s] : s \in sources}
        IN  /\ \A s \in sources : taken[s] \in takes(s)
            /\ Cardinality({given.parent[v] : v \in all}) = Cardinality(all)
            /\ \E first \in kSubset(Replaced, all), removed \in Pick(Removals) :
                  external' = Replace(removed, [t \in Task |->
                                 IF t = Halves[1] THEN first ELSE all \ first])
  <2> HIDE DEF takes
  <2>1. PICK taken : 
        LET all == UNION {taken[s] : s \in sources}
        IN  /\ \A s \in sources : taken[s] \in takes(s)
            /\ IF \/ \E s \in sources : Cardinality(taken[s]) # Replaced
                  \/ \E t \in Task : Removals(t) = {}
                  \/ Cardinality({given.parent[v] : v \in all}) # Cardinality(all)
                 THEN external' = Refused
                 ELSE \E first \in kSubset(Replaced, all), removed \in Pick(Removals) :
                        /\ \A s \in sources :
                              Cardinality(first \cap taken[s]) = (Replaced + 1) \div 2
                        /\ external' = Replace(removed, [t \in Task |->
                              IF t = Halves[1] THEN first ELSE all \ first])
    BY DEF ReplaceExternal, takes
  <2> QED
    BY <2>1 DEF Written
<1> DEFINE all == UNION {taken[s] : s \in sources}
<1>2. PICK first \in kSubset(Replaced, all), removed \in Pick(Removals) :
         external' = Replace(removed, [t \in Task |->
                        IF t = Halves[1] THEN first ELSE all \ first])
  BY <1>1
<1>3. all \subseteq External
  <2>1. \A s \in sources : taken[s] \subseteq Candidates(s)
    BY <1>1, TakesRows
  <2>2. \A s : Candidates(s) \subseteq External
    BY DEF Candidates, UniqueParents
  <2> QED
    BY <2>1, <2>2
<1>4. Cardinality({given.parent[v] : v \in all}) = Cardinality(all)
  BY <1>1
<1> HIDE DEF all
<1>5. IsFiniteSet(all) /\ first \subseteq all
  BY <1>3, FS_Subset, SelectionAssumption DEF SelectionAssumption, kSubset
<1>6. \A u, v \in all : given.parent[u] = given.parent[v] => u = v
  BY ONLY <1>4, <1>5, ImageOf
<1> DEFINE added == [t \in Task |-> IF t = Halves[1] THEN first ELSE all \ first]
<1>7. \A t \in Task : base[t] \in SUBSET Final
  BY <1>a DEF SelectionInv, Based
<1>8. \A t \in Task : added[t] \subseteq all
  BY <1>5
<1> HIDE DEF added
<1>9. \A t \in Task : added[t] \cap base[t] = {} /\ IsFiniteSet(added[t])
  <2>1. Final \cap External = {}
    BY SelectionAssumption DEF SelectionAssumption
  <2>2. \A t \in Task : IsFiniteSet(added[t])
    BY <1>5, <1>8, FS_Subset
  <2> QED
    BY <1>3, <1>7, <1>8, <2>1, <2>2
<1>10. \A t \in Task : removed[t] \in Removals(t)
  BY DEF Pick
<1>11. external' = Replace(removed, added)
  BY <1>2 DEF added
<1>12. /\ Revises(given, base, external')
       /\ \A t \in Task : external'[t] = (base[t] \ removed[t]) \cup added[t]
  BY <1>7, <1>9, <1>10, <1>11, ReplaceRevises
<1>13. Rows(external') \cap External \subseteq all
  <2>1. Final \cap External = {}
    BY SelectionAssumption DEF SelectionAssumption
  <2> QED
    BY <1>7, <1>8, <1>12, <2>1 DEF Rows
<1> QED
  BY <1>6, <1>12, <1>13 DEF OneClip

\* The audit reads what the invariant says and cannot fail.
LEMMA SelectionStep == SelectionInv /\ [SelectionNext]_selectionVars => SelectionInv'
<1> SUFFICES ASSUME SelectionInv, [SelectionNext]_selectionVars PROVE SelectionInv'
  OBVIOUS
<1>1. CASE Select
  BY <1>1, BaseSelected
<1>2. CASE ReplaceDynamic
  <2>1. UNCHANGED <<given, base, external, report>> /\ Written(base)
    BY <1>2 DEF ReplaceDynamic
  <2>2. Written(dynamic') => Revises(given, base, dynamic')
    BY <1>2, DynamicRevised
  <2> QED
    BY <2>1, <2>2 DEF SelectionInv
<1>3. CASE UnfitMedia
  BY <1>3 DEF UnfitMedia, SelectionInv, Written
<1>4. CASE ReplaceExternal
  <2>1. UNCHANGED <<given, base, dynamic, report>> /\ Written(base)
    BY <1>4 DEF ReplaceExternal
  <2>2. Written(external') =>
          Revises(given, base, external') /\ OneClip(given, external')
    BY <1>4, ExternalRevised
  <2> QED
    BY <2>1, <2>2 DEF SelectionInv
<1>5. CASE AuditSelection
  <2>1. UNCHANGED <<given, base, dynamic, external>> /\ Based(given, base)
    BY <1>5 DEF AuditSelection, SelectionInv
  <2>2. Rows(base) \subseteq Final
    BY <2>1 DEF Based, Rows
  <2>3. Sound(base)
    BY <2>1 DEF Based, Sound, Contents, ContentsIn
  <2>4. Contents(Rows(base)) \cap Contents(given.prior) = {}
        /\ Rows(base) \cap given.prior = {}
    BY <2>1 DEF Based, Contents, ContentsIn
  <2>5. report' = "passed"
    BY <1>5, <2>2, <2>3, <2>4 DEF AuditSelection
  <2> QED
    BY <2>1, <2>5 DEF SelectionInv
<1>6. CASE UNCHANGED selectionVars
  BY <1>6 DEF selectionVars, SelectionInv
<1> QED
  BY <1>1, <1>2, <1>3, <1>4, <1>5, <1>6 DEF SelectionNext

\* Whatever the manifests hold and whatever rows are picked: no content is
\* selected twice, the revisions replace what they say they replace, and the
\* audit agrees, for any number of rows, groups and sources.
THEOREM SelectionStaysClean == SelectionSpec => []SelectionClean
<1>1. SelectionInit => SelectionInv
  BY SelectionStart
<1>2. SelectionInv /\ [SelectionNext]_selectionVars => SelectionInv'
  BY SelectionStep
<1>3. SelectionInv => SelectionClean
  BY SelectionIsClean
<1> QED
  BY <1>1, <1>2, <1>3, PTL DEF SelectionSpec

-----------------------------------------------------------------------------
(* BudgetSelection *)

\* The keys ahead of a key come before it in a strict order.
LEMMA AheadOrders ==
    ASSUME NEW S, NEW w \in [S -> Nat], NEW T \in Nat, Total(w) \in Nat, Total(w) > 0,
           NEW rank, \A k \in S : rank[k] \in Nat,
           \A j, k \in S : rank[j] = rank[k] => j = k
    PROVE  /\ \A k \in S : Ahead(w, T, rank, k) \subseteq S
           /\ \A k \in S : k \notin Ahead(w, T, rank, k)
           /\ \A j, k \in S : j \in Ahead(w, T, rank, k)
                 => Ahead(w, T, rank, j) \subseteq Ahead(w, T, rank, k)
           /\ \A j, k \in S : j # k
                 => j \in Ahead(w, T, rank, k) \/ k \in Ahead(w, T, rank, j)
<1> DEFINE lost == [k \in S |-> (T * w[k]) % Total(w)]
<1>1. \A k \in S : lost[k] \in Nat
  <2>1. \A x, y \in Nat : x * y \in Nat
    OBVIOUS
  <2> SUFFICES ASSUME NEW k \in S PROVE lost[k] \in Nat
    OBVIOUS
  <2>2. T * w[k] \in Nat
    BY <2>1
  <2> QED
    BY <2>2, DivRest
<1>2. \A j, k \in S : j \in Ahead(w, T, rank, k) <=>
         lost[j] > lost[k] \/ (lost[j] = lost[k] /\ rank[j] < rank[k])
  BY DEF Ahead
<1>3. \A k \in S : Ahead(w, T, rank, k) \subseteq S
  BY DEF Ahead
<1> HIDE DEF lost
<1> QED
  BY <1>1, <1>2, <1>3

\* The rest that rounding down leaves is given away exactly.
LEMMA AllocationCloses ==
    ASSUME NEW S, IsFiniteSet(S), S # {}, NEW w \in [S -> Nat \ {0}], NEW T \in Nat,
           NEW rank, \A k \in S : rank[k] \in Nat,
           \A j, k \in S : rank[j] = rank[k] => j = k
    PROVE  Total(LargestRemainder(w, T, rank)) = T
<1> DEFINE W == Total(w)
           floors == [k \in S |-> (T * w[k]) \div W]
           lost == [k \in S |-> (T * w[k]) % W]
           remaining == T - Total(floors)
           few == {k \in S : Cardinality(Ahead(w, T, rank, k)) < remaining}
           share == [k \in S |-> IF k \in few THEN floors[k] + 1 ELSE floors[k]]
<1>1. LargestRemainder(w, T, rank) = share
  BY DEF LargestRemainder
<1>2. /\ W = On(w, S) /\ W \in Nat /\ W > 0
  <2>1. W = On(w, S)
    BY TotalOn
  <2>2. On(w, S) \in Nat
    BY SumNat
  <2>3. On(w, S) > 0
    <3>1. PICK k : k \in S
      OBVIOUS
    <3> DEFINE R == S \ {k}
    <3>2. /\ \A x \in S : w[x] \in Int
          /\ \A x \in R : w[x] \in Nat
          /\ IsFiniteSet(R) /\ w[k] \in Nat /\ w[k] > 0
      BY <3>1, FS_Subset
    <3>3. On(w, S) = w[k] + On(w, R)
      BY ONLY IsFiniteSet(S), <3>1, <3>2, SumRemove
    <3> HIDE DEF R
    <3>4. On(w, R) \in Nat
      BY ONLY <3>2, SumNat
    <3> QED
      BY <3>2, <3>3, <3>4
  <2> QED
    BY <2>1, <2>2, <2>3
<1> HIDE DEF W
<1>3. \A k \in S : /\ floors[k] \in Nat /\ lost[k] \in Nat /\ lost[k] < W
                   /\ w[k] \in Nat /\ T * w[k] = W * floors[k] + lost[k]
  <2> SUFFICES ASSUME NEW k \in S
               PROVE  /\ floors[k] \in Nat /\ lost[k] \in Nat /\ lost[k] < W
                      /\ w[k] \in Nat /\ T * w[k] = W * floors[k] + lost[k]
    OBVIOUS
  <2>1. \A x, y \in Nat : x * y \in Nat
    OBVIOUS
  <2>2. T * w[k] \in Nat
    BY <2>1
  <2> QED
    BY <1>2, <2>2, DivRest
<1>4. Total(floors) = On(floors, S) /\ On(floors, S) \in Nat
  <2>1. floors = [k \in S |-> floors[k]]
    OBVIOUS
  <2> HIDE DEF floors
  <2>2. Total(floors) = On(floors, S)
    BY ONLY <2>1, TotalOn
  <2> QED
    BY <1>3, <2>2, SumNat
<1> HIDE DEF floors, lost
\* Together the remainders are the rest times the sum of the weights.
<1>5. W * remaining = On(lost, S)
  <2> DEFINE f == [k \in S |-> T * w[k]]
             g == [k \in S |-> W * floors[k]]
  <2>1. \A x, y \in Nat : x * y \in Int
    OBVIOUS
  <2>2. /\ \A k \in S : w[k] \in Int /\ f[k] = T * w[k]
        /\ \A k \in S : floors[k] \in Int /\ g[k] = W * floors[k]
        /\ \A k \in S : g[k] \in Int /\ lost[k] \in Int /\ f[k] = g[k] + lost[k]
        /\ T \in Int /\ W \in Int
    BY <1>2, <1>3, <2>1
  <2> HIDE DEF f, g
  <2>3. On(f, S) = T * On(w, S)
    BY ONLY IsFiniteSet(S), <2>2, SumTimes
  <2>4. On(g, S) = W * On(floors, S)
    BY ONLY IsFiniteSet(S), <2>2, SumTimes
  <2>5. On(f, S) = On(g, S) + On(lost, S)
    BY ONLY IsFiniteSet(S), <2>2, SumPlus
  <2>6. On(lost, S) \in Int
    BY <2>2, SumInt
  <2>7. \A x, y, z, l \in Int : x * y = y * z + l => y * (x - z) = l
    OBVIOUS
  <2>8. T * W = W * Total(floors) + On(lost, S)
    BY ONLY <1>2, <1>4, <2>3, <2>4, <2>5
  <2>9. Total(floors) \in Int
    BY <1>4
  <2>10. W * (T - Total(floors)) = On(lost, S)
    <3>1. PICK c, l : c = Total(floors) /\ l = On(lost, S)
      OBVIOUS
    <3>2. T * W = W * c + l /\ T \in Int /\ W \in Int /\ c \in Int /\ l \in Int
      BY <1>2, <2>6, <2>8, <2>9, <3>1
    <3>3. W * (T - c) = l
      BY ONLY <3>2, <2>7
    <3> QED
      BY <3>1, <3>3
  <2> QED
    BY <2>10
<1>6. Cardinality(S) \in Nat
  BY FS_CardinalityType
<1>7. On(lost, S) \in Nat /\ On(lost, S) <= W * Cardinality(S)
  <2> DEFINE one == [k \in S |-> 1]
             all == [k \in S |-> W]
  <2>1. /\ \A k \in S : one[k] = 1
        /\ \A k \in S : one[k] \in Int /\ all[k] = W * one[k]
        /\ \A k \in S : lost[k] \in Int /\ all[k] \in Int /\ lost[k] <= all[k]
        /\ \A k \in S : lost[k] \in Nat
        /\ W \in Int
    BY <1>2, <1>3
  <2> HIDE DEF one, all
  <2>2. On(one, S) = Cardinality(S)
    BY ONLY IsFiniteSet(S), <2>1, SumOnes
  <2>3. On(all, S) = W * On(one, S)
    BY ONLY IsFiniteSet(S), <2>1, SumTimes
  <2>4. On(lost, S) <= On(all, S)
    BY ONLY IsFiniteSet(S), <2>1, SumMonotone
  <2>5. On(lost, S) \in Nat
    BY ONLY IsFiniteSet(S), <2>1, SumNat
  <2> QED
    BY <2>2, <2>3, <2>4, <2>5
<1>8. remaining \in 0..Cardinality(S)
  <2>1. remaining \in Int
    BY <1>4
  <2> HIDE DEF remaining
  <2>2. remaining >= 0
    <3> SUFFICES ASSUME remaining <= -1 PROVE FALSE
      BY <2>1
    <3>1. W * remaining <= W * (-1)
      BY <1>2, <2>1, TimesMonotone
    <3> QED
      BY <1>2, <1>5, <1>7, <3>1
  <2>3. remaining <= Cardinality(S)
    <3> SUFFICES ASSUME Cardinality(S) + 1 <= remaining PROVE FALSE
      BY <1>6, <2>1
    <3>1. W * (Cardinality(S) + 1) <= W * remaining
      BY <1>2, <1>6, <2>1, TimesMonotone
    <3>2. \A x, y \in Int : x * (y + 1) = x * y + x /\ x * y \in Int
      OBVIOUS
    <3>3. W * (Cardinality(S) + 1) = W * Cardinality(S) + W
          /\ W * Cardinality(S) \in Int
      BY <1>2, <1>6, <3>2
    <3> QED
      BY <1>2, <1>5, <1>7, <3>1, <3>3
  <2> QED
    BY <1>6, <2>1, <2>2, <2>3
<1> HIDE DEF remaining
<1>9. Cardinality(few) = remaining
  <2> DEFINE ahead == [k \in S |-> Ahead(w, T, rank, k)]
  <2>1. w \in [S -> Nat]
    OBVIOUS
  <2>2. /\ \A k \in S : Ahead(w, T, rank, k) \subseteq S
        /\ \A k \in S : k \notin Ahead(w, T, rank, k)
        /\ \A j, k \in S : j \in Ahead(w, T, rank, k)
              => Ahead(w, T, rank, j) \subseteq Ahead(w, T, rank, k)
        /\ \A j, k \in S : j # k
              => j \in Ahead(w, T, rank, k) \/ k \in Ahead(w, T, rank, j)
    BY <1>2, <2>1, AheadOrders DEF W
  <2>3. /\ ahead \in [S -> SUBSET S]
        /\ \A k \in S : k \notin ahead[k]
        /\ \A j, k \in S : j \in ahead[k] => ahead[j] \subseteq ahead[k]
        /\ \A j, k \in S : j # k => j \in ahead[k] \/ k \in ahead[j]
    BY <2>2
  <2>4. few = {k \in S : Cardinality(ahead[k]) < remaining}
    OBVIOUS
  <2> HIDE DEF ahead, few
  <2> QED
    BY ONLY IsFiniteSet(S), <1>8, <2>3, <2>4, FirstOfOrder
<1>10. Total(share) = On(floors, S) + Cardinality(few)
  <2> DEFINE more == [k \in S |-> IF k \in few THEN 1 ELSE 0]
             others == S \ few
  <2>1. /\ \A k \in S : floors[k] \in Int /\ more[k] \in Int
                        /\ share[k] = floors[k] + more[k]
        /\ \A k \in S : more[k] \in Int
        /\ \A k \in few : more[k] = 1
        /\ \A k \in others : more[k] = 0
        /\ few \cup others = S /\ few \cap others = {}
        /\ share = [k \in S |-> share[k]]
    BY <1>3
  <2>2. IsFiniteSet(few) /\ IsFiniteSet(others)
    BY FS_Subset
  <2>3. Cardinality(few) \in Nat
    BY <2>2, FS_CardinalityType
  <2> HIDE DEF share, more, few, others
  <2>4. Total(share) = On(share, S)
    BY ONLY <2>1, TotalOn
  <2>5. On(share, S) = On(floors, S) + On(more, S)
    BY ONLY IsFiniteSet(S), <2>1, SumPlus
  <2>6. On(more, S) = On(more, few) + On(more, others)
    BY ONLY IsFiniteSet(S), <2>1, SumUnion
  <2>7. On(more, few) = Cardinality(few)
    BY ONLY <2>1, <2>2, SumOnes
  <2>8. On(more, others) = 0
    BY ONLY <2>1, <2>2, SumZero
  <2> QED
    BY <2>3, <2>4, <2>5, <2>6, <2>7, <2>8
<1> QED
  <2>1. Total(share) = On(floors, S) + remaining
    BY <1>9, <1>10
  <2> QED
    BY <1>1, <1>4, <2>1 DEF remaining

\* Nothing is asked for that is not there.
LEMMA RemainderBounded ==
    ASSUME NEW S, IsFiniteSet(S), NEW w \in [S -> Nat \ {0}],
           NEW T \in 1..Total(w), NEW rank
    PROVE  /\ LargestRemainder(w, T, rank) \in [S -> Nat]
           /\ \A k \in S : LargestRemainder(w, T, rank)[k] <= w[k]
<1> DEFINE W == Total(w)
           floors == [k \in S |-> (T * w[k]) \div W]
           remaining == T - Total(floors)
           few(k) == Cardinality(Ahead(w, T, rank, k)) < remaining
           share == [k \in S |-> IF few(k) THEN floors[k] + 1 ELSE floors[k]]
<1>1. LargestRemainder(w, T, rank) = share
  BY DEF LargestRemainder
<1>2. W \in Nat /\ W = On(w, S)
  <2>1. W = On(w, S)
    BY TotalOn
  <2>2. On(w, S) \in Nat
    BY SumNat
  <2> QED
    BY <2>1, <2>2
<1>3. T \in Nat /\ T <= W /\ W > 0
  BY <1>2
<1>4. \A k \in S : w[k] \in Nat /\ w[k] > 0
  OBVIOUS
<1> HIDE DEF W
<1>5. \A k \in S : floors[k] \in Nat /\ floors[k] <= w[k] /\ (floors[k] = w[k] => T = W)
  BY <1>2, <1>3, <1>4, DivShare
<1>6. T = W => \A k \in S : ~ few(k)
  <2> SUFFICES ASSUME T = W, NEW k \in S PROVE ~ few(k)
    OBVIOUS
  <2>1. \A j \in S : floors[j] = w[j]
    BY <1>2, <1>3, <1>4, DivWhole
  <2>2. floors = w
    BY <2>1
  <2>3. remaining = 0
    BY <1>2, <2>2 DEF W
  <2>4. IsFiniteSet(Ahead(w, T, rank, k))
    BY FS_Subset DEF Ahead
  <2>5. Cardinality(Ahead(w, T, rank, k)) \in Nat
    BY <2>4, FS_CardinalityType
  <2> HIDE DEF remaining
  <2> QED
    BY <2>3, <2>5
<1> HIDE DEF floors, few
<1>7. \A k \in S : share[k] \in Nat /\ share[k] <= w[k]
  BY <1>3, <1>4, <1>5, <1>6
<1> HIDE DEF share
<1>8. share \in [S -> Nat]
  BY <1>7 DEF share
<1> QED
  BY <1>1, <1>7, <1>8

\* Types.
BudgetTypeOK ==
    /\ phase \in {"draw", "core", "order_core", "order_reserve", "ordered"}
    /\ cell \in [Stratum -> Nat \ {0}]
    /\ active \in [Stratum -> Nat]
    /\ core \in [Stratum -> Nat]
    /\ wanted \in [Stratum -> Nat]
    /\ used \in [Stratum -> Nat]

\* A list in order has at most what is wanted, and no stratum is ahead of its
\* share by a whole row.
BudgetInv ==
    /\ BudgetTypeOK
    /\ phase = "core" => core = None
    /\ phase \in {"draw", "core"} => used = None
    /\ phase = "draw" => active = None /\ core = None
    /\ \A k \in Stratum : used[k] <= wanted[k]
    /\ Representative

LEMMA NoneIsNone == None \in [Stratum -> Nat] /\ \A k \in Stratum : None[k] = 0
BY DEF None

LEMMA BudgetStart == BudgetInit => BudgetInv
<1> SUFFICES ASSUME BudgetInit PROVE BudgetInv
  OBVIOUS
<1>1. BudgetTypeOK
  BY NoneIsNone, BudgetAssumption DEF BudgetInit, BudgetTypeOK, BudgetAssumption
<1> QED
  BY <1>1, NoneIsNone DEF BudgetInit, BudgetInv, BudgetTypeOK, Representative

LEMMA TotalNat ==
    ASSUME NEW f \in [Stratum -> Nat]
    PROVE  Total(f) \in Nat /\ Total(f) = On(f, Stratum)
<1>1. IsFiniteSet(Stratum)
  BY BudgetAssumption DEF BudgetAssumption
<1>2. Total(f) = On(f, Stratum)
  BY TotalOn
<1>3. On(f, Stratum) \in Nat
  BY <1>1, SumNat
<1> QED
  BY <1>2, <1>3

\* The stratum that lags behind most lags behind.
LEMMA Lagging ==
    ASSUME BudgetInv, NEW k \in Stratum, Place(k)
    PROVE  Deficit(k) > 0 /\ Total(used') = Total(used) + 1
<1> DEFINE U == Total(used)
           W == Total(wanted)
           left == {j \in Stratum : used[j] < wanted[j]}
<1>1. IsFiniteSet(Stratum)
  BY BudgetAssumption DEF BudgetAssumption
<1>2. U \in Nat /\ W \in Nat /\ U = On(used, Stratum) /\ W = On(wanted, Stratum)
  BY TotalNat DEF BudgetInv, BudgetTypeOK
<1>3. /\ used' = [used EXCEPT ![k] = @ + 1] /\ k \in left
      /\ \A j \in left : Deficit(j) <= Deficit(k)
  <2>1. \A j \in Stratum : Deficit(j) \in Int
    <3>1. \A x, y, z \in Int : x * y - z * y \in Int /\ x * y \in Int
      OBVIOUS
    <3>2. \A j \in Stratum : wanted[j] \in Int /\ used[j] \in Int
      BY DEF BudgetInv, BudgetTypeOK
    <3> QED
      BY <1>2, <3>1, <3>2 DEF Deficit
  <2> QED
    BY <2>1 DEF Place
<1>4. used' \in [Stratum -> Nat] /\ \A j \in Stratum : used'[j] <= wanted[j]
  BY <1>3 DEF BudgetInv, BudgetTypeOK
<1>5. \A j \in Stratum : used[j] \in Nat /\ wanted[j] \in Nat /\ used[j] <= wanted[j]
  BY DEF BudgetInv, BudgetTypeOK
<1> HIDE DEF U, W
<1>6. Total(used') = U + 1
  <2>1. Total(used') = On(used', Stratum)
    BY <1>4, TotalNat
  <2>2. PICK f : f = used'
    OBVIOUS
  <2>3. /\ \A x \in Stratum : used[x] \in Int /\ f[x] \in Int
        /\ \A x \in Stratum \ {k} : used[x] = f[x]
        /\ f[k] - used[k] = 1
    BY <1>3, <1>4, <1>5, <2>2 DEF BudgetInv, BudgetTypeOK
  <2>4. On(f, Stratum) = On(used, Stratum) + (f[k] - used[k])
    BY ONLY <1>1, <2>3, k \in Stratum, SumChange
  <2> QED
    BY <1>2, <2>1, <2>2, <2>3, <2>4
<1>7. U + 1 <= W
  <2>1. PICK f : f = used'
    OBVIOUS
  <2>2. \A x \in Stratum : f[x] \in Int /\ wanted[x] \in Int /\ f[x] <= wanted[x]
    BY <1>4, <1>5, <2>1
  <2>3. On(f, Stratum) <= On(wanted, Stratum)
    BY ONLY <1>1, <2>2, SumMonotone
  <2>4. On(f, Stratum) = Total(used')
    BY <1>4, <2>1, TotalNat
  <2> QED
    BY <1>2, <1>6, <2>3, <2>4
\* The deficits of all strata add up to the length of the list.
<1> DEFINE f == [j \in Stratum |-> (U + 1) * wanted[j]]
           g == [j \in Stratum |-> (0 - W) * used[j]]
           h == [j \in Stratum |-> f[j] + g[j]]
<1>8. \A j \in Stratum : f[j] \in Int /\ g[j] \in Int /\ h[j] \in Int
  <2>1. \A x, y \in Int : x * y \in Int
    OBVIOUS
  <2>2. U + 1 \in Int /\ 0 - W \in Int
    BY <1>2
  <2> QED
    BY <1>5, <2>1, <2>2
<1>9. \A j \in Stratum : h[j] = Deficit(j)
  <2>1. \A a, b, x, y \in Int : a * x + (0 - b) * y = a * x - y * b
    OBVIOUS
  <2> QED
    BY <1>2, <1>5, <2>1 DEF Deficit, U, W
<1>10. On(h, Stratum) = W
  <2>1. On(f, Stratum) = (U + 1) * On(wanted, Stratum)
    <3>1. \A j \in Stratum : wanted[j] \in Int /\ f[j] = (U + 1) * wanted[j]
      BY <1>5
    <3>2. U + 1 \in Int
      BY <1>2
    <3> HIDE DEF f
    <3> QED
      BY ONLY <1>1, <3>1, <3>2, SumTimes
  <2>2. On(g, Stratum) = (0 - W) * On(used, Stratum)
    <3>1. \A j \in Stratum : used[j] \in Int /\ g[j] = (0 - W) * used[j]
      BY <1>5
    <3>2. 0 - W \in Int
      BY <1>2
    <3> HIDE DEF g
    <3> QED
      BY ONLY <1>1, <3>1, <3>2, SumTimes
  <2>3. \A j \in Stratum : f[j] \in Int /\ g[j] \in Int /\ h[j] = f[j] + g[j]
    BY <1>8
  <2> HIDE DEF f, g, h
  <2>4. On(h, Stratum) = On(f, Stratum) + On(g, Stratum)
    BY ONLY <1>1, <2>3, SumPlus
  <2>5. \A x, y \in Int : (x + 1) * y + (0 - y) * x = y
    OBVIOUS
  <2> QED
    BY <1>2, <2>1, <2>2, <2>4, <2>5
<1> HIDE DEF f, g, h
<1>11. PICK j \in Stratum : h[j] > 0
  <2>1. \A x \in Stratum : h[x] \in Int
    BY <1>8
  <2>2. On(h, Stratum) > 0
    BY <1>2, <1>7, <1>10
  <2> QED
    BY ONLY <1>1, <2>1, <2>2, SumPositive
<1>12. j \in left
  <2> SUFFICES ASSUME used[j] = wanted[j] PROVE FALSE
    BY <1>5
  <2>1. (U + 1) * wanted[j] <= W * wanted[j]
    BY <1>2, <1>5, <1>7, TimesMonotone
  <2>2. \A x, y \in Int : x * y = y * x
    OBVIOUS
  <2>3. Deficit(j) = (U + 1) * wanted[j] - W * wanted[j]
    BY <1>2, <1>5, <2>2 DEF Deficit, U, W
  <2>4. \A x, y \in Int : x * y \in Int
    OBVIOUS
  <2>5. (U + 1) * wanted[j] \in Int /\ W * wanted[j] \in Int
    BY <1>2, <1>5, <2>4
  <2> QED
    BY <1>9, <1>11, <2>1, <2>3, <2>5
<1>13. Deficit(j) \in Int /\ Deficit(k) \in Int
  BY <1>8, <1>9
<1> QED
  BY <1>3, <1>6, <1>9, <1>11, <1>12, <1>13 DEF U

\* One position more, or the next list.
LEMMA BudgetStep == BudgetInv /\ [BudgetNext]_budgetVars => BudgetInv'
<1> SUFFICES ASSUME BudgetInv, [BudgetNext]_budgetVars PROVE BudgetInv'
  OBVIOUS
<1>a. IsFiniteSet(Stratum)
  BY BudgetAssumption DEF BudgetAssumption
<1>1. ASSUME NEW target \in 1..Total(cell), Draw(target) PROVE BudgetInv'
  <2>1. cell \in [Stratum -> Nat \ {0}]
    BY DEF BudgetInv, BudgetTypeOK
  <2>2. active' = LargestRemainder(cell, target, Rank)
    BY <1>1 DEF Draw
  <2>3. active' \in [Stratum -> Nat] /\ \A k \in Stratum : active'[k] <= cell[k]
    BY <1>a, <2>1, <2>2, RemainderBounded
  <2>4. phase = "draw" /\ phase' = "core" /\ core = None /\ used = None
        /\ UNCHANGED <<cell, core, wanted, used>>
    BY <1>1 DEF Draw, BudgetInv
  <2>5. Representative'
    BY <2>3, <2>4, NoneIsNone DEF Representative
  <2> QED
    BY <2>3, <2>4, <2>5 DEF BudgetInv, BudgetTypeOK
<1>2. ASSUME NEW target \in 1..Total(active), DrawCore(target) PROVE BudgetInv'
  <2> DEFINE P == {j \in Stratum : active[j] > 0}
             present == [k \in P |-> active[k]]
             drawn == LargestRemainder(present, target, Rank)
  <2>1. phase = "core" /\ phase' = "order_core" /\ used = None
        /\ UNCHANGED <<cell, active, used>> /\ wanted' = core'
        /\ core' = [k \in Stratum |-> IF k \in P THEN drawn[k] ELSE 0]
    BY <1>2 DEF DrawCore, BudgetInv
  <2>2. active \in [Stratum -> Nat] /\ P \in SUBSET Stratum
    BY DEF BudgetInv, BudgetTypeOK
  <2>3. present \in [P -> Nat \ {0}] /\ IsFiniteSet(P)
    BY <1>a, <2>2, FS_Subset
  <2>4. Total(present) = Total(active)
    BY <1>a, <2>2, TotalSupport
  <2>5. drawn \in [P -> Nat] /\ \A k \in P : drawn[k] <= present[k]
    <3>1. target \in 1..Total(present)
      BY <2>4
    <3> HIDE DEF present, P
    <3> QED
      BY <2>3, <3>1, RemainderBounded
  <2> HIDE DEF drawn
  <2>6. core' \in [Stratum -> Nat] /\ \A k \in Stratum : core'[k] <= active[k]
    BY <2>1, <2>2, <2>5
  <2>7. Representative'
    BY <2>1, <2>6, NoneIsNone DEF Representative, BudgetInv
  <2> QED
    BY <2>1, <2>6, <2>7, NoneIsNone DEF BudgetInv, BudgetTypeOK
<1>3. ASSUME NEW k \in Stratum, Place(k) PROVE BudgetInv'
  <2>1. /\ used' = [used EXCEPT ![k] = @ + 1] /\ used[k] < wanted[k]
        /\ UNCHANGED <<phase, cell, active, core, wanted>>
        /\ phase \in {"order_core", "order_reserve"}
    BY <1>3 DEF Place
  <2>2. Deficit(k) > 0 /\ Total(used') = Total(used) + 1
    BY <1>3, Lagging
  <2>3. used' \in [Stratum -> Nat] /\ \A j \in Stratum : used'[j] <= wanted[j]
    BY <2>1 DEF BudgetInv, BudgetTypeOK
  <2>4. Total(used) \in Nat /\ Total(wanted) \in Nat
    BY TotalNat DEF BudgetInv, BudgetTypeOK
  <2>5. ASSUME NEW j \in Stratum, used'[j] > 0
        PROVE  (used'[j] - 1) * Total(wanted) < Total(used') * wanted[j]
    <3>1. CASE j = k
      <4>1. used'[j] - 1 = used[k] /\ used[k] \in Nat /\ wanted[k] \in Nat
        BY <2>1, <3>1 DEF BudgetInv, BudgetTypeOK
      <4>2. \A x, y \in Int : x * y \in Int
        OBVIOUS
      <4>3. (Total(used) + 1) * wanted[k] \in Int /\ used[k] * Total(wanted) \in Int
        BY <2>4, <4>1, <4>2
      <4> QED
        BY <2>2, <3>1, <4>1, <4>3 DEF Deficit
    <3>2. CASE j # k
      <4>1. used'[j] = used[j] /\ wanted[j] \in Nat /\ used[j] \in Nat
        BY <2>1, <3>2 DEF BudgetInv, BudgetTypeOK
      <4>2. (used[j] - 1) * Total(wanted) < Total(used) * wanted[j]
        BY <2>5, <4>1 DEF BudgetInv, Representative
      <4>3. (Total(used) + 1) * wanted[j] = Total(used) * wanted[j] + wanted[j]
        BY <2>4, <4>1
      <4>4. \A x, y \in Int : x * y \in Int
        OBVIOUS
      <4>5. Total(used) * wanted[j] \in Int /\ (used[j] - 1) * Total(wanted) \in Int
        <5>1. used[j] - 1 \in Int
          BY <4>1
        <5> QED
          BY <2>4, <4>1, <4>4, <5>1
      <4> QED
        BY <2>2, <4>1, <4>2, <4>3, <4>5
    <3> QED
      BY <3>1, <3>2
  <2>6. Representative'
    BY <2>1, <2>5 DEF Representative, BudgetInv
  <2> QED
    BY <2>1, <2>3, <2>6 DEF BudgetInv, BudgetTypeOK
<1>4. CASE NextList
  <2>1. CASE phase = "order_core"
    <3>1. phase' = "order_reserve" /\ wanted' = Reserve /\ used' = None
          /\ UNCHANGED <<cell, active, core>>
      BY <1>4, <2>1 DEF NextList
    <3>2. Reserve \in [Stratum -> Nat]
      BY DEF Reserve, BudgetInv, BudgetTypeOK, Representative
    <3>3. \A k \in Stratum : used'[k] <= wanted'[k]
      BY <3>1, <3>2, NoneIsNone
    <3>4. Representative'
      BY <3>1, NoneIsNone DEF Representative, BudgetInv
    <3> QED
      BY <3>1, <3>2, <3>3, <3>4, NoneIsNone DEF BudgetInv, BudgetTypeOK
  <2>2. CASE phase # "order_core"
    BY <1>4, <2>2 DEF NextList, BudgetInv, BudgetTypeOK, Representative
  <2> QED
    BY <2>1, <2>2
<1>5. CASE UNCHANGED budgetVars
  BY <1>5 DEF budgetVars, BudgetInv, BudgetTypeOK, Representative
<1> QED
  BY <1>1, <1>2, <1>3, <1>4, <1>5 DEF BudgetNext

\* Whatever cell, numbers drawn and ranking: no stratum is asked for more rows
\* than it has, and at every position of the list no stratum is represented by
\* a row more than its share, for any number of strata.
THEOREM SelectionRepresentative == BudgetSpec => []Representative
<1>1. BudgetInit => BudgetInv
  BY BudgetStart
<1>2. BudgetInv /\ [BudgetNext]_budgetVars => BudgetInv'
  BY BudgetStep
<1>3. BudgetInv => Representative
  BY DEF BudgetInv
<1> QED
  BY <1>1, <1>2, <1>3, PTL DEF BudgetSpec

\* Every draw gives as many rows as were asked for, however the quotas are
\* rounded and tied: the check that the allocation closes never fails.
DrawsClose ==
    [][/\ \A target \in 1..Total(cell) : Draw(target) => Total(active') = target
       /\ \A target \in 1..Total(active) :
             DrawCore(target) => Total(core') = target]_budgetVars

\* However many rows are asked for, of whatever strata and with whatever ties:
\* both draws give exactly that many.
THEOREM SelectionDrawsClose == BudgetSpec => DrawsClose
<1> DEFINE closes == /\ \A target \in 1..Total(cell) :
                           Draw(target) => Total(active') = target
                     /\ \A target \in 1..Total(active) :
                           DrawCore(target) => Total(core') = target
<1>1. BudgetInit => BudgetInv
  BY BudgetStart
<1>2. BudgetInv /\ [BudgetNext]_budgetVars => BudgetInv'
  BY BudgetStep
<1>3. BudgetInv => [closes]_budgetVars
  <2> SUFFICES ASSUME BudgetInv PROVE closes
    OBVIOUS
  <2>1. IsFiniteSet(Stratum)
        /\ \A P \in SUBSET Stratum :
              /\ \A k \in P : Rank[k] \in Nat
              /\ \A j, k \in P : Rank[j] = Rank[k] => j = k
    BY BudgetAssumption DEF BudgetAssumption, IsInjective
  <2>2. ASSUME NEW P \in SUBSET Stratum, NEW w \in [P -> Nat \ {0}],
               NEW target \in 1..Total(w)
        PROVE  /\ LargestRemainder(w, target, Rank) \in [P -> Nat]
               /\ Total(LargestRemainder(w, target, Rank)) = target
    <3>1. IsFiniteSet(P)
      BY <2>1, FS_Subset
    <3>2. LargestRemainder(w, target, Rank) \in [P -> Nat]
      BY <3>1, RemainderBounded
    <3>3. Total(w) \in Nat /\ target \in Nat /\ target > 0
      <4>1. Total(w) = On(w, P)
        BY TotalOn
      <4>2. On(w, P) \in Nat
        BY <3>1, SumNat
      <4> QED
        BY <4>1, <4>2
    <3>4. P # {}
      <4> SUFFICES ASSUME P = {} PROVE FALSE
        OBVIOUS
      <4>1. Total(w) = 0
        BY TotalOn, SumEmpty
      <4> QED
        BY <3>3, <4>1
    <3> QED
      BY <2>1, <3>1, <3>2, <3>3, <3>4, AllocationCloses
  <2>3. ASSUME NEW target \in 1..Total(cell), Draw(target)
        PROVE  Total(active') = target
    <3>1. cell \in [Stratum -> Nat \ {0}]
      BY DEF BudgetInv, BudgetTypeOK
    <3> QED
      BY <2>2, <2>3, <3>1 DEF Draw
  <2>4. ASSUME NEW target \in 1..Total(active), DrawCore(target)
        PROVE  Total(core') = target
    <3> DEFINE P == {j \in Stratum : active[j] > 0}
               present == [k \in P |-> active[k]]
               drawn == LargestRemainder(present, target, Rank)
    <3>1. active \in [Stratum -> Nat] /\ P \in SUBSET Stratum
          /\ present \in [P -> Nat \ {0}]
      BY DEF BudgetInv, BudgetTypeOK
    <3>2. Total(present) = Total(active)
      BY <2>1, <3>1, TotalSupport
    <3>3. core' = [k \in Stratum |-> IF k \in P THEN drawn[k] ELSE 0]
      BY <2>4 DEF DrawCore
    <3> HIDE DEF P, present
    <3>4. drawn \in [P -> Nat] /\ Total(drawn) = target
      BY <2>2, <3>1, <3>2
    <3> HIDE DEF drawn
    <3>5. /\ core' \in [Stratum -> Nat] /\ drawn = [k \in P |-> core'[k]]
          /\ \A k \in Stratum \ P : core'[k] = 0
      BY <3>1, <3>3, <3>4
    <3> QED
      BY <2>1, <3>1, <3>4, <3>5, TotalSupport
  <2> QED
    BY <2>3, <2>4
<1> QED
  BY <1>1, <1>2, <1>3, PTL DEF BudgetSpec, DrawsClose

-----------------------------------------------------------------------------
(* DatasetRelease: nothing half done *)

\* Where the tool has been before it is at a step.
ReleaseTypeOK ==
    /\ build \in Builds
    /\ progress \in {"begin", "plan", "restart", "swap", "package", "link",
                     "failed", "released"}
    /\ DOMAIN results = ReleaseTask
    /\ DOMAIN source = Video

\* Only a finished run is split; only what has been split is packaged.
Checked ==
    /\ progress \notin {"begin", "failed"} => build.complete
    /\ (\E t \in ReleaseTask : results[t] # Unset) => build.complete
    /\ progress \in {"package", "link", "released"} =>
          \A t \in ReleaseTask : results[t] # Unset
    /\ progress \in {"begin", "plan", "restart", "swap"} => release = Unset

\* Only the sources of videos that are not the last of their name are written.
LastIntact == \A v \in Video : LastThere(v) => source[v] = build.digest[v]

\* While files are linked: the videos are taken in their order, a link leads to
\* a video of that file, each file holds what was hashed for one of its videos,
\* and what is hashed of a last video is its own content.
Packed ==
    progress = "link" =>
       /\ DOMAIN inventory \subseteq Video
       /\ \A u \in DOMAIN inventory, v \in Video \ DOMAIN inventory :
             LinkOrder[u] < LinkOrder[v]
       /\ DOMAIN staging = {Dest(v) : v \in DOMAIN inventory}
       /\ \A d \in DOMAIN staging :
             /\ staging[d].of # Unset => /\ staging[d].of \in DOMAIN inventory
                                         /\ Dest(staging[d].of) = d
             /\ \E v \in DOMAIN inventory :
                   Dest(v) = d /\ inventory[v] = Bytes(staging[d])
       /\ \A v \in DOMAIN inventory : LastThere(v) =>
             /\ inventory[v] = build.digest[v]
             /\ Bytes(staging[Dest(v)]) = build.digest[v]

\* ReleaseHonest is inductive with them.
WholeInv == ReleaseTypeOK /\ Checked /\ LastIntact /\ Packed /\ ReleaseHonest

LEMMA ReleaseStart == ReleaseInit => WholeInv
<1> SUFFICES ASSUME ReleaseInit PROVE WholeInv
  OBVIOUS
<1>1. ReleaseTypeOK /\ Checked /\ Packed /\ ReleaseHonest
  BY ReleaseAssumption DEF ReleaseInit, ReleaseTypeOK, Checked, Packed, ReleaseHonest,
    ReleaseAssumption
<1>2. LastIntact
  BY DEF ReleaseInit, LastIntact
<1> QED
  BY <1>1, <1>2 DEF WholeInv

\* Bytes written for the next video reach its own file only, and of the
\* sources only one of an earlier video of that name.
LEMMA WriteReaches ==
    ASSUME WholeInv, progress = "link", UNCHANGED build,
           NEW w \in Video, NEW bytes, Due(w), Write(w, bytes)
    PROVE  /\ DOMAIN source' = Video
           /\ LastIntact'
           /\ DOMAIN staging' = DOMAIN staging \cup {Dest(w)}
           /\ \A d \in DOMAIN staging : d # Dest(w) =>
                 staging'[d] = staging[d] /\ Bytes(staging[d])' = Bytes(staging[d])
           /\ Bytes(staging[Dest(w)])' = bytes
           /\ staging'[Dest(w)].of # Unset =>
                 /\ staging'[Dest(w)].of \in DOMAIN inventory
                 /\ Dest(staging'[Dest(w)].of) = Dest(w)
<1>1. /\ DOMAIN source = Video /\ LastIntact /\ Unset \notin Video
      /\ LinkOrder \in [Video -> Nat]
  BY ReleaseAssumption DEF WholeInv, ReleaseTypeOK, ReleaseAssumption
<1>2. /\ DOMAIN inventory \subseteq Video /\ w \notin DOMAIN inventory
      /\ \A u \in DOMAIN inventory : LinkOrder[u] < LinkOrder[w]
      /\ \A d \in DOMAIN staging : staging[d].of # Unset =>
            staging[d].of \in DOMAIN inventory /\ Dest(staging[d].of) = d
  BY DEF WholeInv, Packed, Due
<1>3. \A v \in Video : Dest(v)' = Dest(v) /\ (LastThere(v)' <=> LastThere(v))
  BY DEF Dest, LastThere
<1>4. CASE Dest(w) \in DOMAIN staging /\ staging[Dest(w)].of # Unset
  <2> DEFINE u == staging[Dest(w)].of
  <2>1. /\ source' = [source EXCEPT ![u] = bytes] /\ staging' = staging
    BY <1>4 DEF Write
  <2>2. u \in DOMAIN inventory /\ u \in Video /\ Dest(u) = Dest(w)
    BY <1>2, <1>4
  <2>3. ~LastThere(u)
    <3>1. LinkOrder[u] < LinkOrder[w] /\ LinkOrder[u] \in Nat /\ LinkOrder[w] \in Nat
      BY <1>1, <1>2, <2>2
    <3> QED
      BY <2>2, <3>1 DEF LastThere
  <2>4. LastIntact'
    BY <1>1, <1>3, <2>1, <2>3 DEF LastIntact
  <2>5. ASSUME NEW d \in DOMAIN staging, d # Dest(w)
        PROVE  staging'[d] = staging[d] /\ Bytes(staging[d])' = Bytes(staging[d])
    <3>1. staging[d].of # u
      BY <1>2, <1>4, <2>2, <2>5
    <3> QED
      BY <2>1, <3>1 DEF Bytes
  <2>6. Bytes(staging[Dest(w)])' = bytes
    <3>1. staging'[Dest(w)'].of = u /\ u # Unset /\ source'[u] = bytes
      BY <1>1, <1>3, <1>4, <2>1, <2>2
    <3> QED
      BY <3>1 DEF Bytes
  <2>7. DOMAIN staging' = DOMAIN staging \cup {Dest(w)} /\ DOMAIN source' = Video
    BY <1>1, <1>4, <2>1
  <2> HIDE DEF u
  <2>8. staging'[Dest(w)].of \in DOMAIN inventory
        /\ Dest(staging'[Dest(w)].of) = Dest(w)
    BY <2>1, <2>2 DEF u
  <2> QED
    BY <2>4, <2>5, <2>6, <2>7, <2>8
<1>5. CASE ~(Dest(w) \in DOMAIN staging /\ staging[Dest(w)].of # Unset)
  <2>1. /\ staging' = With(staging, Dest(w), Copied(bytes)) /\ source' = source
    BY <1>5 DEF Write
  <2>2. LastIntact'
    BY <1>1, <1>3, <2>1 DEF LastIntact
  <2>3. /\ DOMAIN staging' = DOMAIN staging \cup {Dest(w)}
        /\ staging'[Dest(w)] = Copied(bytes)
        /\ \A d \in DOMAIN staging : d # Dest(w) => staging'[d] = staging[d]
    BY <2>1 DEF With
  <2>4. \A d \in DOMAIN staging : d # Dest(w) => Bytes(staging[d])' = Bytes(staging[d])
    BY <2>1, <2>3 DEF Bytes
  <2>5. Bytes(staging[Dest(w)])' = bytes
    BY <1>3, <2>3 DEF Bytes, Copied
  <2> QED
    BY <1>1, <2>1, <2>2, <2>3, <2>4, <2>5 DEF Copied
<1> QED
  BY <1>4, <1>5

\* The first video of a name that is linked.
LEMMA LinkReaches ==
    ASSUME WholeInv, progress = "link", UNCHANGED <<build, source>>,
           NEW w \in Video, Dest(w) \notin DOMAIN staging,
           staging' = With(staging, Dest(w), Linked(w))
    PROVE  /\ DOMAIN source' = Video
           /\ LastIntact'
           /\ DOMAIN staging' = DOMAIN staging \cup {Dest(w)}
           /\ \A d \in DOMAIN staging : d # Dest(w) =>
                 staging'[d] = staging[d] /\ Bytes(staging[d])' = Bytes(staging[d])
           /\ Bytes(staging[Dest(w)])' = source[w]
           /\ staging'[Dest(w)].of = w
<1>1. DOMAIN source = Video /\ LastIntact /\ Unset \notin Video
  BY ReleaseAssumption DEF WholeInv, ReleaseTypeOK, ReleaseAssumption
<1>2. \A v \in Video : Dest(v)' = Dest(v) /\ (LastThere(v)' <=> LastThere(v))
  BY DEF Dest, LastThere
<1>3. /\ DOMAIN staging' = DOMAIN staging \cup {Dest(w)}
      /\ staging'[Dest(w)] = Linked(w)
      /\ \A d \in DOMAIN staging : d # Dest(w) => staging'[d] = staging[d]
  BY DEF With
<1>4. LastIntact'
  BY <1>1, <1>2 DEF LastIntact
<1>5. \A d \in DOMAIN staging : d # Dest(w) => Bytes(staging[d])' = Bytes(staging[d])
  BY <1>3 DEF Bytes
<1>6. Bytes(staging[Dest(w)])' = source[w]
  BY <1>1, <1>2, <1>3 DEF Bytes, Linked
<1> QED
  BY <1>1, <1>3, <1>4, <1>5, <1>6 DEF Linked

\* A video that is packaged keeps what is packed.
LEMMA LinkStep ==
    ASSUME WholeInv, NEW w \in Video, Link(w)
    PROVE  DOMAIN source' = Video /\ LastIntact' /\ Packed'
<1>1. /\ progress = "link" /\ progress' = "link" /\ build' = build /\ Due(w)
      /\ inventory' = With(inventory, w, source[w])
  BY DEF Link
<1>2. /\ DOMAIN source' = Video
      /\ LastIntact'
      /\ DOMAIN staging' = DOMAIN staging \cup {Dest(w)}
      /\ \A d \in DOMAIN staging : d # Dest(w) =>
            staging'[d] = staging[d] /\ Bytes(staging[d])' = Bytes(staging[d])
      /\ Bytes(staging[Dest(w)])' = source[w]
      /\ staging'[Dest(w)].of # Unset =>
            /\ staging'[Dest(w)].of \in DOMAIN inventory \cup {w}
            /\ Dest(staging'[Dest(w)].of) = Dest(w)
  <2>1. CASE Write(w, source[w])
    BY <1>1, <2>1, WriteReaches
  <2>2. CASE /\ Dest(w) \notin DOMAIN staging
             /\ staging' = With(staging, Dest(w), Linked(w))
             /\ source' = source
    BY <1>1, <2>2, LinkReaches
  <2> QED
    BY <2>1, <2>2 DEF Link
<1>3. /\ DOMAIN inventory \subseteq Video /\ w \notin DOMAIN inventory
      /\ \A u \in DOMAIN inventory, v \in Video \ DOMAIN inventory :
            LinkOrder[u] < LinkOrder[v]
      /\ \A v \in Video \ DOMAIN inventory : LinkOrder[w] <= LinkOrder[v]
      /\ DOMAIN staging = {Dest(v) : v \in DOMAIN inventory}
  BY <1>1 DEF WholeInv, Packed, Due
<1>4. /\ \A d \in DOMAIN staging :
            /\ staging[d].of # Unset => /\ staging[d].of \in DOMAIN inventory
                                        /\ Dest(staging[d].of) = d
            /\ \E v \in DOMAIN inventory :
                  Dest(v) = d /\ inventory[v] = Bytes(staging[d])
      /\ \A v \in DOMAIN inventory : LastThere(v) =>
            /\ inventory[v] = build.digest[v]
            /\ Bytes(staging[Dest(v)]) = build.digest[v]
  BY <1>1 DEF WholeInv, Packed
<1>5. /\ DOMAIN inventory' = DOMAIN inventory \cup {w}
      /\ inventory'[w] = source[w]
      /\ \A v \in DOMAIN inventory : inventory'[v] = inventory[v]
  BY <1>1, <1>3 DEF With
<1>6. \A v : Dest(v)' = Dest(v)
  BY <1>1 DEF Dest
<1>7. \A v \in Video : LastThere(v)' <=> LastThere(v)
  BY <1>6 DEF LastThere
<1>8. \A u, v \in Video : u # v => LinkOrder[u] # LinkOrder[v]
  BY ReleaseAssumption DEF ReleaseAssumption
<1>9. LinkOrder \in [Video -> Nat]
  BY ReleaseAssumption DEF ReleaseAssumption
<1>10. DOMAIN inventory' \subseteq Video
  BY <1>3, <1>5
<1>11. \A u \in DOMAIN inventory', v \in Video \ DOMAIN inventory' :
          LinkOrder[u] < LinkOrder[v]
  BY <1>3, <1>5, <1>8, <1>9
<1>12. DOMAIN staging' = {Dest(v)' : v \in DOMAIN inventory'}
  BY <1>2, <1>3, <1>5, <1>6
<1>13. ASSUME NEW d \in DOMAIN staging'
       PROVE  /\ staging'[d].of # Unset => /\ staging'[d].of \in DOMAIN inventory'
                                           /\ Dest(staging[d].of)' = d
              /\ \E v \in DOMAIN inventory' :
                    Dest(v)' = d /\ inventory'[v] = Bytes(staging[d])'
  <2>1. CASE d = Dest(w)
    <3>1. Bytes(staging[d])' = source[w]
      BY <1>2, <1>6, <2>1 DEF Bytes
    <3>2. Dest(w)' = d /\ inventory'[w] = Bytes(staging[d])' /\ w \in DOMAIN inventory'
      BY <1>5, <1>6, <2>1, <3>1
    <3>3. staging'[d].of # Unset => /\ staging'[d].of \in DOMAIN inventory'
                                    /\ Dest(staging'[d].of) = d
      BY <1>2, <1>5, <2>1
    <3>4. Dest(staging[d].of)' = Dest(staging'[d].of)
      BY <1>1 DEF Dest
    <3> QED
      BY <3>2, <3>3, <3>4
  <2>2. CASE d # Dest(w)
    <3>1. d \in DOMAIN staging /\ staging'[d] = staging[d]
          /\ Bytes(staging[d])' = Bytes(staging[d])
      BY <1>2, <2>2
    <3>2. Dest(staging[d].of)' = Dest(staging'[d].of)
      BY <1>1 DEF Dest
    <3>3. PICK v \in DOMAIN inventory : Dest(v) = d /\ inventory[v] = Bytes(staging[d])
      BY <1>4, <3>1
    <3>4. v \in DOMAIN inventory' /\ Dest(v)' = d /\ inventory'[v] = Bytes(staging[d])'
      BY <1>5, <1>6, <3>1, <3>3
    <3>5. staging'[d].of # Unset => /\ staging'[d].of \in DOMAIN inventory'
                                    /\ Dest(staging'[d].of) = d
      BY <1>4, <1>5, <3>1
    <3> QED
      BY <3>2, <3>4, <3>5
  <2> QED
    BY <2>1, <2>2
<1>14. ASSUME NEW v \in DOMAIN inventory', LastThere(v)'
       PROVE  /\ inventory'[v] = build'.digest[v]
              /\ Bytes(staging[Dest(v)])' = build'.digest[v]
  <2>1. v \in Video /\ LastThere(v)
    BY <1>7, <1>10, <1>14
  <2>2. CASE v = w
    <3>1. source[w] = build.digest[w]
      BY <2>1, <2>2 DEF WholeInv, LastIntact
    <3> QED
      BY <1>1, <1>2, <1>5, <2>2, <3>1
  <2>3. CASE v # w
    <3>1. v \in DOMAIN inventory
      BY <1>5, <2>3
    <3>2. Dest(w) # Dest(v)
      BY <1>3, <1>9, <2>1, <3>1 DEF LastThere
    <3>3. Dest(v) \in DOMAIN staging
      BY <1>3, <3>1
    <3>4. Bytes(staging[Dest(v)])' = Bytes(staging[Dest(v)])
      <4>1. /\ staging'[Dest(v)] = staging[Dest(v)]
            /\ \A d : d = Dest(v) => Bytes(staging[d])' = Bytes(staging[d])
        BY <1>2, <3>2, <3>3
      <4> QED
        BY <1>6, <4>1 DEF Bytes
    <3> QED
      BY <1>1, <1>4, <1>5, <2>1, <3>1, <3>4
  <2> QED
    BY <2>2, <2>3
<1>15. Packed'
  BY <1>10, <1>11, <1>12, <1>13, <1>14 DEF Packed
<1> QED
  BY <1>2, <1>15

\* What is renamed is honest.
LEMMA FinalizeStep ==
    ASSUME WholeInv, Finalize
    PROVE  ReleaseHonest'
<1>1. /\ progress = "link" /\ DOMAIN inventory = Video
      /\ UNCHANGED <<build, source, results>>
  BY DEF Finalize, FinalizeUnless, planVars
<1>2. CASE Twice \/ Leaks
  <2>1. release' = release
    BY <1>2 DEF Finalize, FinalizeUnless
  <2> QED
    BY <1>1, <2>1 DEF WholeInv, ReleaseHonest, LastThere, Dest
<1>3. CASE ~(Twice \/ Leaks)
  <2>1. release' = [d \in DOMAIN staging |-> Bytes(staging[d])]
    BY <1>3 DEF Finalize, FinalizeUnless
  <2>2. \A u, v \in Video : inventory[u] = inventory[v] => u = v
    BY <1>3 DEF Twice
  <2>3. /\ DOMAIN staging = {Dest(v) : v \in Video}
        /\ \A d \in DOMAIN staging : \E v \in Video :
              Dest(v) = d /\ inventory[v] = Bytes(staging[d])
        /\ \A v \in Video : LastThere(v) => Bytes(staging[Dest(v)]) = build.digest[v]
    BY <1>1 DEF WholeInv, Packed
  <2>4. \A v : Dest(v)' = Dest(v)
    BY <1>1 DEF Dest
  <2>5. \A v \in Video : LastThere(v)' <=> LastThere(v)
    BY <2>4 DEF LastThere
  <2>6. DOMAIN release' = {Dest(v)' : v \in Video}
    BY <2>1, <2>3, <2>4
  <2>7. ASSUME NEW v \in Video, LastThere(v)'
        PROVE  release'[Dest(v)'] = build'.digest[v]
    <3>1. Dest(v) \in DOMAIN staging
      BY <2>3
    <3>2. release'[Dest(v)] = build.digest[v]
      BY <2>1, <2>3, <2>5, <2>7, <3>1
    <3> QED
      BY <1>1, <2>4, <3>2
  <2>8. ASSUME NEW d \in DOMAIN release', NEW e \in DOMAIN release',
               release'[d] = release'[e]
        PROVE  d = e
    <3>1. d \in DOMAIN staging /\ e \in DOMAIN staging
          /\ Bytes(staging[d]) = Bytes(staging[e])
      BY <2>1, <2>8
    <3>2. PICK u \in Video : Dest(u) = d /\ inventory[u] = Bytes(staging[d])
      BY <2>3, <3>1
    <3>3. PICK v \in Video : Dest(v) = e /\ inventory[v] = Bytes(staging[e])
      BY <2>3, <3>1
    <3> QED
      BY <2>2, <3>1, <3>2, <3>3
  <2>9. build'.complete /\ \A t \in ReleaseTask : results'[t] # Unset
    BY <1>1 DEF WholeInv, Checked
  <2> QED
    BY <2>6, <2>7, <2>8, <2>9 DEF ReleaseHonest
<1> QED
  BY <1>2, <1>3

\* A step that leaves the files alone and does not start to link.
LEMMA FilesUntouched ==
    ASSUME WholeInv, UNCHANGED <<build, packVars>>,
           progress' # "link" \/ progress' = progress,
           \A t \in ReleaseTask : results[t] # Unset => results'[t] # Unset
    PROVE  DOMAIN source' = Video /\ LastIntact' /\ Packed' /\ ReleaseHonest'
<1>1. /\ build' = build /\ source' = source /\ inventory' = inventory
      /\ staging' = staging /\ release' = release
  BY DEF packVars
<1>2. DOMAIN source' = Video /\ LastIntact'
  BY <1>1 DEF WholeInv, ReleaseTypeOK, LastIntact, LastThere, Dest
<1>3. Packed'
  BY <1>1 DEF WholeInv, Packed, LastThere, Dest, Bytes
<1>4. ReleaseHonest'
  BY <1>1 DEF WholeInv, ReleaseHonest, LastThere, Dest
<1> QED
  BY <1>2, <1>3, <1>4

\* The search, the packaging and its crash leave the run as it was validated.
LEMMA ReleaseStep == WholeInv /\ [ReleaseNext]_releaseVars => WholeInv'
<1> SUFFICES ASSUME WholeInv, [ReleaseNext]_releaseVars PROVE WholeInv'
  OBVIOUS
<1> USE DEF searchVars, planVars
<1>0. /\ build \in Builds /\ progress \in {"begin", "plan", "restart", "swap",
            "package", "link", "failed", "released"}
      /\ DOMAIN results = ReleaseTask /\ DOMAIN source = Video
      /\ Checked /\ LastIntact /\ Packed /\ ReleaseHonest
  BY DEF WholeInv, ReleaseTypeOK
<1>1. ASSUME UNCHANGED <<build, progress, results, packVars>> PROVE WholeInv'
  <2>1. LastIntact' /\ Packed' /\ ReleaseHonest'
    BY <1>1, FilesUntouched
  <2>2. ReleaseTypeOK' /\ Checked'
    BY <1>0, <1>1 DEF ReleaseTypeOK, Checked, packVars
  <2> QED
    BY <2>1, <2>2 DEF WholeInv
<1>2. CASE ValidateSource
  <2>1. LastIntact' /\ Packed' /\ ReleaseHonest'
    BY <1>2, FilesUntouched DEF ValidateSource
  <2>2. ReleaseTypeOK' /\ Checked'
    BY <1>0, <1>2 DEF ValidateSource, ReleaseTypeOK, Checked, packVars
  <2> QED
    BY <2>1, <2>2 DEF WholeInv
<1>3. CASE \E t \in ReleaseTask : PlanTask(t)
  <2>1. LastIntact' /\ Packed' /\ ReleaseHonest'
    BY <1>3, FilesUntouched DEF PlanTask
  <2>2. ReleaseTypeOK' /\ Checked'
    BY <1>0, <1>3 DEF PlanTask, ReleaseTypeOK, Checked, packVars
  <2> QED
    BY <2>1, <2>2 DEF WholeInv
<1>4. CASE Restart
  <2>1. LastIntact' /\ Packed' /\ ReleaseHonest'
    BY <1>4, FilesUntouched DEF Restart
  <2>2. ReleaseTypeOK' /\ Checked'
    BY <1>0, <1>4 DEF Restart, ReleaseTypeOK, Checked, packVars
  <2> QED
    BY <2>1, <2>2 DEF WholeInv
<1>5. CASE \E u, v \in Of(task) : Swap(u, v)
  BY <1>1, <1>5 DEF Swap
<1>6. CASE EndRestart
  <2>1. /\ progress = "swap" /\ progress' \in {"restart", "plan", "package"}
        /\ progress' = "package" => \A t \in ReleaseTask : results'[t] # Unset
        /\ DOMAIN results' = ReleaseTask
        /\ UNCHANGED <<build, packVars>>
    <3>1. CASE results' = results
      BY <1>0, <1>6, <3>1 DEF EndRestart
    <3>2. CASE results' # results
      BY <1>0, <1>6, <3>2 DEF EndRestart
    <3> QED
      BY <3>1, <3>2
  <2>2. build.complete /\ release = Unset
    BY <1>0, <2>1 DEF Checked
  <2>3. /\ build' = build /\ source' = source /\ release' = release
    BY <2>1 DEF packVars
  <2>4. LastIntact' /\ Packed' /\ ReleaseHonest'
    <3>1. LastIntact'
      BY <1>0, <2>3 DEF LastIntact, LastThere, Dest
    <3>2. Packed'
      BY <2>1 DEF Packed
    <3>3. ReleaseHonest'
      BY <2>2, <2>3 DEF ReleaseHonest
    <3> QED
      BY <3>1, <3>2, <3>3
  <2>5. ReleaseTypeOK' /\ Checked'
    BY <1>0, <2>1, <2>2, <2>3 DEF ReleaseTypeOK, Checked
  <2> QED
    BY <2>4, <2>5 DEF WholeInv
<1>7. CASE BeginPackaging
  <2>1. /\ progress = "package" /\ progress' \in {"link", "failed"}
        /\ UNCHANGED <<build, results, source, release>>
    BY <1>7 DEF BeginPackaging
  <2>2. ReleaseTypeOK' /\ Checked'
    BY <1>0, <2>1 DEF ReleaseTypeOK, Checked
  <2>3. LastIntact' /\ ReleaseHonest'
    BY <1>0, <2>1 DEF LastIntact, ReleaseHonest, LastThere, Dest
  <2>4. Packed'
    <3>1. progress' = "link" => DOMAIN inventory' = {} /\ DOMAIN staging' = {}
      BY <1>7 DEF BeginPackaging
    <3> QED
      BY <3>1 DEF Packed
  <2> QED
    BY <2>2, <2>3, <2>4 DEF WholeInv
<1>8. CASE \E v \in Video : Link(v)
  <2>1. DOMAIN source' = Video /\ LastIntact' /\ Packed'
    BY <1>8, LinkStep
  <2>2. UNCHANGED <<build, progress, results, release>>
    BY <1>8 DEF Link
  <2>3. ReleaseTypeOK' /\ Checked'
    BY <1>0, <2>1, <2>2 DEF ReleaseTypeOK, Checked
  <2>4. ReleaseHonest'
    BY <1>0, <2>2 DEF ReleaseHonest, LastThere, Dest
  <2> QED
    BY <2>1, <2>3, <2>4 DEF WholeInv
<1>9. CASE Finalize
  <2>1. ReleaseHonest'
    BY <1>9, FinalizeStep
  <2>2. /\ progress = "link" /\ progress' \in {"failed", "released"}
        /\ UNCHANGED <<build, results, source>>
    BY <1>9 DEF Finalize, FinalizeUnless
  <2>3. ReleaseTypeOK' /\ Checked'
    BY <1>0, <2>2 DEF ReleaseTypeOK, Checked
  <2>4. LastIntact' /\ Packed'
    BY <1>0, <2>2 DEF LastIntact, Packed, LastThere, Dest
  <2> QED
    BY <2>1, <2>3, <2>4 DEF WholeInv
<1>10. CASE CrashPackaging
  <2>1. /\ progress = "link" /\ progress' = "failed"
        /\ UNCHANGED <<build, results, release>>
    BY <1>10 DEF CrashPackaging
  <2>2. DOMAIN source' = Video /\ LastIntact'
    <3>1. CASE UNCHANGED <<source, staging>>
      BY <1>0, <2>1, <3>1 DEF LastIntact, LastThere, Dest
    <3>2. CASE \E v \in Video, bytes \in TornCopies : Due(v) /\ Write(v, bytes)
      BY <2>1, <3>2, WriteReaches
    <3> QED
      BY <1>10, <3>1, <3>2 DEF CrashPackaging
  <2>3. ReleaseTypeOK' /\ Checked'
    BY <1>0, <2>1, <2>2 DEF ReleaseTypeOK, Checked
  <2>4. Packed' /\ ReleaseHonest'
    BY <1>0, <2>1 DEF Packed, ReleaseHonest, LastThere, Dest
  <2> QED
    BY <2>2, <2>3, <2>4 DEF WholeInv
<1>11. CASE RunAgain
  <2>1. /\ progress' = "package" /\ UNCHANGED <<build, results, packVars>>
        /\ \A t \in ReleaseTask : results[t] # Unset
    BY <1>11 DEF RunAgain
  <2>2. LastIntact' /\ Packed' /\ ReleaseHonest'
    BY <2>1, FilesUntouched
  <2>3. build.complete
    BY <1>0, <2>1, ReleaseAssumption DEF Checked, ReleaseAssumption
  <2>4. ReleaseTypeOK' /\ Checked'
    BY <1>0, <2>1, <2>3 DEF ReleaseTypeOK, Checked, packVars
  <2> QED
    BY <2>2, <2>4 DEF WholeInv
<1>12. CASE ClearStaging
  <2>1. /\ progress = "failed" /\ progress' = "failed"
        /\ UNCHANGED <<build, results, source, release>>
    BY <1>12 DEF ClearStaging
  <2>2. ReleaseTypeOK' /\ Checked'
    BY <1>0, <2>1 DEF ReleaseTypeOK, Checked
  <2>3. LastIntact' /\ Packed' /\ ReleaseHonest'
    BY <1>0, <2>1 DEF LastIntact, Packed, ReleaseHonest, LastThere, Dest
  <2> QED
    BY <2>2, <2>3 DEF WholeInv
<1>13. CASE UNCHANGED releaseVars
  BY <1>1, <1>13 DEF releaseVars
<1> QED
  BY <1>2, <1>3, <1>4, <1>5, <1>6, <1>7, <1>8, <1>9, <1>10, <1>11, <1>12,
     <1>13 DEF ReleaseNext

\* Whatever died, was run again or cleared away by hand before, and for any
\* names: a release comes from a finished run with every task split, each of
\* its files holds the content the last video of that name had at first, and
\* no two files hold the same.
THEOREM ReleaseIsHonest == ReleaseSpec => []ReleaseHonest
<1>1. WholeInv => ReleaseHonest
  BY DEF WholeInv
<1> QED
  BY <1>1, ReleaseStart, ReleaseStep, PTL DEF ReleaseSpec

-----------------------------------------------------------------------------
(* DatasetRelease: the search *)

\* The release divides all its pairs: whatever their number, the totals of the
\* three splits add up to it.  Exact quotas and targets need that.
THEOREM SplitsTakeAll == \A n \in Nat : Total(TargetTotals(n)) = n
<1> SUFFICES ASSUME NEW n \in Nat PROVE Total(TargetTotals(n)) = n
  OBVIOUS
<1> DEFINE rank == <<1, 2, 3>>
<1>1. IsFiniteSet(Split) /\ Split # {}
  <2>1. IsFiniteSet(Split)
    BY FS_Interval, 1 \in Int, 3 \in Int DEF Split
  <2>2. 1 \in Split
    BY DEF Split
  <2> QED
    BY <2>1, <2>2
<1>2. Ratio \in [Split -> Nat \ {0}]
  BY DEF Ratio, Split
<1>3. /\ \A k \in Split : rank[k] \in Nat
      /\ \A j, k \in Split : rank[j] = rank[k] => j = k
  BY DEF Split
<1> HIDE DEF rank
<1>4. Total(LargestRemainder(Ratio, n, rank)) = n
  BY ONLY <1>1, <1>2, <1>3, n \in Nat, AllocationCloses
<1> QED
  BY <1>4 DEF TargetTotals, rank

\* The pairs of a leaf, and of all leaves, for each video.
PairsOf(p, l) == [v \in Video |-> p[v][l]]
SizesOf(p) == [v \in Video |-> Total(p[v])]

\* SplitExact, in terms of the pairs alone.
MatrixOf(p, a) ==
    [s \in Split |-> [l \in Leaf |->
        On(PairsOf(p, l), {v \in DOMAIN a : a[v] = s})]]

\* What the splits of a task are to get.
TotalsOf(p, t) == TargetTotals(On(SizesOf(p), Of(t)))

Exact(p, r, t) ==
    /\ r.matrix = MatrixOf(p, r.assignment)
    /\ r.score = MatrixScore(r.matrix, r.plan.targets)
    /\ \A s \in Split :
          On(SizesOf(p), {v \in Of(t) : r.assignment[v] = s}) = TotalsOf(p, t)[s]

\* A plan whose quotas give every split its number of pairs.
PlanOK(p, t, q) ==
    /\ t \in ReleaseTask
    /\ \A v \in Of(t) : Total(p[v]) \in 1..2
    /\ q.targets \in [Leaf -> [Split -> Int]]
    /\ \A s \in Split : q.quotas[1][s] + 2 * q.quotas[2][s] = TotalsOf(p, t)[s]

\* The operators of the model in terms of the pairs.
LEMMA MatrixLink ==
    ASSUME NEW a, DOMAIN a \subseteq Video
    PROVE  LeafMatrix(a) = MatrixOf(build.pairs, a)
<1>1. ASSUME NEW s, NEW l
      PROVE  SumOf({v \in DOMAIN a : a[v] = s}, LAMBDA v : build.pairs[v][l])
               = On(PairsOf(build.pairs, l), {v \in DOMAIN a : a[v] = s})
  <2> DEFINE S == {v \in DOMAIN a : a[v] = s}
  <2>1. [v \in S |-> build.pairs[v][l]] = [v \in S |-> PairsOf(build.pairs, l)[v]]
    BY DEF PairsOf
  <2> QED
    BY <2>1 DEF On, SumOf
<1> QED
  BY <1>1 DEF LeafMatrix, MatrixOf

LEMMA SizeLink ==
    ASSUME NEW S \in SUBSET Video
    PROVE  SumOf(S, Size) = On(SizesOf(build.pairs), S)
<1>1. [v \in S |-> Size(v)] = [v \in S |-> SizesOf(build.pairs)[v]]
  BY DEF SizesOf, Size
<1> QED
  BY <1>1 DEF On, SumOf

LEMMA ExactLink ==
    ASSUME NEW r, NEW t, DOMAIN r.assignment \subseteq Video
    PROVE  SplitExact(r, t) <=> Exact(build.pairs, r, t)
<1>1. LeafMatrix(r.assignment) = MatrixOf(build.pairs, r.assignment)
  BY MatrixLink
<1>2. ASSUME NEW s
      PROVE  SumOf({v \in Of(t) : r.assignment[v] = s}, Size)
               = On(SizesOf(build.pairs), {v \in Of(t) : r.assignment[v] = s})
  <2>1. {v \in Of(t) : r.assignment[v] = s} \in SUBSET Video
    BY DEF Of
  <2> QED
    BY <2>1, SizeLink
<1>3. SumOf(Of(t), Size) = On(SizesOf(build.pairs), Of(t))
  <2>1. Of(t) \in SUBSET Video
    BY DEF Of
  <2> QED
    BY <2>1, SizeLink
<1> QED
  BY <1>1, <1>2, <1>3 DEF SplitExact, Exact, TotalsOf

\* The cells of the matrix of splits and leaves.
Cells == Split \X Leaf

\* The squared deviation of each cell from its target.
SquaresOf(m, q) ==
    [c \in Cells |-> (m[c[1]][c[2]] - q[c[2]][c[1]]) * (m[c[1]][c[2]] - q[c[2]][c[1]])]

\* The score is the sum of the squares.
LEMMA ScoreLink ==
    ASSUME NEW m, NEW q
    PROVE  MatrixScore(m, q) = On(SquaresOf(m, q), Cells)
<1>1. [c \in Cells |-> (m[c[1]][c[2]] - q[c[2]][c[1]]) * (m[c[1]][c[2]] - q[c[2]][c[1]])]
        = [c \in Cells |-> SquaresOf(m, q)[c]]
  BY DEF SquaresOf
<1> QED
  BY <1>1 DEF MatrixScore, SumOf, On, Cells

LEMMA CellsFinite == IsFiniteSet(Cells)
<1>1. IsFiniteSet(Split)
  BY FS_Interval, 1 \in Int, 3 \in Int DEF Split
<1> QED
  BY <1>1, FS_Product, ReleaseAssumption DEF Cells, ReleaseAssumption

LEMMA SquaresInt ==
    ASSUME NEW m \in [Split -> [Leaf -> Int]], NEW q \in [Leaf -> [Split -> Int]]
    PROVE  \A c \in Cells : SquaresOf(m, q)[c] \in Int
<1> SUFFICES ASSUME NEW c \in Cells PROVE SquaresOf(m, q)[c] \in Int
  OBVIOUS
<1>1. c[1] \in Split /\ c[2] \in Leaf
  BY DEF Cells
<1>2. m[c[1]][c[2]] - q[c[2]][c[1]] \in Int
  BY <1>1
<1>3. \A k \in Int : k * k \in Int
  OBVIOUS
<1> QED
  BY <1>2, <1>3 DEF SquaresOf

\* The score of a matrix that differs from another in the rows of A only.
RowsChanged(m, n, q, A, d) ==
    /\ m \in [Split -> [Leaf -> Int]] /\ n \in [Split -> [Leaf -> Int]]
    /\ q \in [Leaf -> [Split -> Int]]
    /\ A \subseteq Split /\ \A s \in Split \ A : n[s] = m[s]
    /\ \A c \in A \X Leaf : d[c] = SquaresOf(n, q)[c] - SquaresOf(m, q)[c]

\* Only the changed rows count in the change of the score.
LEMMA ScoreChange ==
    ASSUME NEW m, NEW n, NEW q, NEW A, NEW d, RowsChanged(m, n, q, A, d)
    PROVE  MatrixScore(n, q) = MatrixScore(m, q) + On(d, A \X Leaf)
<1> USE DEF RowsChanged
<1> DEFINE P == A \X Leaf
           Q == (Split \ A) \X Leaf
           f == SquaresOf(m, q)
           g == SquaresOf(n, q)
<1>1. P \cup Q = Cells /\ P \cap Q = {}
  BY DEF Cells
<1>2. (\A c \in Cells : f[c] \in Int) /\ (\A c \in Cells : g[c] \in Int)
  BY SquaresInt
<1>3. \A c \in Q : f[c] = g[c]
  BY DEF SquaresOf, Cells
<1>4. \A c \in P : /\ f[c] \in Int /\ d[c] \in Int
                   /\ g[c] = f[c] + d[c]
  <2>1. \A c \in P : c \in Cells
    BY <1>1
  <2>2. \A c \in P : d[c] = g[c] - f[c]
    OBVIOUS
  <2>3. \A k, n1 \in Int : n1 - k \in Int /\ n1 = k + (n1 - k)
    OBVIOUS
  <2> HIDE DEF f, g, P
  <2> QED
    BY ONLY <1>2, <2>1, <2>2, <2>3
<1>6. IsFiniteSet(P) /\ IsFiniteSet(Cells) /\ IsFiniteSet(Q)
  <2>1. P \in SUBSET Cells /\ Q \in SUBSET Cells
    BY <1>1
  <2> QED
    BY <2>1, CellsFinite, FS_Subset
<1> HIDE DEF f, g, P, Q
<1>7. On(f, Cells) = On(f, P) + On(f, Q)
  BY ONLY <1>6, <1>1, <1>2, SumUnion
<1>8. On(g, Cells) = On(g, P) + On(g, Q)
  BY ONLY <1>6, <1>1, <1>2, SumUnion
<1>9. On(f, Q) = On(g, Q)
  BY ONLY <1>3, SumSame
<1>10. On(g, P) = On(f, P) + On(d, P)
  BY ONLY <1>4, <1>6, SumPlus
<1>11. On(f, P) \in Int /\ On(f, Q) \in Int /\ On(d, P) \in Int
  <2>1. (\A c \in P : f[c] \in Int) /\ (\A c \in P : d[c] \in Int)
        /\ (\A c \in Q : f[c] \in Int)
    BY <1>1, <1>2, <1>4
  <2> QED
    BY ONLY <1>6, <2>1, SumInt
<1>12. \A x, y, z \in Int : (x + z) + y = (x + y) + z
  OBVIOUS
<1>13. On(g, Cells) = On(f, Cells) + On(d, P)
  BY ONLY <1>7, <1>8, <1>9, <1>10, <1>11, <1>12
<1> QED
  BY <1>13, ScoreLink DEF f, g, P

-----------------------------------------------------------------------------

\* Everything that is summed is an integer.
LEMMA PairsInt ==
    ASSUME build \in Builds
    PROVE  /\ \A l \in Leaf : \A v \in Video : PairsOf(build.pairs, l)[v] \in Int
           /\ \A v \in Video : SizesOf(build.pairs)[v] \in Int
           /\ \A t : IsFiniteSet(Of(t)) /\ Of(t) \in SUBSET Video
<1>1. build.pairs \in [Video -> [Leaf -> Nat]]
  BY ReleaseAssumption DEF ReleaseAssumption
<1>2. \A l \in Leaf : \A v \in Video : PairsOf(build.pairs, l)[v] \in Int
  BY <1>1 DEF PairsOf
<1>3. ASSUME NEW v \in Video PROVE SizesOf(build.pairs)[v] \in Int
  <2> DEFINE f == build.pairs[v]
  <2>1. f \in [Leaf -> Nat]
    BY <1>1
  <2>2. \A l \in Leaf : f[l] \in Int
    BY <2>1
  <2>3. IsFiniteSet(Leaf)
    BY ReleaseAssumption DEF ReleaseAssumption
  <2>4. f = [l \in Leaf |-> f[l]]
    BY <2>1
  <2> HIDE DEF f
  <2>5. On(f, Leaf) \in Int
    BY ONLY <2>2, <2>3, SumInt
  <2>6. Total(f) \in Int
    BY ONLY <2>4, <2>5, TotalOn
  <2> QED
    BY <2>6 DEF SizesOf, f
<1>4. ASSUME NEW t PROVE IsFiniteSet(Of(t)) /\ Of(t) \in SUBSET Video
  <2>1. Of(t) \in SUBSET Video
    BY DEF Of
  <2> QED
    BY <2>1, FS_Subset, ReleaseAssumption DEF ReleaseAssumption
<1> QED
  BY <1>2, <1>3, <1>4

LEMMA MatrixInt ==
    ASSUME build \in Builds, NEW a, DOMAIN a \subseteq Video
    PROVE  MatrixOf(build.pairs, a) \in [Split -> [Leaf -> Int]]
<1>1. ASSUME NEW s \in Split, NEW l \in Leaf
      PROVE  On(PairsOf(build.pairs, l), {v \in DOMAIN a : a[v] = s}) \in Int
  <2> DEFINE S == {v \in DOMAIN a : a[v] = s}
             f == PairsOf(build.pairs, l)
  <2>1. S \in SUBSET Video
    OBVIOUS
  <2>2. IsFiniteSet(S)
    BY <2>1, FS_Subset, ReleaseAssumption DEF ReleaseAssumption
  <2>3. \A v \in S : f[v] \in Int
    BY <2>1, PairsInt
  <2> HIDE DEF S, f
  <2>4. On(f, S) \in Int
    BY ONLY <2>2, <2>3, SumInt
  <2> QED
    BY <2>4 DEF S, f
<1> QED
  BY <1>1 DEF MatrixOf

\* Quotas for the videos of one and of two pairs add up to the totals.
LEMMA PlanKept ==
    ASSUME build \in Builds, NEW t \in ReleaseTask,
           \A v \in Of(t) : Size(v) \in {1, 2},
           NEW targets \in LeafTargets(t), NEW quotas \in SizeQuotas(t)
    PROVE  PlanOK(build.pairs, t, [targets |-> targets, quotas |-> quotas])
<1>1. \A v \in Of(t) : Total(build.pairs[v]) \in 1..2
  BY DEF Size
<1>2. targets \in [Leaf -> [Split -> Int]]
  <2> DEFINE n(l) == SumOf(Of(t), LAMBDA v : build.pairs[v][l])
  <2>1. /\ targets \in [Leaf -> UNION {LeafShares(n(l)) : l \in Leaf}]
        /\ \A l \in Leaf : targets[l] \in LeafShares(n(l))
    BY DEF LeafTargets, Closest
  <2>2. \A k : LeafShares(k) \subseteq [Split -> Int]
    <3>1. \A k : LeafShares(k) \subseteq [Split -> 0..k]
      BY DEF LeafShares
    <3>2. \A k : 0..k \subseteq Int
      OBVIOUS
    <3>3. \A k : \A g \in [Split -> 0..k] : g \in [Split -> Int]
      BY <3>2
    <3> QED
      BY <3>1, <3>3
  <2> QED
    BY <2>1, <2>2
<1>3. \A s \in Split : quotas[1][s] + 2 * quotas[2][s] = TotalsOf(build.pairs, t)[s]
  <2>1. SumOf(Of(t), Size) = On(SizesOf(build.pairs), Of(t))
    BY SizeLink DEF Of
  <2>2. \A s \in Split : quotas[1][s] + 2 * quotas[2][s]
                           = TargetTotals(SumOf(Of(t), Size))[s]
    BY DEF SizeQuotas, Closest
  <2> QED
    BY <2>1, <2>2 DEF TotalsOf
<1> QED
  BY <1>1, <1>2, <1>3 DEF PlanOK

\* An assignment that is dealt out by the quotas is exact.
LEMMA DealtOut ==
    ASSUME build \in Builds, NEW t, NEW q, PlanOK(build.pairs, t, q),
           NEW a \in [Of(t) -> Split],
           \A k \in 1..2, s \in Split :
              Cardinality({v \in Of(t) : Size(v) = k /\ a[v] = s}) = q.quotas[k][s]
    PROVE  Exact(build.pairs,
                 [assignment |-> a, matrix |-> LeafMatrix(a),
                  score |-> MatrixScore(LeafMatrix(a), q.targets), plan |-> q], t)
<1>1. LeafMatrix(a) = MatrixOf(build.pairs, a)
  BY MatrixLink DEF Of
<1>2. ASSUME NEW s \in Split
      PROVE  On(SizesOf(build.pairs), {v \in Of(t) : a[v] = s})
               = TotalsOf(build.pairs, t)[s]
  <2> DEFINE S == {v \in Of(t) : a[v] = s}
             f == SizesOf(build.pairs)
             A == {x \in S : f[x] = 1}
             B == {x \in S : f[x] = 2}
  <2>1. IsFiniteSet(S)
    BY FS_Subset, PairsInt
  <2>2. \A x \in S : f[x] \in 1..2 /\ f[x] = Size(x)
    BY DEF PlanOK, SizesOf, Of, Size
  <2>3. A = {v \in Of(t) : Size(v) = 1 /\ a[v] = s}
        /\ B = {v \in Of(t) : Size(v) = 2 /\ a[v] = s}
    BY <2>2
  <2>4. Cardinality(A) = q.quotas[1][s] /\ Cardinality(B) = q.quotas[2][s]
    BY <2>3
  <2> HIDE DEF S, f
  <2>5. On(f, S) = Cardinality(A) + 2 * Cardinality(B)
    BY <2>1, <2>2, SumOnesAndTwos
  <2> HIDE DEF A, B
  <2>6. On(f, S) = TotalsOf(build.pairs, t)[s]
    BY <2>4, <2>5 DEF PlanOK
  <2> QED
    BY <2>6 DEF S, f
<1> QED
  BY <1>1, <1>2 DEF Exact

\* After a swap the matrix and the score are those of the new assignment.
LEMMA SwapKept ==
    ASSUME build \in Builds, PlanOK(build.pairs, task, plan),
           assignment \in [Of(task) -> Split],
           Exact(build.pairs, [assignment |-> assignment, matrix |-> matrix,
                               score |-> score, plan |-> plan], task),
           NEW u \in Of(task), NEW v \in Of(task),
           assignment[u] # assignment[v], Size(u) = Size(v),
           NEW b, b = [assignment EXCEPT ![u] = assignment[v], ![v] = assignment[u]]
    PROVE  /\ b \in [Of(task) -> Split]
           /\ Exact(build.pairs, [assignment |-> b, matrix |-> Swapped(u, v),
                                  score |-> score + Delta(u, v), plan |-> plan], task)
<1> DEFINE p == build.pairs
           S == Of(task)
<1>1. b \in [Of(task) -> Split]
  OBVIOUS
<1>b. Exchanged(S, assignment, b, u, v)
  BY DEF Exchanged
<1>2. IsFiniteSet(S) /\ S \in SUBSET Video
  BY PairsInt
<1>3. matrix = MatrixOf(p, assignment) /\ score = MatrixScore(matrix, plan.targets)
  BY DEF Exact
<1>4. ASSUME NEW s \in Split, NEW l \in Leaf
      PROVE  Swapped(u, v)[s][l] = MatrixOf(p, b)[s][l]
  <2>a. PICK f : f = PairsOf(p, l)
    OBVIOUS
  <2>b. PICK x : x = On(f, Part(S, assignment, s))
    OBVIOUS
  <2>1. \A w \in S : f[w] \in Int
    BY <1>2, <2>a, PairsInt
  <2>2. On(f, Part(S, b, s)) =
           x + (IF s = assignment[u] THEN f[v] - f[u]
                ELSE IF s = assignment[v] THEN f[u] - f[v] ELSE 0)
    <3> HIDE DEF S
    <3> QED
      BY ONLY <1>2, <2>1, <1>b, <2>b, SumSwap
  <2>3. matrix[s][l] = x /\ MatrixOf(p, b)[s][l] = On(f, Part(S, b, s))
    BY <1>1, <1>3, <2>a, <2>b DEF MatrixOf, Part
  <2>4. x \in Int
    <3>1. IsFiniteSet(Part(S, assignment, s))
      BY <1>2, FS_Subset DEF Part
    <3>2. \A w \in Part(S, assignment, s) : f[w] \in Int
      BY <2>1 DEF Part
    <3> QED
      BY <2>b, <3>1, <3>2, SumInt
  <2>5. f[v] = p[v][l] /\ f[u] = p[u][l] /\ f[u] \in Int /\ f[v] \in Int
    BY <1>2, <2>1, <2>a DEF PairsOf
  <2>6. Swapped(u, v)[s][l] =
          IF s = assignment[v] THEN matrix[s][l] - (p[v][l] - p[u][l])
          ELSE IF s = assignment[u] THEN matrix[s][l] + (p[v][l] - p[u][l])
          ELSE matrix[s][l]
    BY <1>3 DEF Swapped, MatrixOf
  <2> QED
    BY <2>2, <2>3, <2>4, <2>5, <2>6
<1>5. matrix \in [Split -> [Leaf -> Int]] /\ MatrixOf(p, b) \in [Split -> [Leaf -> Int]]
  BY <1>1, <1>2, <1>3, MatrixInt
<1>6. Swapped(u, v) = MatrixOf(p, b)
  <2> DEFINE n == Swapped(u, v)
             m == MatrixOf(p, b)
  <2>1. n = [s \in Split |-> n[s]]
    BY <1>5 DEF Swapped
  <2>2. ASSUME NEW s \in Split PROVE n[s] = [l \in Leaf |-> n[s][l]]
    <3>1. n[s] \in {matrix[s]} \cup {[l \in Leaf |-> n[s][l]]}
      BY <1>5 DEF Swapped
    <3>2. n[s] = matrix[s] => n[s] = [l \in Leaf |-> n[s][l]]
      BY <1>5
    <3> QED
      BY <3>1, <3>2
  <2>3. m = [s \in Split |-> m[s]] /\ \A s \in Split : m[s] = [l \in Leaf |-> m[s][l]]
    BY <1>5
  <2>4. \A s \in Split : \A l \in Leaf : n[s][l] = m[s][l]
    BY <1>4
  <2> HIDE DEF n, m
  <2>5. \A s \in Split : n[s] = m[s]
    BY ONLY <2>2, <2>3, <2>4
  <2>6. n = m
    BY ONLY <2>1, <2>3, <2>5
  <2> QED
    BY <2>6 DEF n, m
<1>7. score + Delta(u, v) = MatrixScore(Swapped(u, v), plan.targets)
  <2>a. PICK n, q : n = Swapped(u, v) /\ q = plan.targets
    OBVIOUS
  <2>b. PICK A : A = {assignment[u], assignment[v]}
    OBVIOUS
  <2>c. PICK d : d = [c \in A \X Leaf |-> SquaresOf(n, q)[c] - SquaresOf(matrix, q)[c]]
    OBVIOUS
  <2>1. A \in SUBSET Split /\ \A s \in Split \ A : n[s] = matrix[s]
    BY <1>5, <2>a, <2>b DEF Swapped
  <2>2. Delta(u, v) = Total(d)
    <3>1. \A c \in A \X Leaf : c \in Cells
      BY <2>1 DEF Cells
    <3>2. d = [c \in A \X Leaf |->
                    (n[c[1]][c[2]] - q[c[2]][c[1]]) * (n[c[1]][c[2]] - q[c[2]][c[1]])
                    - (matrix[c[1]][c[2]] - q[c[2]][c[1]])
                      * (matrix[c[1]][c[2]] - q[c[2]][c[1]])]
      BY <2>c, <3>1 DEF SquaresOf
    <3> QED
      BY <2>a, <2>b, <3>2 DEF Delta, SumOf
  <2>3. n \in [Split -> [Leaf -> Int]] /\ q \in [Leaf -> [Split -> Int]]
    BY <1>5, <1>6, <2>a DEF PlanOK
  <2>4. /\ Total(d) = On(d, A \X Leaf)
        /\ \A c \in A \X Leaf : d[c] = SquaresOf(n, q)[c] - SquaresOf(matrix, q)[c]
    BY <2>c DEF On
  <2>5. MatrixScore(n, q) = MatrixScore(matrix, q) + On(d, A \X Leaf)
    <3>1. RowsChanged(matrix, n, q, A, d)
      BY <1>5, <2>1, <2>3, <2>4 DEF RowsChanged
    <3> QED
      BY ONLY <3>1, ScoreChange
  <2> QED
    BY <1>3, <2>2, <2>4, <2>5, <2>a
<1>8. ASSUME NEW s \in Split
      PROVE  On(SizesOf(p), {w \in S : b[w] = s}) = TotalsOf(p, task)[s]
  <2> DEFINE f == SizesOf(p)
             x == On(f, {w \in S : assignment[w] = s})
  <2>1. \A w \in S : f[w] \in Int
    BY <1>2, PairsInt
  <2>2. f[u] = f[v]
    BY <1>2 DEF SizesOf, Size
  <2>3. x = TotalsOf(p, task)[s]
    BY DEF Exact
  <2>4. x \in Int
    <3>1. {w \in S : assignment[w] = s} \in SUBSET S
      OBVIOUS
    <3>2. IsFiniteSet({w \in S : assignment[w] = s})
      BY <1>2, <3>1, FS_Subset
    <3>3. \A w \in {y \in S : assignment[y] = s} : f[w] \in Int
      BY <2>1
    <3> QED
      BY ONLY <3>2, <3>3, SumInt
  <2>5. assignment \in [S -> Split] /\ b \in [S -> Split] /\ u \in S /\ v \in S
    BY <1>1
  <2> HIDE DEF f, S
  <2>6. On(f, Part(S, b, s)) =
           On(f, Part(S, assignment, s)) + (IF s = assignment[u] THEN f[v] - f[u]
                ELSE IF s = assignment[v] THEN f[u] - f[v] ELSE 0)
    <3> HIDE DEF Split
    <3> QED
      BY ONLY <1>2, <2>1, <1>b, SumSwap
  <2>7. f[u] \in Int /\ f[v] \in Int
    BY <2>1, <2>5
  <2>8. On(f, {w \in S : b[w] = s}) =
           x + (IF s = assignment[u] THEN f[v] - f[u]
                ELSE IF s = assignment[v] THEN f[u] - f[v] ELSE 0)
    BY <2>6 DEF Part
  <2> HIDE DEF x
  <2> QED
    BY <2>2, <2>3, <2>4, <2>7, <2>8 DEF f
<1> QED
  BY <1>1, <1>6, <1>7, <1>8 DEF Exact

\* A result that is kept.
KeptOK(p, r, t) == DOMAIN r.assignment = Of(t) /\ Exact(p, r, t)

\* The state of the search as a result.
Mine == [assignment |-> assignment, matrix |-> matrix, score |-> score, plan |-> plan]

\* What the search keeps true of its state.
SearchInv ==
    /\ build \in Builds
    /\ DOMAIN results = ReleaseTask
    /\ progress \in {"restart", "swap"} =>
          /\ PlanOK(build.pairs, task, plan)
          /\ best # Unset => KeptOK(build.pairs, best, task)
    /\ progress = "swap" => /\ assignment \in [Of(task) -> Split]
                            /\ Exact(build.pairs, Mine, task)
    /\ \A t \in ReleaseTask : results[t] # Unset => KeptOK(build.pairs, results[t], t)

LEMMA SearchStart == ReleaseInit => SearchInv
BY DEF ReleaseInit, SearchInv

LEMMA SearchKept == SearchInv => SplitKept
<1> SUFFICES ASSUME SearchInv PROVE SplitKept
  OBVIOUS
<1>1. ASSUME progress = "swap" PROVE SplitExact(Mine, task)
  <2>1. DOMAIN Mine.assignment \subseteq Video /\ Exact(build.pairs, Mine, task)
    BY <1>1 DEF SearchInv, Mine, Of
  <2> QED
    BY <2>1, ExactLink
<1>2. ASSUME NEW t \in ReleaseTask, results[t] # Unset PROVE SplitExact(results[t], t)
  <2>1. DOMAIN results[t].assignment \subseteq Video
        /\ Exact(build.pairs, results[t], t)
    BY <1>2 DEF SearchInv, KeptOK, Of
  <2> QED
    BY <2>1, ExactLink
<1> QED
  BY <1>1, <1>2 DEF SplitKept, Mine

\* One step of the search; the packaging leaves its results alone.
LEMMA SearchStep == SearchInv /\ [ReleaseNext]_releaseVars => SearchInv'
<1> SUFFICES ASSUME SearchInv, [ReleaseNext]_releaseVars PROVE SearchInv'
  OBVIOUS
<1> USE DEF searchVars, planVars
\* The steps that are not of the search.
<1>1. ASSUME UNCHANGED <<build, task, plan, best, results>>,
             progress' \notin {"restart", "swap"}
      PROVE  SearchInv'
  BY <1>1 DEF SearchInv, KeptOK, Exact, TotalsOf
<1>2. CASE ValidateSource
  BY <1>1, <1>2 DEF ValidateSource
<1>3. CASE \E t \in ReleaseTask : PlanTask(t)
  <2> PICK t \in ReleaseTask : PlanTask(t)
    BY <1>3
  <2>1. UNCHANGED <<build, results>> /\ best' = Unset /\ task' = t
        /\ progress' \in {"failed", "restart"}
    BY DEF PlanTask
  <2>2. progress' = "restart" => PlanOK(build.pairs, t, plan')
    <3> SUFFICES ASSUME progress' = "restart" PROVE PlanOK(build.pairs, t, plan')
      OBVIOUS
    <3>1. \A v \in Of(t) : Size(v) \in {1, 2}
      BY DEF PlanTask
    <3>2. PICK targets \in LeafTargets(t), quotas \in SizeQuotas(t) :
            plan' = [targets |-> targets, quotas |-> quotas]
      BY DEF PlanTask
    <3> QED
      BY <3>1, <3>2, PlanKept DEF SearchInv
  <2> QED
    BY <2>1, <2>2 DEF SearchInv, KeptOK
<1>4. CASE Restart
  <2>1. PICK a \in [Of(task) -> Split] :
          /\ \A k \in 1..2, s \in Split :
                Cardinality({v \in Of(task) : Size(v) = k /\ a[v] = s})
                   = plan.quotas[k][s]
          /\ assignment' = a
          /\ matrix' = LeafMatrix(a)
          /\ score' = MatrixScore(LeafMatrix(a), plan.targets)
    BY <1>4 DEF Restart
  <2>2. progress' = "swap" /\ UNCHANGED <<build, task, plan, best, results>>
        /\ PlanOK(build.pairs, task, plan) /\ build \in Builds
        /\ (best # Unset => KeptOK(build.pairs, best, task))
    BY <1>4 DEF Restart, SearchInv
  <2>3. Exact(build.pairs,
              [assignment |-> a, matrix |-> LeafMatrix(a),
               score |-> MatrixScore(LeafMatrix(a), plan.targets), plan |-> plan],
              task)
    BY <2>1, <2>2, DealtOut
  <2>4. Mine' = [assignment |-> a, matrix |-> LeafMatrix(a),
                 score |-> MatrixScore(LeafMatrix(a), plan.targets), plan |-> plan]
    BY <2>1, <2>2 DEF Mine
  <2> QED
    BY <2>1, <2>2, <2>3, <2>4 DEF SearchInv, KeptOK
<1>5. CASE \E u, v \in Of(task) : Swap(u, v)
  <2> PICK u \in Of(task), v \in Of(task) : Swap(u, v)
    BY <1>5
  <2>1. progress = "swap" /\ UNCHANGED <<build, progress, task, plan, best, results>>
        /\ assignment[u] # assignment[v] /\ Size(u) = Size(v)
        /\ assignment' = [assignment EXCEPT ![u] = assignment[v],
                                            ![v] = assignment[u]]
        /\ matrix' = Swapped(u, v) /\ score' = score + Delta(u, v)
    BY DEF Swap
  <2>2. build \in Builds /\ PlanOK(build.pairs, task, plan)
        /\ assignment \in [Of(task) -> Split]
        /\ Exact(build.pairs, [assignment |-> assignment, matrix |-> matrix,
                               score |-> score, plan |-> plan], task)
    BY <2>1 DEF SearchInv, Mine
  <2>3. /\ assignment' \in [Of(task) -> Split]
        /\ Exact(build.pairs, [assignment |-> assignment', matrix |-> Swapped(u, v),
                               score |-> score + Delta(u, v), plan |-> plan], task)
    BY <2>1, <2>2, SwapKept
  <2>4. Exact(build.pairs, Mine', task)
    BY <2>1, <2>3 DEF Mine
  <2> QED
    BY <2>1, <2>3, <2>4 DEF SearchInv, KeptOK
<1>6. CASE EndRestart
  <2>1. progress = "swap" /\ UNCHANGED <<build, task, plan, assignment, matrix, score>>
    BY <1>6 DEF EndRestart
  <2>2. PICK kept : /\ kept = best \/ kept = Mine
                    /\ best = Unset => kept = Mine
                    /\ best' = kept
                    /\ results' = results \/ results' = [results EXCEPT ![task] = kept]
                    /\ progress' \in {"package", "plan", "restart"}
    <3> DEFINE kept == IF best = Unset \/ (best # Unset /\ score < best.score)
                         THEN Mine ELSE best
    <3>1. kept = best \/ kept = Mine
      OBVIOUS
    <3>2. best = Unset => kept = Mine
      OBVIOUS
    <3>3. /\ best' = kept
          /\ IF kept.score = 0 \/ restart' = MaxRestarts
               THEN /\ results' = [results EXCEPT ![task] = kept]
                    /\ progress' = IF \A t \in ReleaseTask : results'[t] # Unset
                                  THEN "package" ELSE "plan"
               ELSE progress' = "restart" /\ results' = results
      BY <1>6 DEF EndRestart, Mine
    <3> HIDE DEF kept
    <3> QED
      BY <3>1, <3>2, <3>3
  <2>3. PlanOK(build.pairs, task, plan) /\ task \in ReleaseTask
    BY <2>1 DEF SearchInv, PlanOK
  <2>4. KeptOK(build.pairs, kept, task)
    <3>1. KeptOK(build.pairs, Mine, task)
      BY <2>1 DEF SearchInv, KeptOK, Mine
    <3>2. best # Unset => KeptOK(build.pairs, best, task)
      BY <2>1 DEF SearchInv
    <3> QED
      BY <2>2, <3>1, <3>2
  <2>5. DOMAIN results' = ReleaseTask
        /\ \A t \in ReleaseTask : results'[t] # Unset
               => KeptOK(build.pairs, results'[t], t)
    BY <2>2, <2>3, <2>4 DEF SearchInv
  <2> QED
    BY <2>1, <2>2, <2>3, <2>4, <2>5 DEF SearchInv, KeptOK
<1>7. CASE BeginPackaging
  BY <1>1, <1>7 DEF BeginPackaging
<1>8. CASE \E v \in Video : Link(v)
  BY <1>1, <1>8 DEF Link
<1>9. CASE Finalize
  BY <1>1, <1>9 DEF Finalize, FinalizeUnless
<1>10. CASE CrashPackaging
  BY <1>1, <1>10 DEF CrashPackaging
<1>11. CASE RunAgain
  BY <1>1, <1>11 DEF RunAgain
<1>12. CASE ClearStaging
  BY <1>12 DEF ClearStaging, SearchInv, KeptOK, Mine
<1>13. CASE UNCHANGED releaseVars
  BY <1>13 DEF releaseVars, SearchInv, KeptOK, Mine
<1> QED
  BY <1>2, <1>3, <1>4, <1>5, <1>6, <1>7, <1>8, <1>9, <1>10, <1>11, <1>12,
     <1>13 DEF ReleaseNext

\* However many restarts and swaps the search takes: the matrix and the score
\* that it only updates are those of its assignment, and every split has its
\* share of the pairs, also in the results that are kept, for any number of
\* videos, leaves and tasks.
THEOREM ReleaseSplitKept == ReleaseSpec => []SplitKept
<1>1. ReleaseInit => SearchInv
  BY SearchStart
<1>2. SearchInv /\ [ReleaseNext]_releaseVars => SearchInv'
  BY SearchStep
<1>3. SearchInv => SplitKept
  BY SearchKept
<1> QED
  BY <1>1, <1>2, <1>3, PTL DEF ReleaseSpec

-----------------------------------------------------------------------------
(* ReadableIds *)

\* Nothing has been replaced; the new files are written and the videos are
\* where they belong.
Untouched == manifest = "old" /\ input = "old"
NewWritten == Untouched /\ newManifest = "new" /\ newInput = "new"
InPlace == NewWritten /\ targetDir = Records

\* What is there when the tool is at a step.
Reached ==
    /\ step = "place" => Untouched
    /\ step = "write_manifest" => Untouched /\ stagingDir = Records
    /\ step \in {"write_input", "wrote_input"} =>
         Untouched /\ stagingDir = Records /\ newManifest = "new"
    /\ step = "rename" => NewWritten /\ stagingDir = Records
    /\ step \in {"copy_manifest", "copied_manifest"} => InPlace
    /\ step \in {"copy_input", "copied_input"} => InPlace /\ oldManifest = "old"
    /\ step = "replace_manifest" =>
         InPlace /\ oldManifest = "old" /\ oldInput = "old"
    /\ step = "replace_input" =>
         manifest = "new" /\ input = "old" /\ newInput = "new"

IdsTypeOK ==
    /\ step \in Steps \cup {"stopped"}
    /\ manifest \in {"old", "new"} /\ input \in {"old", "new"}

IdsInv == IdsTypeOK /\ Reached /\ IdsBacked

LEMMA IdsStart == IdsInit => IdsInv
BY DEF IdsInit, IdsInv, IdsTypeOK, Reached, IdsBacked

\* Every step finds what it relies on, also after an exception or a crash.
LEMMA IdsStep == IdsInv /\ [IdsNext]_idsVars => IdsInv'
<1> SUFFICES ASSUME IdsInv, [IdsNext]_idsVars PROVE IdsInv'
  OBVIOUS
<1> USE DEF IdsInv, IdsTypeOK, Reached, IdsBacked, Untouched, NewWritten, InPlace,
            Steps, dirVars, fileVars, backupVars
<1>1. CASE StartNormalize
  <2>1. manifest = "old" /\ input = "old"
    BY <1>1, RecordsAssumption DEF StartNormalize, Absent, RecordsAssumption
  <2> QED
    BY <1>1, <2>1 DEF StartNormalize
<1>2. CASE PlaceRecord
  BY <1>2 DEF PlaceRecord
<1>3. CASE WriteManifest \/ WriteInput
  BY <1>3 DEF WriteManifest, WriteInput
<1>4. CASE RenameRoot
  BY <1>4 DEF RenameRoot
<1>5. CASE BackUpManifest
  BY <1>5 DEF BackUpManifest
<1>6. CASE BackUpInput
  BY <1>6 DEF BackUpInput
<1>7. CASE ReplaceManifest
  BY <1>7 DEF ReplaceManifest
<1>8. CASE ReplaceInput
  BY <1>8 DEF ReplaceInput
<1>9. CASE RaiseInNormalize
  BY <1>9 DEF RaiseInNormalize
<1>10. CASE CrashNormalize
  BY <1>10 DEF CrashNormalize
<1>11. CASE UndoByHand
  BY <1>11 DEF UndoByHand
<1>12. CASE FinishByHand
  BY <1>12 DEF FinishByHand
<1>13. CASE UNCHANGED idsVars
  BY <1>13 DEF idsVars
<1> QED
  BY <1>1, <1>2, <1>3, <1>4, <1>5, <1>6, <1>7, <1>8, <1>9, <1>10, <1>11,
     <1>12, <1>13 DEF IdsNext

\* Whatever step raises or is the last one before a death, and whatever is
\* undone or finished by hand afterwards: a manifest with the new names has
\* all its files and both backups, for any number of videos.
THEOREM IdsAreBacked == IdsSpec => []IdsBacked
<1>1. IdsInv => IdsBacked
  BY DEF IdsInv
<1> QED
  BY <1>1, IdsStart, IdsStep, PTL DEF IdsSpec

=============================================================================
