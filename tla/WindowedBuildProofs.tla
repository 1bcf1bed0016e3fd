------------------------ MODULE WindowedBuildProofs ------------------------
(***************************************************************************)
(* Proofs about WindowedBuild for every selection, window size, number of  *)
(* workers, cap, target, number of attempts, starts and crashes.           *)
(***************************************************************************)
EXTENDS WindowedBuild, FiniteSetTheorems, TLAPS

\* A video has a live worker only while it is in flight, and a worker never
\* has more facts to handle than the cap it was submitted with.
WorkersOK ==
    /\ \A v \in Video : v \notin inFlight => phase[v] = "none"
    /\ \A v \in Video : phase[v] = "build" => Len(todo[v]) <= cap[v]

\* Queued videos are not in flight, not completed and have an attempt left;
\* videos in flight are marked running; the memory knows every completion
\* that the status file knows.
QueueOK ==
    /\ \A v \in pending : /\ v \notin inFlight
                          /\ results[v].status # "completed"
                          /\ results[v].attempts < MaxAttempts
    /\ \A v \in inFlight : results[v].status = "running"
    /\ \A v \in Video : saved[v].status = "completed"
                           => results[v].status = "completed"

\* Outside the loop of _process_window nothing is in flight, and without a
\* process nothing is queued.
Quiet ==
    /\ pc \in {"down", "preload", "enter", "leave", "final"} => inFlight = {}
    /\ pc = "down" => pending = {}

\* The file has not shrunk since the main thread counted it.
CountOK == pc = "plan" => count <= PairCount

\* The inductive invariant of the bookkeeping.
BookInv ==
    /\ TypeOK
    /\ CountOK
    /\ WorkersOK
    /\ QueueOK
    /\ Quiet
    /\ NothingAbandoned

-----------------------------------------------------------------------------
\* The constants as the provers need them.
LEMMA Constants ==
    /\ NumVideos \in Nat /\ WindowSize \in Nat
    /\ Workers \in Nat /\ Workers > 0 /\ PairCap \in Nat /\ PairCap > 0
    /\ Target \in Nat /\ Target > 0 /\ MaxAttempts \in Nat /\ MaxAttempts > 0
    /\ ProcessAll \in BOOLEAN /\ HasBudget \in BOOLEAN
    /\ AuthMayFail \in BOOLEAN
    /\ IsFiniteSet(Fact)
  BY BuildAssumption DEF BuildAssumption

\* Everything that is counted is finite.
LEMMA Finite ==
    ASSUME TypeOK
    PROVE  /\ IsFiniteSet(output) /\ IsFiniteSet(inFlight) /\ IsFiniteSet(Reserved)
           /\ PairCount \in Nat /\ Cardinality(inFlight) \in Nat
           /\ Cardinality(Reserved) \in Nat
           /\ Cardinality(Reserved) <= Cardinality(inFlight) * PairCap
<1>1. IsFiniteSet(Video) /\ IsFiniteSet(1..PairCap) /\ Cardinality(1..PairCap) = PairCap
  BY FS_Interval, Constants DEF Video
<1>2. IsFiniteSet(Video \X Fact)
  BY <1>1, FS_Product, Constants
<1>3. IsFiniteSet(output) /\ IsFiniteSet(inFlight)
  BY <1>1, <1>2, FS_Subset DEF TypeOK
<1>4. /\ IsFiniteSet(inFlight \X (1..PairCap))
      /\ Cardinality(inFlight \X (1..PairCap)) = Cardinality(inFlight) * PairCap
  BY <1>1, <1>3, FS_Product
<1>5. Reserved \in SUBSET (inFlight \X (1..PairCap))
  BY DEF Reserved
<1>6. /\ IsFiniteSet(Reserved)
      /\ Cardinality(Reserved) <= Cardinality(inFlight) * PairCap
  BY <1>4, <1>5, FS_Subset
<1>7. QED
  BY <1>3, <1>6, FS_CardinalityType DEF PairCount

\* The same of the next state.
LEMMA FiniteNext ==
    ASSUME TypeOK'
    PROVE  PairCount' \in Nat /\ Cardinality(Reserved') \in Nat
<1>1. IsFiniteSet(Video) /\ IsFiniteSet(1..PairCap)
  BY FS_Interval, Constants DEF Video
<1>2. IsFiniteSet(Video \X Fact) /\ IsFiniteSet(Video \X (1..PairCap))
  BY <1>1, FS_Product, Constants
<1>3. output' \subseteq Video \X Fact /\ Reserved' \subseteq Video \X (1..PairCap)
  BY DEF TypeOK, Reserved
<1>4. IsFiniteSet(output') /\ IsFiniteSet(Reserved')
  BY <1>2, <1>3, FS_Subset
<1>5. QED
  BY <1>4, FS_CardinalityType DEF PairCount

\* The cap of a submission is a cap.
LEMMA NextCapType == ASSUME TypeOK PROVE NextCap \in 0..PairCap
  BY Finite, Constants DEF NextCap, SubmissionCap, Lesser, TypeOK

\* With nothing in flight the plan submits, unless the target is reached or
\* the budget is spent.
LEMMA PlanNeverStarves ==
    ASSUME TypeOK, inFlight = {}, NextCap = 0
    PROVE  budgetStop \/ count >= Target
<1>1. Cardinality(inFlight) = 0
  BY FS_EmptySet
<1>2. CASE budgetStop
  BY <1>2
<1>3. CASE ~budgetStop /\ ProcessAll
  BY <1>1, <1>3, Constants DEF NextCap
<1>4. CASE ~budgetStop /\ ~ProcessAll
  <2>1. SubmissionCap(count, 0) = 0
    BY <1>1, <1>4 DEF NextCap
  <2>0. count \in Nat /\ Target \in Nat /\ Workers * PairCap \in Nat
    BY Constants DEF TypeOK
  <2>2. SUFFICES ASSUME count < Target PROVE FALSE
    BY <2>0
  <2>3. CASE Target - count >= Workers * PairCap /\ Workers # 1
    <3>1. Workers * PairCap >= PairCap
      BY Constants
    <3> DEFINE d == IF Target - count >= Workers * PairCap THEN Workers ELSE 1
    <3>4. /\ d = Workers /\ d # 1 /\ ~(0 >= d) /\ ~(Target - count <= 0)
          /\ (0 + 1) * PairCap = PairCap /\ ~(Target - count < PairCap)
      BY <2>0, <2>2, <2>3, <3>1, Constants
    <3>2. SubmissionCap(count, 0) = PairCap
      BY <3>4 DEF SubmissionCap
    <3>3. QED
      BY <2>1, <3>2, Constants
  <2>4. CASE ~(Target - count >= Workers * PairCap /\ Workers # 1)
    <3>1. (IF Target - count >= Workers * PairCap THEN Workers ELSE 1) = 1
      BY <2>4
    <3>2. SubmissionCap(count, 0) = Lesser(PairCap, Target - count)
      <4> DEFINE d == IF Target - count >= Workers * PairCap THEN Workers ELSE 1
      <4>1. d = 1 /\ ~(Target - count <= 0) /\ ~(0 >= d)
        BY <2>0, <2>2, <3>1
      <4>2. QED
        BY <4>1 DEF SubmissionCap
    <3>3. QED
      BY <2>0, <2>1, <2>2, <3>2, Constants DEF Lesser
  <2>5. QED
    BY <2>3, <2>4
<1>5. QED
  BY <1>2, <1>3, <1>4, Constants DEF TypeOK

\* The initial states.
LEMMA InitBook == Init => BookInv
<1> SUFFICES ASSUME Init PROVE BookInv
  OBVIOUS
<1>1. NewResult \in Result
  BY Constants DEF NewResult, Result, Status
<1>2. /\ output \subseteq Video \X Fact
      /\ saved \in [Video -> Result] /\ results \in [Video -> Result]
  BY <1>1 DEF Init
<1>3. /\ phase \in [Video -> {"none", "discover", "build", "ok", "raised"}]
      /\ cap \in [Video -> 0..PairCap] /\ todo \in [Video -> Seq(Fact)]
      /\ seen \in [Video -> SUBSET Fact] /\ rejected \in [Video -> SUBSET Reason]
  BY Constants DEF Init, NoProcess
<1>4. TypeOK
  BY <1>2, <1>3 DEF Init, NoProcess, TypeOK
<1>5. WorkersOK /\ QueueOK /\ Quiet /\ NothingAbandoned /\ CountOK
  BY DEF Init, NoProcess, WorkersOK, QueueOK, Quiet, NothingAbandoned, CountOK, PairCount
<1>6. QED
  BY <1>4, <1>5 DEF BookInv

-----------------------------------------------------------------------------
(* The bookkeeping is preserved by the steps of the main thread ...         *)

\* What settling a future writes is a result.
LEMMA SettledResult ==
    ASSUME NEW x \in Result, NEW k \in SUBSET Reason
    PROVE  /\ [x EXCEPT !.status = "completed", !.rejected = k] \in Result
           /\ [x EXCEPT !.status = "pending_provider_stop",
                        !.attempts = Refunded(x.attempts)] \in Result
           /\ [x EXCEPT !.status = "failed"] \in Result
<1>1. /\ x.attempts \in 0..MaxAttempts
      /\ Refunded(x.attempts) \in 0..MaxAttempts
  BY Constants DEF Result, Refunded
<1>2. QED
  BY <1>1 DEF Result, Status

\* A process that ends leaves a consistent status file.
LEMMA GoneBook ==
    ASSUME BookInv, ProcessGone, saved' \in [Video -> Result],
           results' \in [Video -> Result], output' = output,
           state' \in {"completed_target", "stopped_budget", "completed_sources",
                       "completed_with_failures", "stopped_provider_auth", state},
           \A v \in Video : saved'[v].status = "completed"
                              => results'[v].status = "completed",
           starts' \in Nat, crashes' \in Nat
    PROVE  BookInv'
<1>1. /\ phase' \in [Video -> {"none", "discover", "build", "ok", "raised"}]
      /\ cap' \in [Video -> 0..PairCap] /\ todo' \in [Video -> Seq(Fact)]
      /\ seen' \in [Video -> SUBSET Fact] /\ rejected' \in [Video -> SUBSET Reason]
  BY Constants DEF ProcessGone
<1>2. output' \subseteq Video \X Fact
  BY DEF BookInv, TypeOK
<1>3. TypeOK'
  BY <1>1, <1>2 DEF BookInv, TypeOK, ProcessGone
<1>4. WorkersOK' /\ QueueOK' /\ Quiet' /\ NothingAbandoned' /\ CountOK'
  BY DEF ProcessGone, WorkersOK, QueueOK, Quiet, NothingAbandoned, CountOK, PairCount
<1>5. QED
  BY <1>3, <1>4 DEF BookInv

LEMMA MainBook == ASSUME BookInv, MainStep PROVE BookInv'
<1> USE DEF BookInv, loopVars, workerVars, diskVars, envVars
<1>1. CASE PreloadFirst
  <2>1. TypeOK'
    BY <1>1 DEF PreloadFirst, TypeOK
  <2>2. WorkersOK' /\ QueueOK' /\ Quiet' /\ NothingAbandoned' /\ CountOK'
    BY <1>1 DEF PreloadFirst, WorkersOK, QueueOK, Quiet, NothingAbandoned, CountOK, PairCount
  <2>3. QED
    BY <2>1, <2>2
<1>2. CASE EnterRaises
  <2>1. TypeOK'
    BY <1>2 DEF EnterRaises, TypeOK
  <2>2. WorkersOK' /\ QueueOK' /\ Quiet' /\ NothingAbandoned' /\ CountOK'
    BY <1>2 DEF EnterRaises, WorkersOK, QueueOK, Quiet, NothingAbandoned, CountOK, PairCount
  <2>3. QED
    BY <2>1, <2>2
<1>3. CASE EnterWindow
  <2>1. pending' \subseteq Video
    BY <1>3 DEF EnterWindow, Queued, WindowVideos
  <2>2. TypeOK'
    BY <1>3, <2>1, Constants DEF EnterWindow, WriteStatus, TypeOK
  <2>3. QueueOK'
    BY <1>3 DEF EnterWindow, WriteStatus, Queued, QueueOK, Quiet, TypeOK
  <2>4. WorkersOK' /\ Quiet' /\ NothingAbandoned' /\ CountOK'
    BY <1>3 DEF EnterWindow, WorkersOK, Quiet, NothingAbandoned, CountOK
  <2>5. QED
    BY <2>2, <2>3, <2>4
<1>4. CASE ReadPairs
  <2>1. TypeOK'
    BY <1>4, Finite DEF ReadPairs, TypeOK
  <2>2. WorkersOK' /\ QueueOK' /\ Quiet' /\ NothingAbandoned' /\ CountOK'
    BY <1>4, Finite DEF ReadPairs, WorkersOK, QueueOK, Quiet, NothingAbandoned, CountOK, PairCount
  <2>3. QED
    BY <2>1, <2>2
<1>5. ASSUME NEW v \in Video, Submit(v) PROVE BookInv'
  <2> DEFINE r == [status |-> "running", attempts |-> results[v].attempts + 1,
                   rejected |-> {}]
  <2>1. results' = [results EXCEPT ![v] = r]
    BY <1>5 DEF Submit
  <2>2. r \in Result
    BY <1>5, Constants DEF Submit, QueueOK, TypeOK, Result, Status
  <2>3. TypeOK'
    BY <1>5, <2>1, <2>2, NextCapType DEF Submit, TypeOK
  <2>4. v \notin inFlight /\ results[v].status # "completed"
    BY <1>5 DEF Submit, QueueOK
  <2>5. WorkersOK'
    BY <1>5, <2>4 DEF Submit, WorkersOK, TypeOK
  <2>6. QueueOK'
    BY <1>5, <2>1, <2>4 DEF Submit, QueueOK, TypeOK
  <2>7. Quiet' /\ NothingAbandoned' /\ CountOK'
    BY <1>5 DEF Submit, Quiet, NothingAbandoned, CountOK
  <2>8. QED
    BY <2>3, <2>5, <2>6, <2>7
<1>6. CASE PersistSubmit
  <2>1. TypeOK'
    BY <1>6, Finite, Constants DEF PersistSubmit, WriteStatus, TypeOK
  <2>2. WorkersOK' /\ QueueOK' /\ Quiet' /\ NothingAbandoned' /\ CountOK'
    BY <1>6, Finite DEF PersistSubmit, WriteStatus, WorkersOK, QueueOK, Quiet,
                        NothingAbandoned, CountOK, PairCount
  <2>3. QED
    BY <2>1, <2>2
<1>7. CASE SubmitNoMore
  <2>1. TypeOK'
    BY <1>7 DEF SubmitNoMore, TypeOK
  <2>2. WorkersOK' /\ QueueOK' /\ Quiet' /\ CountOK'
    BY <1>7 DEF SubmitNoMore, WorkersOK, QueueOK, Quiet, CountOK
  <2>3. NothingAbandoned'
    <3>1. count <= PairCount /\ count \in Nat /\ PairCount \in Nat
      BY <1>7, Finite DEF SubmitNoMore, CountOK, TypeOK
    <3>2. inFlight = {} /\ NextCap = 0 => budgetStop \/ count >= Target
      BY PlanNeverStarves
    <3>3. QED
      BY <1>7, <3>1, <3>2, Constants DEF SubmitNoMore, NothingAbandoned, PairCount
  <2>4. QED
    BY <2>1, <2>2, <2>3
<1>8. CASE Wait
  <2>1. TypeOK'
    BY <1>8 DEF Wait, Ended, TypeOK
  <2>2. WorkersOK' /\ QueueOK' /\ Quiet' /\ NothingAbandoned' /\ CountOK'
    BY <1>8 DEF Wait, WorkersOK, QueueOK, Quiet, NothingAbandoned, CountOK, PairCount
  <2>3. QED
    BY <2>1, <2>2
<1>9. ASSUME NEW v \in Video, Settle(v) PROVE BookInv'
  <2>1. results[v] \in Result /\ v \in inFlight /\ results[v].status = "running"
    BY <1>9 DEF Settle, TypeOK, QueueOK
  <2>a. rejected[v] \in SUBSET Reason
    BY DEF TypeOK
  <2> DEFINE x == results[v]
             r == IF phase[v] = "ok"
                    THEN [x EXCEPT !.status = "completed", !.rejected = rejected[v]]
                  ELSE IF circuit
                    THEN [x EXCEPT !.status = "pending_provider_stop",
                                   !.attempts = Refunded(x.attempts)]
                  ELSE [x EXCEPT !.status = "failed"]
  <2>b. r \in Result
    BY <2>1, <2>a, SettledResult
  <2>2. results' = [results EXCEPT ![v] = r]
    BY <1>9 DEF Settle
  <2>3. Forget(v) /\ inFlight' = inFlight \ {v} /\ done' = done \ {v}
    BY <1>9 DEF Settle
  <2>c. /\ phase' \in [Video -> {"none", "discover", "build", "ok", "raised"}]
        /\ cap' \in [Video -> 0..PairCap] /\ todo' \in [Video -> Seq(Fact)]
        /\ seen' \in [Video -> SUBSET Fact] /\ rejected' \in [Video -> SUBSET Reason]
    BY <2>3, Constants DEF Forget, TypeOK
  <2>d. results' \in [Video -> Result]
    BY <2>2, <2>b DEF TypeOK
  <2>4. TypeOK'
    BY <1>9, <2>3, <2>c, <2>d DEF Settle, TypeOK
  <2>5. WorkersOK'
    BY <1>9, <2>3 DEF Forget, WorkersOK, TypeOK
  <2>e. /\ \A w \in Video : w # v => results'[w] = results[w]
        /\ phase[v] = "raised" /\ ~circuit
             => results'[v].status = "failed" /\ results'[v].attempts = x.attempts
    BY <2>1, <2>2 DEF TypeOK, Result
  <2>6. QueueOK'
    BY <1>9, <2>1, <2>3, <2>e DEF Settle, QueueOK, TypeOK
  <2>7. Quiet' /\ NothingAbandoned' /\ CountOK'
    BY <1>9 DEF Settle, Quiet, NothingAbandoned, CountOK
  <2>8. QED
    BY <2>4, <2>5, <2>6, <2>7
<1>10. CASE PersistSettle
  <2>1. TypeOK'
    BY <1>10, Constants DEF PersistSettle, WriteStatus, TypeOK
  <2>2. WorkersOK' /\ QueueOK' /\ Quiet' /\ NothingAbandoned' /\ CountOK'
    BY <1>10 DEF PersistSettle, WriteStatus, WorkersOK, QueueOK, Quiet,
                 NothingAbandoned, CountOK, PairCount
  <2>3. QED
    BY <2>1, <2>2
<1>11. CASE Drain
  <2>1. TypeOK'
    BY <1>11 DEF Drain, TypeOK
  <2>2. WorkersOK' /\ QueueOK' /\ Quiet' /\ NothingAbandoned' /\ CountOK'
    BY <1>11 DEF Drain, WorkersOK, QueueOK, Quiet, NothingAbandoned, CountOK, PairCount
  <2>3. QED
    BY <2>1, <2>2
<1>12. CASE StopProvider
  BY <1>12, GoneBook DEF StopProvider, LastWrite, TypeOK
<1>13. CASE LeaveWindow
  <2>1. TypeOK'
    BY <1>13, Constants DEF LeaveWindow, WriteStatus, TypeOK
  <2>2. WorkersOK' /\ QueueOK' /\ Quiet' /\ NothingAbandoned' /\ CountOK'
    BY <1>13 DEF LeaveWindow, WriteStatus, WorkersOK, QueueOK, Quiet,
                 NothingAbandoned, CountOK, PairCount
  <2>3. QED
    BY <2>1, <2>2
<1>14. CASE FinalRaises
  <2>1. TypeOK'
    BY <1>14 DEF FinalRaises, TypeOK
  <2>2. WorkersOK' /\ QueueOK' /\ Quiet' /\ NothingAbandoned' /\ CountOK'
    BY <1>14 DEF FinalRaises, WorkersOK, QueueOK, Quiet, NothingAbandoned, CountOK, PairCount
  <2>3. QED
    BY <2>1, <2>2
<1>15. CASE Finish
  BY <1>15, GoneBook DEF Finish, LastWrite, FinalState, TypeOK
<1>16. CASE ReadRaises
  <2>1. TypeOK'
    BY <1>16 DEF ReadRaises, TypeOK
  <2>2. WorkersOK' /\ QueueOK' /\ Quiet' /\ NothingAbandoned' /\ CountOK'
    BY <1>16 DEF ReadRaises, WorkersOK, QueueOK, Quiet, NothingAbandoned, CountOK
  <2>3. QED
    BY <2>1, <2>2
<1>17. CASE Abort
  BY <1>17, GoneBook DEF Abort, TypeOK
<1>18. QED
  BY <1>1, <1>2, <1>3, <1>4, <1>5, <1>6, <1>7, <1>8, <1>9, <1>10, <1>11,
     <1>12, <1>13, <1>14, <1>15, <1>16, <1>17 DEF MainStep

-----------------------------------------------------------------------------
(* ... by the steps of the workers ...                                      *)

\* A selection is a sequence of facts, no longer than allowed.
LEMMA SelectionLength ==
    ASSUME NEW n \in Nat, NEW s \in Selections(n)
    PROVE  s \in Seq(Fact) /\ Len(s) <= n
<1>1. PICK k \in 0..n : s \in [1..k -> Fact]
  BY DEF Selections
<1>2. QED
  BY <1>1

\* Handling a fact shortens the list of the worker by one.
LEMMA HandledFact ==
    ASSUME TypeOK, NEW v \in Video, NEW f, Handles(v, f)
    PROVE  /\ todo' \in [Video -> Seq(Fact)]
           /\ todo' = [todo EXCEPT ![v] = Tail(todo[v])]
           /\ Len(todo[v]) \in Nat /\ Len(todo[v]) > 0
           /\ Len(todo'[v]) = Len(todo[v]) - 1
           /\ phase[v] = "build"
<1>1. todo[v] \in Seq(Fact) /\ todo[v] # << >>
  BY DEF Handles, TypeOK
<1>2. /\ Tail(todo[v]) \in Seq(Fact) /\ Len(todo[v]) \in Nat /\ Len(todo[v]) > 0
      /\ Len(Tail(todo[v])) = Len(todo[v]) - 1
  BY <1>1
<1>3. QED
  BY <1>2 DEF Handles, TypeOK

LEMMA WorkerBook ==
    ASSUME BookInv, NEW v \in Video, WorkerStep(v) PROVE BookInv'
<1> USE DEF BookInv, workerFrame, loopVars, envVars
<1>1. v \in inFlight
  BY DEF WorkerStep, DiscoverRaises, Select, Skip, Emit, Reject, Handles,
         Return, WorkersOK
<1>2. CASE DiscoverRaises(v)
  <2>1. TypeOK'
    BY <1>2, Constants DEF DiscoverRaises, TypeOK
  <2>2. WorkersOK'
    BY <1>1, <1>2 DEF DiscoverRaises, WorkersOK, TypeOK
  <2>3. QueueOK' /\ Quiet' /\ NothingAbandoned' /\ CountOK'
    BY <1>2 DEF DiscoverRaises, QueueOK, Quiet, NothingAbandoned, CountOK, PairCount
  <2>4. QED
    BY <2>1, <2>2, <2>3
<1>3. CASE Select(v)
  <2> DEFINE n == Lesser(cap[v], SelectionLimit)
  <2>1. n \in Nat /\ n <= cap[v] /\ cap[v] \in Nat
    <3>1. SelectionLimit \in Nat
      BY Finite, Constants DEF SelectionLimit
    <3>2. cap[v] \in Nat
      BY Constants DEF TypeOK
    <3>3. QED
      BY <3>1, <3>2 DEF Lesser
  <2>2. PICK s \in Selections(n) : todo' = [todo EXCEPT ![v] = s]
    BY <1>3 DEF Select
  <2>3. s \in Seq(Fact) /\ Len(s) <= n
    BY <2>1, <2>2, SelectionLength
  <2>4. TypeOK'
    BY <1>3, <2>2, <2>3 DEF Select, TypeOK
  <2>5. todo'[v] = s /\ \A w \in Video : w # v => todo'[w] = todo[w]
    BY <2>2 DEF TypeOK
  <2>a. Len(s) <= cap[v]
    BY <2>1, <2>3
  <2>6. WorkersOK'
    BY <1>1, <1>3, <2>a, <2>5 DEF Select, WorkersOK, TypeOK
  <2>7. QueueOK' /\ Quiet' /\ NothingAbandoned' /\ CountOK'
    BY <1>3 DEF Select, QueueOK, Quiet, NothingAbandoned, CountOK, PairCount
  <2>8. QED
    BY <2>4, <2>6, <2>7
<1>4. ASSUME NEW f \in Fact, Handles(v, f),
             output' = output \/ output' = output \cup {<<v, f>>},
             circuit' \in BOOLEAN, rejected' \in [Video -> SUBSET Reason],
             UNCHANGED <<phase, seen, workerFrame>>
      PROVE  BookInv'
  <2>1. todo' \in [Video -> Seq(Fact)] /\ Len(todo[v]) \in Nat
        /\ todo' = [todo EXCEPT ![v] = Tail(todo[v])] /\ Len(todo'[v]) = Len(todo[v]) - 1
    BY <1>4, HandledFact
  <2>2. TypeOK'
    BY <1>4, <2>1 DEF TypeOK
  <2>3. \A w \in Video : w # v => todo'[w] = todo[w]
    BY <2>1 DEF TypeOK
  <2>4. cap[v] \in Nat
    BY Constants DEF TypeOK
  <2>5. WorkersOK'
    BY <1>4, <2>1, <2>3, <2>4, HandledFact DEF WorkersOK
  <2>6. PairCount \in Nat /\ PairCount' \in Nat /\ PairCount <= PairCount'
    <3>4. IsFiniteSet(output) /\ IsFiniteSet(output \cup {<<v, f>>})
      BY Finite, FS_AddElement
    <3>1. IsFiniteSet(output) /\ IsFiniteSet(output')
      BY <3>4, <1>4
    <3>2. output \in SUBSET output'
      BY <1>4
    <3>3. QED
      BY <3>1, <3>2, FS_Subset, FS_CardinalityType DEF PairCount
  <2>7. QueueOK' /\ Quiet'
    BY <1>4 DEF QueueOK, Quiet
  <2>8. NothingAbandoned' /\ CountOK'
    BY <1>4, <2>6, Constants DEF NothingAbandoned, CountOK, TypeOK
  <2>9. QED
    BY <2>2, <2>5, <2>7, <2>8
<1>5. ASSUME NEW f \in Fact, Skip(v, f) PROVE BookInv'
  BY <1>4, <1>5 DEF Skip, TypeOK
<1>6. ASSUME NEW f \in Fact, Emit(v, f) PROVE BookInv'
  BY <1>4, <1>6 DEF Emit, TypeOK
<1>7. ASSUME NEW f \in Fact, NEW r \in Reason, Reject(v, f, r) PROVE BookInv'
  <2>1. rejected' \in [Video -> SUBSET Reason] /\ circuit' \in BOOLEAN
    BY <1>7 DEF Reject, TypeOK
  <2>2. QED
    BY <1>4, <1>7, <2>1 DEF Reject
<1>8. CASE Return(v)
  <2>1. TypeOK'
    BY <1>8 DEF Return, TypeOK
  <2>2. WorkersOK'
    BY <1>1, <1>8 DEF Return, WorkersOK, TypeOK
  <2>3. QueueOK' /\ Quiet' /\ NothingAbandoned' /\ CountOK'
    BY <1>8 DEF Return, QueueOK, Quiet, NothingAbandoned, CountOK, PairCount
  <2>4. QED
    BY <2>1, <2>2, <2>3
<1>9. QED
  BY <1>2, <1>3, <1>5, <1>6, <1>7, <1>8 DEF WorkerStep

-----------------------------------------------------------------------------
(* ... and by starts, prefetches, crashes and repairs.                      *)

LEMMA StepBook == ASSUME BookInv, [Next]_vars PROVE BookInv'
<1> USE DEF BookInv, loopVars, workerVars, diskVars, envVars
<1>1. CASE Start
  <2>1. TypeOK'
    BY <1>1, Constants DEF Start, WriteStatus, TypeOK
  <2>2. inFlight = {}
    BY <1>1 DEF Start, Quiet
  <2>3. QED
    BY <1>1, <2>1, <2>2 DEF Start, WriteStatus, WorkersOK, QueueOK, Quiet,
                             NothingAbandoned, CountOK, PairCount
<1>2. CASE PrefetchRefused
  <2>1. TypeOK'
    BY <1>2 DEF PrefetchRefused, TypeOK
  <2>2. QED
    BY <1>2, <2>1 DEF PrefetchRefused, WorkersOK, QueueOK, Quiet,
                       NothingAbandoned, CountOK, PairCount
<1>3. CASE PrefetchEnds
  <2>1. TypeOK'
    BY <1>3 DEF PrefetchEnds, TypeOK
  <2>2. QED
    BY <1>3, <2>1 DEF PrefetchEnds, WorkersOK, QueueOK, Quiet,
                       NothingAbandoned, CountOK, PairCount
<1>4. CASE Crash
  <2>1. crashes' \in Nat /\ starts' \in Nat
    BY <1>4 DEF Crash, TypeOK
  <2>2. QED
    BY <1>4, <2>1, GoneBook DEF Crash, TypeOK
<1>5. CASE Repair
  <2>1. pc = "down" /\ inFlight = {} /\ pending = {}
    BY <1>5 DEF Repair, Quiet
  <2>2. PICK repaired :
          saved' = [v \in Video |->
             IF v \in repaired
               THEN [saved[v] EXCEPT !.status = "pending_infrastructure_retry",
                                     !.attempts = Refunded(saved[v].attempts)]
               ELSE saved[v]]
    BY <1>5 DEF Repair
  <2>3. ASSUME NEW x \in Result
        PROVE  [x EXCEPT !.status = "pending_infrastructure_retry",
                         !.attempts = Refunded(x.attempts)] \in Result
    <3>1. Refunded(x.attempts) \in 0..MaxAttempts
      BY <2>3, Constants DEF Result, Refunded
    <3>2. QED
      BY <2>3, <3>1 DEF Result, Status
  <2>4. saved' \in [Video -> Result] /\ results' = saved'
    BY <1>5, <2>2, <2>3 DEF Repair, TypeOK
  <2>5. TypeOK'
    BY <1>5, <2>4 DEF Repair, TypeOK
  <2>7. QED
    BY <1>5, <2>1, <2>4, <2>5 DEF Repair, WorkersOK, QueueOK, Quiet,
                                  NothingAbandoned, CountOK, PairCount
<1>6. CASE UNCHANGED vars
  <2>1. TypeOK'
    BY <1>6 DEF vars, TypeOK
  <2>2. QED
    BY <1>6, <2>1 DEF vars, WorkersOK, QueueOK, Quiet, NothingAbandoned,
                       CountOK, PairCount, Left
<1>7. QED
  BY <1>1, <1>2, <1>3, <1>4, <1>5, <1>6, MainBook, WorkerBook DEF Next

\* The bookkeeping invariant holds throughout.
THEOREM BuildBookkeeping == Spec => []BookInv
  BY InitBook, StepBook, PTL DEF Spec

\* Type correctness.
THEOREM BuildTypeOK == Spec => []TypeOK
<1>1. BookInv => TypeOK
  BY DEF BookInv
<1>2. QED
  BY <1>1, BuildBookkeeping, PTL

\* The plan never leaves a window with work queued, short of target and budget.
THEOREM BuildNothingAbandoned == Spec => []NothingAbandoned
<1>1. BookInv => NothingAbandoned
  BY DEF BookInv
<1>2. QED
  BY <1>1, BuildBookkeeping, PTL

-----------------------------------------------------------------------------
(* The target is never overshot.  The pairs in the file and the pairs the   *)
(* videos in flight may add are counted together; only a submission makes   *)
(* that sum grow, and the plan makes room for it although it works on a     *)
(* pair count that is older than the file.                                  *)

Committed == PairCount + Cardinality(Reserved)

\* What the plan knows while it may submit: what the workers added since the
\* pairs were counted is covered by the caps of the videos in flight.
PlanOK == pc = "plan" => Committed <= count + Cardinality(inFlight) * PairCap

TargetInv == BookInv /\ PlanOK /\ NoOvershoot

\* What a worker may still add is a number of pairs up to the cap.
LEMMA LeftType ==
    ASSUME BookInv, NEW v \in Video
    PROVE  Left(v) \in 0..PairCap
<1>1. cap[v] \in 0..PairCap /\ PairCap \in Nat /\ Len(todo[v]) \in Nat
  BY Constants DEF BookInv, TypeOK
<1>2. phase[v] = "build" => Len(todo[v]) <= cap[v]
  BY DEF BookInv, WorkersOK
<1>3. QED
  BY <1>1, <1>2 DEF Left

\* The same of the next state.
LEMMA LeftTypeNext ==
    ASSUME BookInv', NEW v \in Video
    PROVE  Left(v)' \in 0..PairCap
<1>1. cap'[v] \in 0..PairCap /\ PairCap \in Nat /\ Len(todo'[v]) \in Nat
  BY Constants DEF BookInv, TypeOK
<1>2. phase'[v] = "build" => Len(todo'[v]) <= cap'[v]
  BY DEF BookInv, WorkersOK
<1>3. QED
  BY <1>1, <1>2 DEF Left

\* When nothing is appended and no worker gets more to add, the sum does not
\* grow.
LEMMA CommittedShrinks ==
    ASSUME BookInv, BookInv', output' = output, inFlight' \subseteq inFlight,
           \A v \in inFlight' : Left(v)' <= Left(v)
    PROVE  Committed' <= Committed
<1>1. inFlight \subseteq Video
  BY DEF BookInv, TypeOK
<1>2. \A v \in inFlight' : Left(v) \in Int /\ Left(v)' \in Int
  <2>1. \A v \in Video : Left(v) \in 0..PairCap
    BY LeftType
  <2>2. \A v \in Video : Left(v)' \in 0..PairCap
    BY LeftTypeNext
  <2>3. QED
    BY <1>1, <2>1, <2>2
<1>3. Reserved' \in SUBSET Reserved
  BY <1>2, Constants DEF Reserved
<1>4. /\ IsFiniteSet(Reserved) /\ PairCount \in Nat
      /\ Cardinality(Reserved) \in Nat
  BY Finite DEF BookInv
<1>5. Cardinality(Reserved') \in Nat /\ Cardinality(Reserved') <= Cardinality(Reserved)
  BY <1>3, <1>4, FS_Subset, FS_CardinalityType
<1>6. QED
  BY <1>4, <1>5 DEF Committed, PairCount

\* The steps of the scheduler that submit nothing.
LEMMA MainCommitted ==
    ASSUME BookInv, BookInv', MainStep, \A v \in Video : ~Submit(v)
    PROVE  Committed' <= Committed
<1> USE DEF diskVars, loopVars, workerVars, envVars
<1>1. CASE UNCHANGED <<output, inFlight, phase, cap, todo>>
  <2>1. \A v \in inFlight' : Left(v)' = Left(v) /\ Left(v) \in Int
    BY <1>1, LeftType DEF Left, BookInv, TypeOK
  <2>2. QED
    BY <1>1, <2>1, CommittedShrinks
<1>2. ASSUME NEW v \in Video, Settle(v) PROVE Committed' <= Committed
  <2>1. /\ inFlight' = inFlight \ {v} /\ output' = output
        /\ Forget(v)
    BY <1>2 DEF Settle
  <2>2. \A w \in inFlight' : Left(w)' = Left(w) /\ Left(w) \in Int
    BY <2>1, LeftType DEF Forget, Left, BookInv, TypeOK
  <2>3. QED
    BY <2>1, <2>2, CommittedShrinks
<1>3. CASE ProcessGone /\ output' = output
  BY <1>3, CommittedShrinks DEF ProcessGone
<1>4. QED
  BY <1>1, <1>2, <1>3 DEF MainStep, PreloadFirst, EnterRaises, EnterWindow,
     ReadPairs, PersistSubmit, SubmitNoMore, Wait, PersistSettle, ReadRaises,
     Abort, Drain,
     StopProvider, LeaveWindow, FinalRaises, Finish, LastWrite

\* A worker trades what it may add for what it adds.
LEMMA WorkerCommitted ==
    ASSUME BookInv, BookInv', NEW v \in Video, WorkerStep(v)
    PROVE  Committed' <= Committed
<1> USE DEF workerFrame, loopVars, envVars
<1>a. v \in inFlight /\ inFlight \subseteq Video
  BY DEF WorkerStep, DiscoverRaises, Select, Skip, Emit, Reject, Handles,
         Return, WorkersOK, BookInv, TypeOK
<1>b. inFlight' = inFlight
  BY DEF WorkerStep, DiscoverRaises, Select, Skip, Emit, Reject, Return
<1>c. \A w \in Video : Left(w) \in 0..PairCap
  BY LeftType
<1>1. ASSUME output' = output, Left(v)' <= Left(v),
             \A w \in Video : w # v => Left(w)' = Left(w)
      PROVE  Committed' <= Committed
  <2>1. \A w \in inFlight' : Left(w)' <= Left(w)
    BY <1>1, <1>a, <1>b, <1>c, Constants
  <2>2. QED
    BY <1>1, <1>b, <2>1, CommittedShrinks
<1>2. CASE DiscoverRaises(v)
  <2>1. Left(v)' = 0 /\ \A w \in Video : w # v => Left(w)' = Left(w)
    BY <1>2 DEF DiscoverRaises, Left, BookInv, TypeOK
  <2>2. QED
    BY <1>1, <1>2, <1>c, <2>1, Constants DEF DiscoverRaises
<1>3. CASE Select(v)
  <2>1. /\ phase[v] = "discover" /\ phase'[v] = "build"
        /\ \A w \in Video : w # v => phase'[w] = phase[w] /\ todo'[w] = todo[w]
        /\ cap' = cap /\ output' = output
    BY <1>3 DEF Select, BookInv, TypeOK
  <2>2. Left(v)' = Len(todo'[v]) /\ Left(v) = cap[v]
    BY <2>1 DEF Left
  <2>3. Len(todo'[v]) <= cap[v]
    BY <2>1 DEF BookInv, WorkersOK
  <2>4. \A w \in Video : w # v => Left(w)' = Left(w)
    BY <2>1 DEF Left
  <2>5. QED
    BY <1>1, <2>1, <2>2, <2>3, <2>4
<1>4. ASSUME NEW f \in Fact, Handles(v, f), cap' = cap, phase' = phase
      PROVE  /\ Left(v) = Len(todo[v]) /\ Left(v)' = Left(v) - 1
             /\ Left(v) \in 1..PairCap
             /\ \A w \in Video : w # v => Left(w)' = Left(w)
  <2>1. /\ todo' = [todo EXCEPT ![v] = Tail(todo[v])]
        /\ Len(todo[v]) \in Nat /\ Len(todo[v]) > 0
        /\ Len(todo'[v]) = Len(todo[v]) - 1 /\ phase[v] = "build"
    BY <1>4, HandledFact DEF BookInv
  <2>2. \A w \in Video : w # v => todo'[w] = todo[w]
    BY <2>1 DEF BookInv, TypeOK
  <2>3. Left(v) = Len(todo[v]) /\ Left(v)' = Len(todo'[v])
    BY <1>4, <2>1 DEF Left
  <2>4. \A w \in Video : w # v => Left(w)' = Left(w)
    BY <1>4, <2>2 DEF Left
  <2>5. QED
    BY <1>c, <2>1, <2>3, <2>4, Constants
<1>5. ASSUME NEW f \in Fact, Skip(v, f) \/ \E r \in Reason : Reject(v, f, r)
      PROVE  Committed' <= Committed
  <2>1. Handles(v, f) /\ cap' = cap /\ phase' = phase /\ output' = output
    BY <1>5 DEF Skip, Reject
  <2>2. Left(v) \in Int
    BY <1>c, Constants
  <2>3. QED
    BY <1>1, <1>4, <2>1, <2>2
<1>6. ASSUME NEW f \in Fact, Emit(v, f) PROVE Committed' <= Committed
  <2>1. /\ Handles(v, f) /\ cap' = cap /\ phase' = phase
        /\ output' = output \cup {<<v, f>>} /\ <<v, f>> \notin output
    BY <1>6 DEF Emit
  <2> DEFINE last == <<v, Left(v)>>
  <2>2. /\ Left(v)' = Left(v) - 1 /\ Left(v) \in 1..PairCap
        /\ \A w \in Video : w # v => Left(w)' = Left(w)
    BY <1>4, <2>1
  <2>3. last \in Reserved
    BY <1>a, <2>2, Constants DEF Reserved
  <2>4. Reserved' \in SUBSET (Reserved \ {last})
    <3>1. ASSUME NEW r \in Reserved' PROVE r \in Reserved /\ r # last
      <4>1. r \in inFlight \X (1..PairCap) /\ r[2] <= Left(r[1])'
        BY <1>b DEF Reserved
      <4>2. CASE r[1] = v
        BY <2>2, <4>1, <4>2, Constants DEF Reserved
      <4>3. CASE r[1] # v
        BY <1>a, <2>2, <4>1, <4>3 DEF Reserved
      <4>4. QED
        BY <4>2, <4>3
    <3>2. QED
      BY <3>1
  <2>5. /\ IsFiniteSet(Reserved) /\ IsFiniteSet(output) /\ PairCount \in Nat
        /\ Cardinality(Reserved) \in Nat
    BY Finite DEF BookInv
  <2>6. /\ IsFiniteSet(Reserved \ {last})
        /\ Cardinality(Reserved \ {last}) = Cardinality(Reserved) - 1
    BY <2>3, <2>5, FS_RemoveElement
  <2>7. /\ Cardinality(Reserved') \in Nat
        /\ Cardinality(Reserved') <= Cardinality(Reserved) - 1
    BY <2>4, <2>6, FS_Subset, FS_CardinalityType
  <2>8. PairCount' = PairCount + 1
    BY <2>1, <2>5, FS_AddElement DEF PairCount
  <2>9. QED
    BY <2>5, <2>7, <2>8 DEF Committed
<1>7. CASE Return(v)
  <2>1. /\ Left(v) = Len(todo[v]) /\ Left(v)' = 0
        /\ \A w \in Video : w # v => Left(w)' = Left(w)
    BY <1>7 DEF Return, Left, BookInv, TypeOK
  <2>2. QED
    BY <1>1, <1>7, <1>c, <2>1, Constants DEF Return
<1>8. QED
  BY <1>2, <1>3, <1>5, <1>6, <1>7 DEF WorkerStep

\* A video with cap c reserves c pairs.
LEMMA ReservedByOne ==
    ASSUME NEW x, NEW c \in Nat
    PROVE  IsFiniteSet({x} \X (1..c)) /\ Cardinality({x} \X (1..c)) = c
<1>1. IsFiniteSet({x}) /\ Cardinality({x}) = 1
  BY FS_Singleton, Zenon
<1>2. IsFiniteSet(1..c) /\ Cardinality(1..c) = c
  BY FS_Interval
<1>3. /\ IsFiniteSet({x} \X (1..c))
      /\ Cardinality({x} \X (1..c)) = Cardinality({x}) * Cardinality(1..c)
  BY <1>1, <1>2, FS_Product
<1>4. QED
  BY <1>1, <1>2, <1>3

\* A submission stays within what the plan knows to be left.
LEMMA SubmitCommitted ==
    ASSUME BookInv, PlanOK, ~ProcessAll, NEW v \in Video, Submit(v)
    PROVE  Committed' <= Target
<1> DEFINE n == Cardinality(inFlight)
           c == NextCap
           remaining == Target - count
<1> USE DEF BookInv
<1>1. /\ pc = "plan" /\ v \in pending /\ v \notin inFlight /\ c > 0
      /\ inFlight' = inFlight \cup {v} /\ output' = output
      /\ phase' = [phase EXCEPT ![v] = "discover"]
      /\ cap' = [cap EXCEPT ![v] = c] /\ todo' = todo
    BY DEF Submit, QueueOK, diskVars
<1>2. /\ n \in Nat /\ c \in 0..PairCap /\ PairCap \in Nat /\ Target \in Nat
      /\ count \in Nat /\ PairCount \in Nat /\ Workers \in Nat
      /\ Cardinality(Reserved) \in Nat /\ IsFiniteSet(Reserved)
  BY Finite, NextCapType, Constants DEF TypeOK
<1>3. Reserved' = Reserved \cup ({v} \X (1..c))
  <2>1. Left(v)' = c /\ \A w \in inFlight : w # v => Left(w)' = Left(w)
    BY <1>1 DEF Left, TypeOK
  <2>2. QED
    BY <1>1, <1>2, <2>1 DEF Reserved
<1>4. Cardinality(Reserved') = Cardinality(Reserved) + c
  <2>1. c \in Nat
    BY <1>2
  <2>2. IsFiniteSet({v} \X (1..c)) /\ Cardinality({v} \X (1..c)) = c
    BY <2>1, ReservedByOne
  <2>3. Reserved \cap ({v} \X (1..c)) = {}
    BY <1>1 DEF Reserved
  <2>4. /\ Cardinality(Reserved') = Cardinality(Reserved)
             + Cardinality({v} \X (1..c)) - Cardinality(Reserved \cap ({v} \X (1..c)))
    BY <1>2, <1>3, <2>2, FS_Union
  <2>5. Cardinality(Reserved \cap ({v} \X (1..c))) = 0
    BY <2>3, FS_EmptySet
  <2>6. Cardinality(Reserved) \in Nat
    BY <1>2
  <2> HIDE DEF c
  <2>7. QED
    BY <2>1, <2>2, <2>4, <2>5, <2>6
<1>5. Committed' = Committed + c /\ Committed \in Nat
  BY <1>1, <1>2, <1>4 DEF Committed, PairCount
<1>6. Committed <= count + n * PairCap
  BY <1>1 DEF PlanOK
<1>7. c = SubmissionCap(count, n)
  BY <1>1 DEF NextCap
<1> DEFINE desired == IF remaining >= Workers * PairCap THEN Workers ELSE 1
<1>8. ~(remaining <= 0) /\ ~(n >= desired)
  BY <1>1, <1>2, <1>7 DEF SubmissionCap
<1>9. CASE desired = 1
  <2>1. c = Lesser(PairCap, remaining)
    BY <1>7, <1>8, <1>9 DEF SubmissionCap
  <2>2. n = 0 /\ n * PairCap = 0
    BY <1>2, <1>8, <1>9
  <2>3. c <= remaining
    BY <1>2, <2>1 DEF Lesser
  <2>4. QED
    BY <1>2, <1>5, <1>6, <2>2, <2>3
<1>10. CASE desired # 1
  <2>1. ~(remaining < (n + 1) * PairCap) /\ c = PairCap
    BY <1>1, <1>2, <1>7, <1>8, <1>10 DEF SubmissionCap
  <2>2. (n + 1) * PairCap = n * PairCap + PairCap /\ n * PairCap \in Nat
    BY <1>2
  <2>3. QED
    BY <1>2, <1>5, <1>6, <2>1, <2>2
<1>11. QED
  BY <1>9, <1>10

\* The plan is only ever entered with a fresh count.
LEMMA StepPlan ==
    ASSUME BookInv, BookInv', PlanOK, [Next]_vars
    PROVE  PlanOK'
<1> USE DEF diskVars, loopVars, workerVars, envVars
<1>1. SUFFICES ASSUME pc' = "plan"
               PROVE  Committed' <= count' + Cardinality(inFlight') * PairCap
  BY DEF PlanOK
<1>2. ASSUME count' = PairCount, UNCHANGED <<output, inFlight, phase, cap, todo>>
      PROVE  Committed' <= count' + Cardinality(inFlight') * PairCap
  <2>1. Committed' = Committed
    BY <1>2 DEF Committed, PairCount, Reserved, Left
  <2>2. /\ PairCount \in Nat /\ Cardinality(Reserved) \in Nat
        /\ Cardinality(Reserved) <= Cardinality(inFlight) * PairCap
        /\ Cardinality(inFlight) * PairCap \in Nat
    BY Finite, Constants DEF BookInv
  <2>3. Committed' <= PairCount + Cardinality(inFlight) * PairCap
    BY <2>1, <2>2 DEF Committed
  <2>4. count' = PairCount /\ Cardinality(inFlight') = Cardinality(inFlight)
    BY <1>2
  <2>5. QED
    BY <2>2, <2>3, <2>4
<1>3. ASSUME pc = "plan", count' = count, inFlight' = inFlight, Committed' <= Committed
      PROVE  Committed' <= count' + Cardinality(inFlight') * PairCap
  <2>a. Cardinality(inFlight) \in Nat /\ PairCap \in Nat
    BY Finite, Constants DEF BookInv
  <2>b. Committed \in Nat /\ count \in Nat
    BY Finite DEF Committed, BookInv, TypeOK
  <2>1. Committed \in Nat /\ count \in Nat /\ Cardinality(inFlight) * PairCap \in Nat
    BY <2>a, <2>b
  <2>2. Committed' \in Nat
    BY Finite, FiniteNext DEF Committed, BookInv
  <2>3. QED
    BY <1>1, <1>3, <2>1, <2>2 DEF PlanOK
<1>4. CASE MainStep
  <2>1. CASE ReadPairs \/ PersistSubmit
    BY <1>1, <1>2, <2>1 DEF ReadPairs, PersistSubmit
  <2>2. CASE ~(ReadPairs \/ PersistSubmit)
    BY <1>1, <1>4, <2>2 DEF MainStep, PreloadFirst, EnterRaises, EnterWindow,
       Submit, SubmitNoMore, Wait, Settle, PersistSettle, ReadRaises, Abort,
       Drain, StopProvider,
       LeaveWindow, FinalRaises, Finish, LastWrite, ProcessGone
  <2>3. QED
    BY <2>1, <2>2
<1>5. ASSUME NEW v \in Video, WorkerStep(v)
      PROVE  Committed' <= count' + Cardinality(inFlight') * PairCap
  <2>1. pc' = pc /\ count' = count /\ inFlight' = inFlight
    BY <1>5 DEF WorkerStep, DiscoverRaises, Select, Skip, Emit, Reject, Return,
       workerFrame
  <2>2. QED
    BY <1>1, <1>3, <1>5, <2>1, WorkerCommitted
<1>6. CASE PrefetchRefused \/ PrefetchEnds \/ UNCHANGED vars
  <2>1. UNCHANGED <<pc, count, output, inFlight, phase, cap, todo>>
    BY <1>6 DEF PrefetchRefused, PrefetchEnds, vars
  <2>2. Committed' = Committed /\ Committed \in Nat
    BY <2>1, Finite DEF Committed, PairCount, Reserved, Left, BookInv
  <2>3. QED
    BY <1>1, <1>3, <2>1, <2>2
<1>7. CASE Start \/ Crash \/ Repair
  BY <1>1, <1>7 DEF Start, Crash, Repair, ProcessGone
<1>8. QED
  BY <1>4, <1>5, <1>6, <1>7 DEF Next

LEMMA StepTarget == ASSUME TargetInv, [Next]_vars PROVE TargetInv'
<1> USE DEF diskVars, loopVars, workerVars, envVars
<1>1. BookInv /\ PlanOK /\ NoOvershoot
  BY DEF TargetInv
<1>2. BookInv'
  BY <1>1, StepBook
<1>3. PlanOK'
  BY <1>1, <1>2, StepPlan
<1>4. /\ Committed \in Nat /\ Committed' \in Nat /\ Target \in Nat
      /\ ~ProcessAll => Committed <= Target
  BY <1>1, <1>2, Finite, FiniteNext, Constants DEF Committed, BookInv, NoOvershoot
<1>5. CASE Committed' <= Committed
  BY <1>2, <1>3, <1>4, <1>5 DEF TargetInv, NoOvershoot, Committed
<1>6. ASSUME NEW v \in Video, Submit(v) PROVE TargetInv'
  <2>1. ~ProcessAll => Committed' <= Target
    BY <1>1, <1>6, SubmitCommitted
  <2>2. QED
    BY <1>2, <1>3, <2>1 DEF TargetInv, NoOvershoot, Committed
<1>7. CASE MainStep /\ \A v \in Video : ~Submit(v)
  BY <1>1, <1>2, <1>5, <1>7, MainCommitted
<1>8. ASSUME NEW v \in Video, WorkerStep(v) PROVE TargetInv'
  BY <1>1, <1>2, <1>5, <1>8, WorkerCommitted
<1>9. CASE \/ Start \/ PrefetchRefused \/ PrefetchEnds \/ Repair \/ UNCHANGED vars
  <2>1. UNCHANGED <<output, inFlight, phase, cap, todo>>
    BY <1>9 DEF Start, PrefetchRefused, PrefetchEnds, Repair, vars
  <2>2. Committed' = Committed
    BY <2>1 DEF Committed, PairCount, Reserved, Left
  <2>3. QED
    BY <1>4, <1>5, <2>2
<1>10. CASE Crash
  <2>1. output' = output /\ inFlight' = {}
    BY <1>10 DEF Crash, ProcessGone
  <2>2. QED
    BY <1>1, <1>2, <1>5, <2>1, CommittedShrinks
<1>11. QED
  BY <1>6, <1>7, <1>8, <1>9, <1>10 DEF Next

LEMMA InitTarget == Init => TargetInv
<1> SUFFICES ASSUME Init PROVE TargetInv
  OBVIOUS
<1>1. BookInv
  BY InitBook
<1>2. output = {} /\ Reserved = {} /\ pc = "down"
  BY DEF Init, NoProcess, Reserved
<1>3. Committed = 0
  BY <1>2, FS_EmptySet DEF Committed, PairCount
<1>4. QED
  BY <1>1, <1>2, <1>3, Constants DEF TargetInv, PlanOK, NoOvershoot, Committed

\* "concurrent videos cannot overshoot the public pair target", for every
\* selection, window size, number of workers, cap and target, and over any
\* number of crashes and restarts.
THEOREM BuildNoOvershoot == Spec => []NoOvershoot
<1>1. Spec => []TargetInv
  BY InitTarget, StepTarget, PTL DEF Spec
<1>2. TargetInv => NoOvershoot
  BY DEF TargetInv
<1>3. QED
  BY <1>1, <1>2, PTL

-----------------------------------------------------------------------------
(* What a step may never do                                                 *)

\* A completed video stays completed in the status file.
THEOREM BuildCompletedIsFinal == Spec => CompletedIsFinal
<1>1. ASSUME BookInv, [Next]_vars, NEW v \in Video, saved[v].status = "completed"
      PROVE  saved'[v].status = "completed"
  <2> USE DEF diskVars
  <2>1. results[v].status = "completed"
    BY <1>1 DEF BookInv, QueueOK
  <2>2. CASE saved' = saved
    BY <1>1, <2>2
  <2>3. CASE saved' = results
    BY <2>1, <2>3
  <2>4. CASE Repair
    <3>1. PICK race \in SUBSET {w \in Video : saved[w].status = "failed"} :
             \A w \in Video : w \notin race /\ saved[w].status # "running"
                                => saved'[w] = saved[w]
      BY <2>4 DEF Repair
    <3>2. QED
      BY <1>1, <3>1
  <2>5. QED
    BY <1>1, <2>2, <2>3, <2>4 DEF Next, MainStep, Start, PreloadFirst, EnterRaises,
       EnterWindow, ReadPairs, Submit, PersistSubmit, SubmitNoMore, Wait, Settle,
       PersistSettle, ReadRaises, Abort, Drain, StopProvider, LeaveWindow,
       FinalRaises, Finish,
       LastWrite, WriteStatus, PrefetchRefused, PrefetchEnds, WorkerStep,
       DiscoverRaises, Select, Skip, Emit, Reject, Return, Crash, workerFrame, vars
<1>2. BookInv /\ [Next]_vars =>
        [\A v \in Video : saved[v].status = "completed"
                             => saved'[v].status = "completed"]_vars
  BY <1>1
<1>3. QED
  BY <1>2, BuildBookkeeping, PTL DEF Spec, CompletedIsFinal

-----------------------------------------------------------------------------
(* What the build has done when it reports the end of its sources           *)

\* The attempts of a video are over: it is completed, or it failed or lost its
\* process under the last of them; the build has what it wants.
Over(v) ==
    \/ results[v].status = "completed"
    \/ /\ results[v].status \in {"failed", "running"}
       /\ results[v].attempts >= MaxAttempts
       /\ v \notin inFlight

Served == budgetStop \/ PairCount >= Target

InLoop == {"loop", "plan", "submitted", "wait", "settle", "settled", "leave"}

\* A video that is neither over nor running has an attempt left.
Retriable(r) ==
    r.status \notin {"completed", "failed", "running"} => r.attempts < MaxAttempts

\* Every video of the window is queued, in flight or over, unless the provider
\* stop is about to leave the loop.
WindowOK ==
    /\ pc = "down" => window = 1
    /\ pc # "down" => state \in {"preloading", "running"}
    /\ \A v \in Video : Retriable(saved[v]) /\ Retriable(results[v])
    /\ \A v \in done : phase[v] \in {"ok", "raised"}
    /\ pc \in InLoop =>
         /\ pending \cup inFlight \subseteq WindowVideos(window)
         /\ \A v \in WindowVideos(window) :
               \/ v \in pending \cup inFlight
               \/ Over(v)
               \/ circuit /\ pc \in {"settle", "settled"}

\* The windows that were left, and at the end all of them, are over or the
\* build has what it wants.
PastOK ==
    /\ pc # "down" =>
         \A v \in Video : v <= (window - 1) * WindowSize => Over(v) \/ Served
    /\ pc = "final" => \A v \in Video : Over(v) \/ Served

SourcesInv == WindowOK /\ PastOK /\ SourcesAccounted

\* What the main thread leaves alone.
LEMMA MainFrame ==
    ASSUME MainStep
    PROVE  /\ pc # "down" /\ UNCHANGED output
           /\ WriteStatus \/ UNCHANGED budgetStop \/ pc' = "down"
           /\ pc' # "down" /\ ~LeaveWindow => UNCHANGED window /\ pc' # "final"
<1> USE DEF diskVars, loopVars
<1>1. CASE PreloadFirst
  BY <1>1 DEF PreloadFirst
<1>2. CASE EnterRaises \/ ReadRaises \/ Drain \/ FinalRaises
  BY <1>2 DEF EnterRaises, ReadRaises, Drain, FinalRaises
<1>3. CASE EnterWindow
  BY <1>3 DEF EnterWindow
<1>4. CASE ReadPairs
  BY <1>4 DEF ReadPairs
<1>5. ASSUME NEW v \in Video, Submit(v)
      PROVE  pc = "plan" /\ pc' = "submitted" /\ UNCHANGED <<output, budgetStop, window>>
  BY <1>5 DEF Submit
<1>6. CASE PersistSubmit
  BY <1>6 DEF PersistSubmit
<1>7. CASE SubmitNoMore \/ Wait
  BY <1>7 DEF SubmitNoMore, Wait
<1>8. ASSUME NEW v \in Video, Settle(v)
      PROVE  pc = "settle" /\ pc' = "settled" /\ UNCHANGED <<output, budgetStop, window>>
  BY <1>8 DEF Settle
<1>9. CASE PersistSettle
  BY <1>9 DEF PersistSettle
<1>10. CASE StopProvider \/ Abort \/ Finish
  BY <1>10 DEF StopProvider, Abort, Finish, LastWrite, ProcessGone
<1>11. CASE LeaveWindow
  BY <1>11 DEF LeaveWindow
<1> QED
  BY <1>1, <1>2, <1>3, <1>4, <1>5, <1>6, <1>7, <1>8, <1>9, <1>10, <1>11
     DEF MainStep

\* What a worker leaves alone.
LEMMA WorkerFrame ==
    ASSUME NEW v \in Video, WorkerStep(v)
    PROVE  UNCHANGED <<saved, state, pc, results, window, inFlight, budgetStop>>
  BY DEF WorkerStep, DiscoverRaises, Select, Skip, Emit, Reject, Return,
         workerFrame, loopVars

\* What the repair does beside mending the results.
LEMMA RepairFrame ==
    ASSUME Repair
    PROVE  /\ pc = "down" /\ pc' = "down" /\ UNCHANGED output
           /\ state' = "paused_for_repaired_restart"
  BY Zenon DEF Repair

\* Pairs are never lost.
LEMMA PairsGrow ==
    ASSUME TypeOK, TypeOK', [Next]_vars
    PROVE  PairCount' >= PairCount /\ PairCount \in Nat /\ PairCount' \in Nat
<1>1. output \subseteq output'
  <2>1. ASSUME NEW v \in Video, WorkerStep(v)
        PROVE  output \subseteq output'
    BY <2>1 DEF WorkerStep, DiscoverRaises, Select, Skip, Emit, Reject, Return
  <2>2. CASE MainStep
    BY <2>2, MainFrame
  <2>3. CASE Start \/ PrefetchRefused \/ PrefetchEnds \/ Crash \/ Repair
    BY <2>3, RepairFrame DEF Start, PrefetchRefused, PrefetchEnds, Crash, diskVars
  <2>4. CASE UNCHANGED vars
    BY <2>4 DEF vars, diskVars
  <2> QED
    BY <2>1, <2>2, <2>3, <2>4 DEF Next
<1>2. IsFiniteSet(output')
  <2>0. IsFiniteSet(Video)
    BY FS_Interval, Constants DEF Video
  <2>1. IsFiniteSet(Video \X Fact)
    BY <2>0, FS_Product, Constants
  <2>2. output' \subseteq Video \X Fact
    BY DEF TypeOK
  <2> QED
    BY <2>1, <2>2, FS_Subset
<1> QED
  BY <1>1, <1>2, FS_Subset, FS_CardinalityType DEF PairCount

\* A settled video is over, queued again, or refused by an open circuit.
LEMMA SettleOutcome ==
    ASSUME BookInv, WindowOK, NEW v \in Video, Settle(v)
    PROVE  /\ Retriable(results'[v]) /\ inFlight' = inFlight \ {v}
           /\ v \in pending' \/ Over(v)' \/ circuit'
           /\ \A u \in Video \ {v} : results'[u] = results[u]
           /\ pending \subseteq pending' /\ pending' \subseteq pending \cup {v}
<1> DEFINE a == results[v].attempts
<1>1. /\ results[v] \in Result /\ a \in 0..MaxAttempts
      /\ v \in done /\ phase[v] \in {"ok", "raised"} /\ UNCHANGED circuit
      /\ results \in [Video -> Result]
  BY DEF BookInv, TypeOK, WindowOK, Settle, Result
<1>2. /\ Refunded(a) < MaxAttempts /\ Refunded(a) \in 0..MaxAttempts
  BY <1>1, Constants DEF Refunded
<1>3. /\ \A u \in Video \ {v} : results'[u] = results[u]
      /\ inFlight' = inFlight \ {v}
      /\ pending \subseteq pending' /\ pending' \subseteq pending \cup {v}
  BY <1>1 DEF Settle
<1>4. CASE phase[v] = "ok"
  <2>1. results'[v] = [results[v] EXCEPT !.status = "completed",
                                         !.rejected = rejected[v]]
    BY <1>1, <1>4 DEF Settle
  <2>2. results'[v].status = "completed"
    BY <1>1, <2>1 DEF Result
  <2> QED
    BY <1>3, <2>2 DEF Over, Retriable
<1>5. CASE phase[v] = "raised" /\ circuit
  <2>1. results'[v] = [results[v] EXCEPT !.status = "pending_provider_stop",
                                         !.attempts = Refunded(a)]
    BY <1>1, <1>5 DEF Settle
  <2>2. /\ results'[v].status = "pending_provider_stop"
        /\ results'[v].attempts = Refunded(a)
    BY <1>1, <2>1 DEF Result
  <2> QED
    BY <1>1, <1>2, <1>3, <1>5, <2>2 DEF Retriable
<1>6. CASE phase[v] = "raised" /\ ~circuit
  <2>1. results'[v] = [results[v] EXCEPT !.status = "failed"]
    BY <1>1, <1>6 DEF Settle
  <2>2. results'[v].status = "failed" /\ results'[v].attempts = a
    BY <1>1, <2>1 DEF Result
  <2>3. a < MaxAttempts => v \in pending'
    BY <1>6 DEF Settle
  <2> QED
    BY <1>1, <1>3, <2>2, <2>3, Constants DEF Over, Retriable
<1> QED
  BY <1>1, <1>4, <1>5, <1>6

LEMMA WindowStep ==
    ASSUME BookInv, BookInv', WindowOK, [Next]_vars
    PROVE  WindowOK'
<1> USE DEF InLoop, loopVars, workerVars, diskVars, envVars, workerFrame
<1>1. ASSUME UNCHANGED <<window, state, results, saved, inFlight, pending, done,
                         phase, circuit>>,
             pc' \in InLoop => pc \in InLoop \ {"settle", "settled"},
             pc # "down", pc' # "down"
      PROVE  WindowOK'
  BY <1>1 DEF WindowOK, Over
<1>2. ASSUME ProcessGone,
             \/ saved' = results /\ UNCHANGED results
             \/ results' = saved /\ UNCHANGED saved
      PROVE  WindowOK'
  BY <1>2 DEF WindowOK, ProcessGone
<1>3. CASE Start
  <2>1. results' = saved /\ saved' = saved /\ pc' = "preload"
        /\ UNCHANGED <<window, done, phase>> /\ state' = "preloading"
        /\ pc = "down"
    BY <1>3 DEF Start, WriteStatus
  <2> QED
    BY <2>1 DEF WindowOK
<1>4. CASE PreloadFirst
  BY <1>4 DEF PreloadFirst, WindowOK
<1>5. CASE EnterRaises \/ FinalRaises
  BY <1>5, <1>1 DEF EnterRaises, FinalRaises
<1>6. CASE EnterWindow
  <2>1. /\ pending' = Queued(window) /\ inFlight = {} /\ saved' = results
        /\ state' = "running" /\ pc' = "loop" /\ pc = "enter"
        /\ UNCHANGED <<results, window, inFlight, done, phase, circuit>>
    BY <1>6 DEF EnterWindow, WriteStatus, BookInv, Quiet
  <2>2. \A v \in WindowVideos(window) : v \in Queued(window) \/ Over(v)
    <3>1. ASSUME NEW v \in WindowVideos(window), v \notin Queued(window)
          PROVE  Over(v)
      <4>1. v \in Video /\ results[v] \in Result
        BY DEF WindowVideos, BookInv, TypeOK
      <4>2. Retriable(results[v]) /\ v \notin inFlight
        BY <2>1, <4>1 DEF WindowOK
      <4>3. results[v].attempts \in 0..MaxAttempts
        BY <4>1 DEF Result
      <4> QED
        BY <3>1, <4>2, <4>3, Constants DEF Queued, Retriable, Over
    <3> QED
      BY <3>1
  <2>3. Queued(window) \subseteq WindowVideos(window)
    BY DEF Queued
  <2> QED
    BY <2>1, <2>2, <2>3 DEF WindowOK, Over
<1>7. CASE ReadPairs
  BY <1>7, <1>1 DEF ReadPairs
<1>8. ASSUME NEW v \in Video, Submit(v)
      PROVE  WindowOK'
  <2>1. /\ v \in pending /\ pending' = pending \ {v}
        /\ inFlight' = inFlight \cup {v} /\ v \notin inFlight
        /\ results'[v].status = "running"
        /\ \A u \in Video \ {v} : results'[u] = results[u]
        /\ phase' = [phase EXCEPT ![v] = "discover"]
        /\ UNCHANGED <<saved, state, window, done, circuit>>
        /\ pc = "plan" /\ pc' = "submitted"
    BY <1>8 DEF Submit, BookInv, TypeOK, QueueOK
  <2>2. v \notin done
    BY <2>1 DEF BookInv, TypeOK
  <2>3. \A u \in done : phase'[u] \in {"ok", "raised"}
    BY <2>1, <2>2 DEF WindowOK, BookInv, TypeOK
  <2>4. \A u \in Video : Retriable(results'[u])
    BY <2>1 DEF WindowOK, Retriable
  <2>5. \A u \in WindowVideos(window) : u \in pending' \cup inFlight' \/ Over(u)'
    <3>1. ASSUME NEW u \in WindowVideos(window), u # v,
                 u \notin pending' \cup inFlight'
          PROVE  Over(u)'
      <4>1. u \in Video /\ Over(u)
        BY <2>1, <3>1 DEF WindowOK, WindowVideos
      <4> QED
        BY <2>1, <3>1, <4>1 DEF Over
    <3> QED
      BY <2>1, <3>1
  <2> QED
    BY <2>1, <2>3, <2>4, <2>5 DEF WindowOK, WindowVideos
<1>9. CASE PersistSubmit
  BY <1>9 DEF PersistSubmit, WriteStatus, WindowOK, Over
<1>10. CASE SubmitNoMore
  BY <1>10, <1>1 DEF SubmitNoMore
<1>11. CASE Wait
  BY <1>11 DEF Wait, WindowOK, Over, Ended
<1>12. ASSUME NEW v \in Video, Settle(v)
       PROVE  WindowOK'
  <2>1. /\ done' = done \ {v} /\ inFlight' = inFlight \ {v}
        /\ phase' = [phase EXCEPT ![v] = "none"]
        /\ pc = "settle" /\ pc' = "settled"
        /\ UNCHANGED <<saved, state, window, circuit>>
        /\ v \in inFlight /\ phase \in [Video -> {"none", "discover", "build",
                                                  "ok", "raised"}]
    BY <1>12 DEF Settle, Forget, BookInv, TypeOK
  <2>2. /\ Retriable(results'[v])
        /\ v \in pending' \/ Over(v)' \/ circuit'
        /\ \A u \in Video \ {v} : results'[u] = results[u]
        /\ pending \subseteq pending' /\ pending' \subseteq pending \cup {v}
    BY <1>12, SettleOutcome
  <2>3. \A u \in done' : phase'[u] \in {"ok", "raised"}
    BY <2>1 DEF WindowOK, BookInv, TypeOK
  <2>4. \A u \in Video : Retriable(results'[u]) /\ Retriable(saved'[u])
    BY <2>1, <2>2 DEF WindowOK
  <2>6. \A u \in WindowVideos(window) :
           u \in pending' \cup inFlight' \/ Over(u)' \/ circuit'
    <3>1. ASSUME NEW u \in WindowVideos(window), u # v,
                 u \notin pending' \cup inFlight', ~circuit'
          PROVE  Over(u)'
      <4>1. u \in Video /\ Over(u)
        BY <2>1, <2>2, <3>1 DEF WindowOK, WindowVideos
      <4> QED
        BY <2>1, <2>2, <3>1, <4>1 DEF Over
    <3> QED
      BY <2>2, <3>1
  <2>7. pending' \cup inFlight' \subseteq WindowVideos(window)
    BY <2>1, <2>2 DEF WindowOK
  <2> QED
    BY <2>1, <2>3, <2>4, <2>6, <2>7 DEF WindowOK, WindowVideos
<1>13. CASE PersistSettle
  BY <1>13 DEF PersistSettle, WriteStatus, WindowOK, Over
<1>14. CASE Drain
  BY <1>14, <1>1 DEF Drain
<1>15. CASE StopProvider \/ Finish
  <2>1. ProcessGone /\ saved' = results /\ UNCHANGED results
    BY <1>15 DEF StopProvider, Finish, LastWrite
  <2> QED
    BY <1>2, <2>1
<1>16. CASE LeaveWindow
  BY <1>16 DEF LeaveWindow, WriteStatus, WindowOK
<1>17. CASE PrefetchRefused \/ PrefetchEnds
  BY <1>17 DEF PrefetchRefused, PrefetchEnds, WindowOK, Over
<1>18. ASSUME NEW v \in Video, WorkerStep(v)
       PROVE  WindowOK'
  <2>0. UNCHANGED <<saved, state, pc, results, window, pending, inFlight, done>>
    BY <1>18 DEF WorkerStep, DiscoverRaises, Select, Skip, Emit, Reject, Return
  <2>1. circuit => circuit'
    <3>1. CASE DiscoverRaises(v)
      BY <3>1, Zenon DEF DiscoverRaises
    <3>2. CASE ~DiscoverRaises(v)
      BY <1>18, <3>2, Zenon DEF WorkerStep, Select, Skip, Emit, Reject, Return
    <3> QED
      BY <3>1, <3>2
  <2>2. /\ phase[v] \in {"discover", "build"}
        /\ \A u \in Video \ {v} : phase'[u] = phase[u]
    BY <1>18 DEF WorkerStep, DiscoverRaises, Select, Skip, Emit, Reject, Return,
                 Handles, BookInv, TypeOK
  <2>3. \A u \in done : phase'[u] \in {"ok", "raised"}
    BY <2>2 DEF WindowOK, BookInv, TypeOK
  <2> QED
    BY <2>0, <2>1, <2>3 DEF WindowOK, Over
<1>19. CASE Crash
  BY <1>19, <1>2 DEF Crash
<1>20. CASE Repair
  <2> DEFINE given(r) == [r EXCEPT !.status = "pending_infrastructure_retry",
                                   !.attempts = Refunded(r.attempts)]
             Mended(repaired) ==
                saved' = [v \in Video |-> IF v \in repaired THEN given(saved[v])
                                         ELSE saved[v]]
  <2>1. PICK repaired : Mended(repaired)
    BY <1>20, Zenon DEF Repair
  <2>2. ASSUME NEW v \in Video
        PROVE  Retriable(saved'[v])
    <3>1. saved[v] \in Result /\ saved[v].attempts \in 0..MaxAttempts
      BY DEF BookInv, TypeOK, Result
    <3>2. Refunded(saved[v].attempts) < MaxAttempts
      BY <3>1, Constants DEF Refunded
    <3>3. given(saved[v]).attempts = Refunded(saved[v].attempts)
      BY <3>1 DEF Result
    <3>4. Retriable(saved[v])
      BY DEF WindowOK
    <3> HIDE DEF given
    <3>5. saved'[v] = given(saved[v]) \/ saved'[v] = saved[v]
      BY <2>1
    <3> QED
      BY <3>2, <3>3, <3>4, <3>5 DEF Retriable
  <2>3. /\ results' = saved' /\ pc = "down" /\ pc' = "down"
        /\ UNCHANGED <<window, done, phase>>
    BY <1>20, Zenon DEF Repair
  <2> HIDE DEF Mended
  <2> QED
    BY <2>2, <2>3 DEF WindowOK
<1>21. CASE UNCHANGED vars
  BY <1>21 DEF vars, WindowOK, Over
<1>22. CASE ReadRaises
  BY <1>22 DEF ReadRaises, WindowOK
<1>23. CASE Abort
  BY <1>23, <1>2 DEF Abort
<1> QED
  BY <1>3, <1>4, <1>5, <1>6, <1>7, <1>8, <1>9, <1>10, <1>11, <1>12, <1>13,
     <1>14, <1>15, <1>16, <1>17, <1>18, <1>19, <1>20, <1>21, <1>22, <1>23
  DEF Next, MainStep

\* Rounding up.
LEMMA Division ==
    ASSUME NEW n \in Nat \ {0}, NEW m \in Nat \ {0}
    PROVE  n <= ((n + m - 1) \div m) * m
<1>1. /\ n + m - 1 = m * ((n + m - 1) \div m) + ((n + m - 1) % m)
      /\ (n + m - 1) % m \in 0..(m - 1)
      /\ (n + m - 1) \div m \in Nat
  OBVIOUS
<1>2. ASSUME NEW k \in Nat, NEW r \in 0..(m - 1), n + m - 1 = m * k + r
      PROVE  n <= k * m
  BY <1>2
<1> QED
  BY <1>1, <1>2

\* The windows cover the selection.
LEMMA WindowsCover == NumVideos <= NumWindows * WindowSize
<1>1. NumVideos \in Nat \ {0} /\ WindowSize \in Nat \ {0}
  BY BuildAssumption DEF BuildAssumption
<1> QED
  BY <1>1, Division, Zenon DEF NumWindows

\* What the build wants stays served as long as its process lives.
LEMMA ServedStays ==
    ASSUME TypeOK, TypeOK', [Next]_vars, Served, pc' # "down"
    PROVE  Served'
<1>1. CASE PairCount >= Target
  BY <1>1, PairsGrow, Constants DEF Served
<1>2. CASE budgetStop
  <2>1. budgetStop'
    <3>1. ASSUME NEW v \in Video, WorkerStep(v)
          PROVE  budgetStop'
      BY <1>2, <3>1, WorkerFrame
    <3>2. CASE WriteStatus
      BY <1>2, <3>2, Zenon DEF WriteStatus
    <3>3. CASE UNCHANGED budgetStop
      BY <1>2, <3>3
    <3>4. CASE MainStep
      BY <3>2, <3>3, <3>4, MainFrame
    <3>5. CASE Start
      BY <3>2, <3>5 DEF Start
    <3>6. CASE PrefetchRefused \/ PrefetchEnds
      BY <3>3, <3>6 DEF PrefetchRefused, PrefetchEnds
    <3>7. CASE Crash \/ Repair
      BY <3>7, RepairFrame DEF Crash, ProcessGone
    <3>8. CASE UNCHANGED vars
      BY <3>3, <3>8 DEF vars
    <3> QED
      BY <3>1, <3>4, <3>5, <3>6, <3>7, <3>8 DEF Next
  <2> QED
    BY <2>1 DEF Served
<1> QED
  BY <1>1, <1>2 DEF Served

\* A step within a window leaves the videos of the windows before it alone.
LEMMA PastAlone ==
    ASSUME BookInv, WindowOK, [Next]_vars, pc # "down", pc' # "down",
           NEW v \in Video, v <= (window - 1) * WindowSize
    PROVE  results'[v] = results[v] /\ (v \in inFlight' => v \in inFlight)
<1> USE DEF InLoop, loopVars
<1>1. CASE UNCHANGED <<results, inFlight>>
  BY <1>1
<1>2. ASSUME NEW u \in Video, Submit(u) \/ Settle(u)
      PROVE  results'[v] = results[v] /\ (v \in inFlight' => v \in inFlight)
  <2>1. pc \in InLoop /\ u \in pending \cup inFlight
    BY <1>2 DEF Submit, Settle, BookInv, TypeOK
  <2>2. u \in WindowVideos(window)
    BY <2>1 DEF WindowOK
  <2>3. u # v
    BY <2>2, Constants DEF WindowVideos, BookInv, TypeOK, Video
  <2>4. CASE Submit(u)
    BY <2>3, <2>4 DEF Submit, BookInv, TypeOK
  <2>5. CASE Settle(u)
    BY <2>3, <2>5, SettleOutcome
  <2> QED
    BY <1>2, <2>4, <2>5
<1>3. CASE MainStep
  BY <1>1, <1>2, <1>3 DEF MainStep, PreloadFirst, EnterRaises, EnterWindow,
     ReadPairs, PersistSubmit, SubmitNoMore, Wait, PersistSettle, ReadRaises,
     Abort, Drain, StopProvider, LeaveWindow, FinalRaises, Finish, LastWrite,
     ProcessGone
<1>4. CASE PrefetchRefused \/ PrefetchEnds
  BY <1>1, <1>4 DEF PrefetchRefused, PrefetchEnds
<1>5. ASSUME NEW u \in Video, WorkerStep(u)
      PROVE  UNCHANGED <<results, inFlight>>
  BY <1>5, WorkerFrame
<1>6. CASE UNCHANGED vars
  BY <1>1, <1>6 DEF vars
<1>7. CASE Start \/ Crash \/ Repair
  BY <1>7, RepairFrame DEF Start, Crash, ProcessGone
<1> QED
  BY <1>1, <1>3, <1>4, <1>5, <1>6, <1>7 DEF Next

LEMMA PastStep ==
    ASSUME BookInv, BookInv', WindowOK, WindowOK', PastOK, [Next]_vars
    PROVE  PastOK'
<1> SUFFICES ASSUME pc' # "down"
             PROVE  PastOK'
  BY DEF PastOK
<1>0. TypeOK /\ TypeOK' /\ window \in Nat /\ window' \in Nat
  BY DEF BookInv, TypeOK
<1>1. CASE Start
  <2>1. window' = 1 /\ pc' = "preload"
    BY <1>1 DEF Start, WindowOK, loopVars
  <2> QED
    BY <2>1, Constants DEF PastOK, Video
<1>2. CASE LeaveWindow
  <2>1. /\ pc = "leave" /\ inFlight = {} /\ UNCHANGED results
        /\ (pending # {} => Served)
    BY <1>2 DEF LeaveWindow, BookInv, Quiet, NothingAbandoned, Served
  <2>2. ASSUME NEW v \in Video, v <= window * WindowSize
        PROVE  Over(v) \/ Served
    <3>1. CASE v <= (window - 1) * WindowSize
      BY <2>1, <3>1 DEF PastOK
    <3>2. CASE ~(v <= (window - 1) * WindowSize)
      <4>1. v \in WindowVideos(window)
        BY <1>0, <2>2, <3>2, Constants DEF WindowVideos, Video
      <4>2. v \in pending \cup inFlight \/ Over(v)
        BY <2>1, <4>1 DEF WindowOK, InLoop
      <4> QED
        BY <2>1, <4>2
    <3> QED
      BY <3>1, <3>2
  <2>6. UNCHANGED inFlight
    BY <1>2 DEF LeaveWindow
  <2>3. ASSUME NEW v \in Video, v <= window * WindowSize
        PROVE  Over(v)' \/ Served'
    BY <1>0, <2>1, <2>2, <2>3, <2>6, ServedStays DEF Over
  <2>4. CASE pc' = "enter" /\ window' = window + 1
    <3>1. (window' - 1) * WindowSize = window * WindowSize
      BY <1>0, <2>4, Constants
    <3> QED
      BY <2>3, <2>4, <3>1 DEF PastOK
  <2>5. CASE pc' = "final" /\ UNCHANGED window
    <3>1. Served' \/ window = NumWindows
      BY <1>2, <2>5 DEF LeaveWindow, Served, PairCount
    <3>2. CASE Served'
      BY <3>2 DEF PastOK
    <3>3. CASE window = NumWindows
      <4>1. \A v \in Video : v <= window * WindowSize
        BY <1>0, <3>3, WindowsCover, Constants DEF Video
      <4>2. \A v \in Video : Over(v)' \/ Served'
        BY <2>3, <4>1
      <4> QED
        BY <4>2 DEF PastOK
    <3> QED
      BY <3>1, <3>2, <3>3
  <2> QED
    BY <1>2, <2>4, <2>5 DEF LeaveWindow
<1>3. CASE ~Start /\ ~LeaveWindow
  <2>1. /\ pc # "down" /\ UNCHANGED window
        /\ pc' = "final" => pc = "final" /\ UNCHANGED <<results, inFlight>>
    <3>1. CASE MainStep
      BY <1>3, <3>1, MainFrame
    <3>2. CASE PrefetchRefused \/ PrefetchEnds
      BY <3>2 DEF PrefetchRefused, PrefetchEnds, loopVars
    <3>3. ASSUME NEW v \in Video, WorkerStep(v)
          PROVE  UNCHANGED <<pc, window, results, inFlight>>
      BY <3>3, WorkerFrame
    <3>4. CASE Crash \/ Repair
      BY <3>4, RepairFrame DEF Crash, ProcessGone
    <3>5. CASE UNCHANGED vars
      BY <3>5 DEF vars, loopVars
    <3> QED
      BY <1>3, <3>1, <3>2, <3>3, <3>4, <3>5 DEF Next
  <2>2. ASSUME NEW v \in Video, v <= (window' - 1) * WindowSize
        PROVE  Over(v)' \/ Served'
    <3>1. Over(v) \/ Served
      BY <2>1, <2>2 DEF PastOK
    <3>2. results'[v] = results[v] /\ (v \in inFlight' => v \in inFlight)
      BY <2>1, <2>2, PastAlone
    <3> QED
      BY <1>0, <3>1, <3>2, ServedStays DEF Over
  <2>3. ASSUME pc' = "final", NEW v \in Video
        PROVE  Over(v)' \/ Served'
    BY <1>0, <2>1, <2>3, ServedStays DEF PastOK, Over
  <2> QED
    BY <2>2, <2>3 DEF PastOK
<1> QED
  BY <1>1, <1>2, <1>3

LEMMA FinishSources ==
    ASSUME BookInv, PastOK, Finish
    PROVE  SourcesAccounted'
<1>1. saved' = results /\ state' = FinalState /\ pc = "final"
  BY DEF Finish, LastWrite
<1>2. ASSUME state' \in {"completed_sources", "completed_with_failures"},
             NEW v \in Video
      PROVE  \/ saved'[v].status = "completed"
             \/ saved'[v].status = "running" /\ saved'[v].attempts = MaxAttempts
             \/ /\ saved'[v].status = "failed" /\ saved'[v].attempts = MaxAttempts
                /\ state' = "completed_with_failures"
  <2>1. /\ ~Served
        /\ state' = "completed_sources" => Exhausted = {}
    BY <1>1, <1>2, Finite, Constants DEF FinalState, Served, BookInv
  <2>2. Over(v)
    BY <1>1, <2>1 DEF PastOK
  <2>3. results[v].attempts \in 0..MaxAttempts
    BY DEF BookInv, TypeOK, Result
  <2>4. results[v].attempts >= MaxAttempts => results[v].attempts = MaxAttempts
    BY <2>3, Constants
  <2> QED
    BY <1>1, <1>2, <2>1, <2>2, <2>4 DEF Over, Exhausted
<1> QED
  BY <1>2 DEF SourcesAccounted

LEMMA SourcesStep ==
    ASSUME BookInv, BookInv', SourcesInv, [Next]_vars
    PROVE  SourcesInv'
<1>1. WindowOK' /\ PastOK'
  BY WindowStep, PastStep DEF SourcesInv
<1>3. SourcesAccounted'
  <2>1. CASE pc' # "down"
    BY <2>1 DEF SourcesAccounted
  <2>2. CASE Finish
    BY <2>2, FinishSources DEF SourcesInv
  <2>3. CASE StopProvider
    BY <2>3 DEF StopProvider, LastWrite, SourcesAccounted
  <2>4. CASE Crash \/ Abort
    BY <2>4 DEF Crash, Abort, diskVars, SourcesAccounted, SourcesInv, WindowOK
  <2>5. CASE Repair
    BY <2>5, RepairFrame DEF SourcesAccounted
  <2>6. ASSUME pc' = "down", ~Finish, ~StopProvider, ~Crash, ~Abort, ~Repair
        PROVE  UNCHANGED <<pc, saved, state>>
    <3>1. CASE MainStep
      BY <2>6, <3>1 DEF MainStep, PreloadFirst, EnterRaises, EnterWindow,
         ReadPairs, Submit, PersistSubmit, SubmitNoMore, Wait, Settle,
         PersistSettle, ReadRaises, Drain, LeaveWindow, FinalRaises
    <3>2. CASE Start
      BY <2>6, <3>2 DEF Start
    <3>3. CASE PrefetchRefused \/ PrefetchEnds
      BY <3>3 DEF PrefetchRefused, PrefetchEnds, diskVars
    <3>4. ASSUME NEW v \in Video, WorkerStep(v)
          PROVE  UNCHANGED <<pc, saved, state>>
      BY <3>4, WorkerFrame
    <3>5. CASE UNCHANGED vars
      BY <3>5 DEF vars, diskVars
    <3> QED
      BY <2>6, <3>1, <3>2, <3>3, <3>4, <3>5 DEF Next
  <2>7. CASE UNCHANGED <<pc, saved, state>>
    BY <2>7 DEF SourcesInv, SourcesAccounted
  <2> QED
    BY <2>1, <2>2, <2>3, <2>4, <2>5, <2>6, <2>7
<1> QED
  BY <1>1, <1>3 DEF SourcesInv

LEMMA SourcesStart == Init => SourcesInv
<1> SUFFICES ASSUME Init
             PROVE  SourcesInv
  OBVIOUS
<1>1. WindowOK
  BY Constants DEF Init, NoProcess, WindowOK, Retriable, NewResult, InLoop
<1>2. PastOK /\ SourcesAccounted
  BY DEF Init, NoProcess, PastOK, SourcesAccounted
<1> QED
  BY <1>1, <1>2 DEF SourcesInv

\* A build that ends with its sources walked has completed every video but
\* those whose attempts are spent, on failures or, unreported, on processes
\* that died under the last one: for every selection, window and number of
\* workers, and over any number of starts, deaths and repairs.
THEOREM BuildSourcesAccounted == Spec => []SourcesAccounted
<1>1. Init => SourcesInv
  BY SourcesStart
<1>2. BookInv /\ BookInv' /\ SourcesInv /\ [Next]_vars => SourcesInv'
  BY SourcesStep
<1>3. SourcesInv => SourcesAccounted
  BY DEF SourcesInv
<1> QED
  BY <1>1, <1>2, <1>3, BuildBookkeeping, PTL DEF Spec

=============================================================================
