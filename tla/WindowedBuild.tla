---------------------------- MODULE WindowedBuild ----------------------------
(***************************************************************************)
(* The windowed scheduler of a dataset build and its video workers         *)
(* (src/videohalo/windowed_build.py, LiveBuildRunner.run of live_build.py).*)
(*                                                                         *)
(* The main thread walks the windows of the selection.  In a window it     *)
(* submits videos to a thread pool as submission_plan allows, waits for    *)
(* the first of them to end, settles their results and writes the status   *)
(* file, while a prefetch thread uploads the next window.  A worker reads  *)
(* the video (discovery), selects facts and appends one pair per accepted  *)
(* candidate to the public file.  The process may be killed at any step    *)
(* and started again from the status file.                                 *)
(*                                                                         *)
(* One process at a time: RunLock says when that holds.  An append is one  *)
(* step: JsonlStore shows that its critical section makes it one.          *)
(***************************************************************************)
EXTENDS Integers, Sequences, FiniteSets, Functions

CONSTANTS NumVideos,    \* videos of the selection, in its order
          WindowSize,   \* window_size
          Workers,      \* video_workers
          PairCap,      \* per_video_pair_cap
          Target,       \* target_pairs
          MaxAttempts,  \* max_video_attempts
          ProcessAll,   \* process_all_videos
          HasBudget,    \* a budget policy is configured
          AuthMayFail,  \* the provider may refuse the credentials
          Fact,         \* source_fact_id values within a video
          MaxStarts,    \* bound on process starts
          MaxCrashes    \* bound on process deaths

ASSUME BuildAssumption ==
    /\ {NumVideos, WindowSize, Workers, PairCap, Target, MaxAttempts}
         \subseteq Nat \ {0}
    /\ {ProcessAll, HasBudget, AuthMayFail} \subseteq BOOLEAN
    /\ IsFiniteSet(Fact)
    /\ MaxStarts \in Nat /\ MaxCrashes \in Nat

VARIABLES
    \* on disk
    output,      \* the public pairs: <<video, fact>>, which is the pair_id
    saved,       \* "results" of the status file
    state,       \* "state" of the status file
    \* main thread
    pc,          \* its place in run / _process_window, "down": no process
    results,     \* self.status["results"]
    window,      \* the window being processed
    pending,     \* the videos in the deque of the window
    inFlight,    \* the submitted videos not settled yet
    done,        \* the futures wait() returned and not settled yet
    count,       \* current_pairs, read before the plan
    budgetStop,  \* budget_stop_reached
    \* threads of the process
    circuit,     \* PROVIDER_CIRCUIT.is_open
    prefetch,    \* next_future
    phase,       \* where the worker of each video is
    cap,         \* the pair cap it was submitted with
    todo,        \* the selected facts it has not handled yet
    seen,        \* the facts whose pair it found in the file
    rejected,    \* the kinds of rejection_reasons it collected
    \* environment
    starts, crashes

diskVars    == <<output, saved, state>>
loopVars    == <<window, pending, inFlight, done, count>>
workerVars  == <<phase, cap, todo, seen, rejected>>
envVars     == <<starts, crashes>>
vars == <<diskVars, pc, results, loopVars, budgetStop, circuit, prefetch,
          workerVars, envVars>>

Video == 1..NumVideos

\* A candidate fails a quality gate, the duplicate or target gate of the
\* file, or a provider call that finds the circuit open or opens it.
Reason == {"quality", "gate", "provider"}

Status == {"new", "running", "completed", "failed", "pending_provider_stop",
           "pending_infrastructure_retry"}

Result == [status : Status, attempts : 0..MaxAttempts, rejected : SUBSET Reason]

NewResult == [status |-> "new", attempts |-> 0, rejected |-> {}]

TypeOK ==
    /\ output \subseteq Video \X Fact
    /\ saved \in [Video -> Result]
    /\ state \in {"initialized", "preloading", "running", "completed_target",
                  "stopped_budget", "completed_sources",
                  "completed_with_failures", "stopped_provider_auth",
                  "paused_for_repaired_restart"}
    /\ pc \in {"down", "preload", "enter", "loop", "plan", "submitted", "wait",
               "settle", "settled", "leave", "final", "drain", "stop",
               "abort"}
    /\ results \in [Video -> Result]
    /\ window \in Nat
    /\ pending \subseteq Video
    /\ inFlight \subseteq Video
    /\ done \subseteq inFlight
    /\ count \in Nat
    /\ budgetStop \in BOOLEAN
    /\ circuit \in BOOLEAN
    /\ prefetch \in {"none", "running", "ready", "raised"}
    /\ phase \in [Video -> {"none", "discover", "build", "ok", "raised"}]
    /\ cap \in [Video -> 0..PairCap]
    /\ todo \in [Video -> Seq(Fact)]
    /\ seen \in [Video -> SUBSET Fact]
    /\ rejected \in [Video -> SUBSET Reason]
    /\ starts \in Nat /\ crashes \in Nat

-----------------------------------------------------------------------------
(* submission_plan and split_windows *)

Lesser(m, n) == IF m < n THEN m ELSE n

\* Mutation of SubmissionCap: the pairs in flight are forgotten.
CapIgnoringInFlight(current, n) ==
    LET remaining == Target - current
    IN  IF remaining <= 0 \/ n >= Workers THEN 0
        ELSE Lesser(PairCap, remaining)

\* Mutation of SubmissionCap: no single submission near the target.
CapOnlyConcurrent(current, n) ==
    LET remaining == Target - current
    IN  IF remaining < (n + 1) * PairCap \/ n >= Workers THEN 0 ELSE PairCap

\* submission_plan with n videos in flight: the cap of the next submission,
\* 0 where the code says None.
SubmissionCap(current, n) ==
    LET remaining == Target - current
        desired == IF remaining >= Workers * PairCap THEN Workers ELSE 1
    IN  IF remaining <= 0 \/ n >= desired THEN 0
        ELSE IF desired = 1 THEN Lesser(PairCap, remaining)
        ELSE IF remaining < (n + 1) * PairCap THEN 0
        ELSE PairCap

\* The choice between budget stop, process_all_videos and submission_plan
\* that precedes every submission.
NextCap ==
    IF budgetStop THEN 0
    ELSE IF ProcessAll
      THEN IF Cardinality(inFlight) < Workers THEN PairCap ELSE 0
    ELSE SubmissionCap(count, Cardinality(inFlight))

NumWindows == (NumVideos + WindowSize - 1) \div WindowSize

WindowVideos(w) ==
    {v \in Video : (w - 1) * WindowSize < v /\ v <= w * WindowSize}

\* Mutation of Queued: completed videos are queued again.
QueuedCompleted(w) ==
    {v \in WindowVideos(w) : results[v].attempts < MaxAttempts}

\* Mutation of Queued: attempts are unbounded over restarts.
QueuedExhausted(w) ==
    {v \in WindowVideos(w) : results[v].status # "completed"}

\* The videos _process_window queues: not completed, attempts left.  The
\* deque holds a video at most once; its order is left open, so that what is
\* checked holds whichever queued video is next.
Queued(w) ==
    {v \in WindowVideos(w) : /\ results[v].status # "completed"
                             /\ results[v].attempts < MaxAttempts}

\* The facts select_faithful_relative may return, at most n, in its order.
Selections(n) ==
    {s \in UNION {[1..k -> Fact] : k \in 0..n} : IsInjective(s)}

PairCount == Cardinality(output)

\* max(0, attempts - 1): an attempt that does not count.
Refunded(attempts) == IF attempts > 0 THEN attempts - 1 ELSE 0

-----------------------------------------------------------------------------
\* The memory of a build process that has not started.
NoProcess ==
    /\ pc = "down"
    /\ window = 1 /\ pending = {} /\ inFlight = {} /\ done = {} /\ count = 0
    /\ budgetStop = FALSE
    /\ circuit = FALSE
    /\ prefetch = "none"
    /\ phase = [v \in Video |-> "none"]
    /\ cap = [v \in Video |-> 0]
    /\ todo = [v \in Video |-> << >>]
    /\ seen = [v \in Video |-> {}]
    /\ rejected = [v \in Video |-> {}]

\* A process that returns or dies takes its memory with it.
ProcessGone ==
    /\ pc' = "down"
    /\ window' = 1 /\ pending' = {} /\ inFlight' = {} /\ done' = {} /\ count' = 0
    /\ budgetStop' = FALSE
    /\ circuit' = FALSE
    /\ prefetch' = "none"
    /\ phase' = [v \in Video |-> "none"]
    /\ cap' = [v \in Video |-> 0]
    /\ todo' = [v \in Video |-> << >>]
    /\ seen' = [v \in Video |-> {}]
    /\ rejected' = [v \in Video |-> {}]

Init ==
    /\ output = {}
    /\ saved = [v \in Video |-> NewResult]
    /\ state = "initialized"
    /\ results = saved
    /\ NoProcess
    /\ starts = 0 /\ crashes = 0

\* _write_status: the refresh may find the estimated cost at the stop line
\* (never below it again: the flag is only ever set), then the results go to
\* disk in one atomic replace.
WriteStatus ==
    /\ saved' = results'
    /\ budgetStop' \in {budgetStop, budgetStop \/ HasBudget}

\* The last status write of a process that returns from run().
LastWrite(final) ==
    /\ saved' = results
    /\ state' = final
    /\ ProcessGone
    /\ UNCHANGED <<output, results, envVars>>

\* _load_status and the first lines of _run_locked: any status is resumed,
\* videos that a dead process left running included.
Start ==
    /\ pc = "down"
    /\ starts < MaxStarts
    /\ starts' = starts + 1
    /\ results' = saved
    /\ WriteStatus
    /\ state' = "preloading"
    /\ pc' = "preload"
    /\ UNCHANGED <<output, loopVars, circuit, prefetch, workerVars, crashes>>

\* _preload_window(0, ...): failed uploads are only recorded, an open circuit
\* raises.  Then the prefetch of the second window starts.
PreloadFirst ==
    /\ pc = "preload"
    /\ \/ /\ pc' = "enter"
          /\ prefetch' = IF NumWindows > 1 THEN "running" ELSE "none"
          /\ UNCHANGED circuit
       \/ /\ AuthMayFail
          /\ circuit' = TRUE
          /\ pc' = "stop"
          /\ UNCHANGED prefetch
    /\ UNCHANGED <<diskVars, results, loopVars, budgetStop, workerVars, envVars>>

\* The prefetch thread: an upload may open the circuit; its future ends with
\* raise_if_open.
PrefetchRefused ==
    /\ prefetch = "running"
    /\ AuthMayFail
    /\ circuit' = TRUE
    /\ UNCHANGED <<diskVars, pc, results, loopVars, budgetStop, prefetch,
                   workerVars, envVars>>

PrefetchEnds ==
    /\ prefetch = "running"
    /\ prefetch' = IF circuit THEN "raised" ELSE "ready"
    /\ UNCHANGED <<diskVars, pc, results, loopVars, budgetStop, circuit,
                   workerVars, envVars>>

\* next_future.result() of the window to enter re-raises in the main thread.
EnterRaises ==
    /\ pc = "enter"
    /\ window > 1
    /\ prefetch = "raised"
    /\ pc' = "stop"
    /\ UNCHANGED <<diskVars, results, loopVars, budgetStop, circuit, prefetch,
                   workerVars, envVars>>

\* The next prefetch starts and _process_window queues its videos.
EnterWindow ==
    /\ pc = "enter"
    /\ window > 1 => prefetch = "ready"
    /\ prefetch' = IF window = 1 THEN prefetch
                   ELSE IF window < NumWindows THEN "running" ELSE "none"
    /\ pending' = Queued(window)
    /\ state' = "running"
    /\ UNCHANGED results
    /\ WriteStatus
    /\ pc' = "loop"
    /\ UNCHANGED <<output, window, inFlight, done, count, circuit, workerVars,
                   envVars>>

\* The head of the while loop: current_pairs is read before it is used.
ReadPairs ==
    /\ pc = "loop"
    /\ IF pending = {} /\ inFlight = {}
         THEN pc' = "leave" /\ UNCHANGED count
         ELSE pc' = "plan" /\ count' = PairCount
    /\ UNCHANGED <<diskVars, results, window, pending, inFlight, done,
                   budgetStop, circuit, prefetch, workerVars, envVars>>

\* executor.submit: the worker starts while the status is still old.
Submit(v) ==
    /\ pc = "plan"
    /\ v \in pending
    /\ NextCap > 0
    /\ pending' = pending \ {v}
    /\ inFlight' = inFlight \cup {v}
    /\ results' = [results EXCEPT ![v] =
                     [status |-> "running", attempts |-> @.attempts + 1,
                      rejected |-> {}]]
    /\ phase' = [phase EXCEPT ![v] = "discover"]
    /\ cap' = [cap EXCEPT ![v] = NextCap]
    /\ pc' = "submitted"
    /\ UNCHANGED <<diskVars, window, done, count, budgetStop, circuit, prefetch,
                   todo, seen, rejected, envVars>>

\* The status write and the second _pair_count, before the next plan.
PersistSubmit ==
    /\ pc = "submitted"
    /\ UNCHANGED results
    /\ WriteStatus
    /\ count' = PairCount
    /\ pc' = "plan"
    /\ UNCHANGED <<output, state, window, pending, inFlight, done, circuit,
                   prefetch, workerVars, envVars>>

\* Nothing more to submit now: wait for a worker, or leave the window.
SubmitNoMore ==
    /\ pc = "plan"
    /\ pending = {} \/ NextCap = 0
    /\ pc' = IF inFlight = {} THEN "leave" ELSE "wait"
    /\ UNCHANGED <<diskVars, results, loopVars, budgetStop, circuit, prefetch,
                   workerVars, envVars>>

Ended == {v \in inFlight : phase[v] \in {"ok", "raised"}}

\* wait(in_flight, return_when=FIRST_COMPLETED).
Wait ==
    /\ pc = "wait"
    /\ Ended # {}
    /\ done' = Ended
    /\ pc' = "settle"
    /\ UNCHANGED <<diskVars, results, window, pending, inFlight, count,
                   budgetStop, circuit, prefetch, workerVars, envVars>>

\* The locals of a worker end with its future.
Forget(v) ==
    /\ phase' = [phase EXCEPT ![v] = "none"]
    /\ cap' = [cap EXCEPT ![v] = 0]
    /\ todo' = [todo EXCEPT ![v] = << >>]
    /\ seen' = [seen EXCEPT ![v] = {}]
    /\ rejected' = [rejected EXCEPT ![v] = {}]

\* Mutation of Settle: a failed attempt is given back like a refused one.
SettleRefunding(v) ==
    /\ pc = "settle"
    /\ v \in done
    /\ done' = done \ {v}
    /\ inFlight' = inFlight \ {v}
    /\ Forget(v)
    /\ results' = [results EXCEPT ![v] =
          IF phase[v] = "ok"
            THEN [@ EXCEPT !.status = "completed", !.rejected = rejected[v]]
            ELSE [@ EXCEPT !.status = "failed",
                           !.attempts = Refunded(results[v].attempts)]]
    /\ pending' = IF phase[v] = "raised" THEN pending \cup {v} ELSE pending
    /\ pc' = "settled"
    /\ UNCHANGED <<diskVars, window, count, budgetStop, circuit, prefetch,
                   envVars>>

\* One future of the done set: its result or its exception.
Settle(v) ==
    LET attempts == results[v].attempts
        retried == phase[v] = "raised" /\ ~circuit /\ attempts < MaxAttempts
    IN  /\ pc = "settle"
        /\ v \in done
        /\ done' = done \ {v}
        /\ inFlight' = inFlight \ {v}
        /\ Forget(v)
        /\ results' = [results EXCEPT ![v] =
              IF phase[v] = "ok"
                THEN [@ EXCEPT !.status = "completed", !.rejected = rejected[v]]
              ELSE IF circuit
                THEN [@ EXCEPT !.status = "pending_provider_stop",
                               !.attempts = Refunded(attempts)]
              ELSE [@ EXCEPT !.status = "failed"]]
        /\ pending' = IF retried THEN pending \cup {v} ELSE pending
        /\ pc' = "settled"
        /\ UNCHANGED <<diskVars, window, count, budgetStop, circuit, prefetch,
                       envVars>>

\* The status write after each settled future; after the last one an open
\* circuit clears the queue and leaves the loop by raise_if_open.
PersistSettle ==
    /\ pc = "settled"
    /\ UNCHANGED results
    /\ WriteStatus
    /\ IF done # {} THEN pc' = "settle" /\ UNCHANGED pending
       ELSE IF circuit THEN pc' = "drain" /\ pending' = {}
       ELSE pc' = "loop" /\ UNCHANGED pending
    /\ UNCHANGED <<output, state, window, inFlight, done, count, circuit,
                   prefetch, workerVars, envVars>>

\* A worker is about to append, or in the middle of it.
Appending == \E v \in Video : phase[v] = "build" /\ todo[v] # << >>

\* The main thread reads the public file without its lock: part of a line
\* that a worker is writing makes read_jsonl raise, in _pair_count or in the
\* refresh before the status is written.  The exception leaves the loop, and
\* nobody writes the status any more.
ReadRaises ==
    /\ pc \in {"loop", "submitted", "settled"}
    /\ Appending
    /\ \/ UNCHANGED <<saved, budgetStop>>
       \/ pc = "submitted" /\ saved' = results /\ UNCHANGED budgetStop
    /\ pc' = "abort"
    /\ UNCHANGED <<output, state, results, loopVars, circuit, prefetch,
                   workerVars, envVars>>

\* Both executors are awaited on the way out, then run() raises: the status
\* on disk still says running.
Abort ==
    /\ pc = "abort"
    /\ inFlight = Ended
    /\ prefetch # "running"
    /\ ProcessGone
    /\ results' = saved
    /\ UNCHANGED <<diskVars, envVars>>

\* Leaving the two executors waits for the videos still in flight and for the
\* prefetch; nobody looks at their futures.  cancel() only reaches a future
\* that has not begun, which ends like one that raised.
Drain ==
    /\ pc = "drain"
    /\ inFlight = Ended
    /\ prefetch # "running"
    /\ pc' = "stop"
    /\ UNCHANGED <<diskVars, results, loopVars, budgetStop, circuit, prefetch,
                   workerVars, envVars>>

\* ProviderCircuitOpenError reaches run().
StopProvider ==
    /\ pc = "stop"
    /\ LastWrite("stopped_provider_auth")

\* The window is over: write the status, then stop at the budget or at the
\* target, or go on to the next window.
LeaveWindow ==
    /\ pc = "leave"
    /\ UNCHANGED results
    /\ WriteStatus
    /\ IF \/ budgetStop'
          \/ PairCount >= Target /\ ~ProcessAll
          \/ window = NumWindows
         THEN pc' = "final" /\ UNCHANGED window
         ELSE pc' = "enter" /\ window' = window + 1
    /\ UNCHANGED <<output, state, pending, inFlight, done, count, circuit,
                   prefetch, workerVars, envVars>>

\* The prefetch nobody needs any more is still awaited, and re-raises.
FinalRaises ==
    /\ pc = "final"
    /\ prefetch = "raised"
    /\ pc' = "stop"
    /\ UNCHANGED <<diskVars, results, loopVars, budgetStop, circuit, prefetch,
                   workerVars, envVars>>

Exhausted ==
    {v \in Video : results[v].status = "failed"
                   /\ results[v].attempts >= MaxAttempts}

\* Mutation of FinalState: exhausted videos do not count.
FinalStateIgnoringFailures ==
    IF PairCount >= Target THEN "completed_target"
    ELSE IF budgetStop THEN "stopped_budget"
    ELSE "completed_sources"

FinalState ==
    IF PairCount >= Target THEN "completed_target"
    ELSE IF budgetStop THEN "stopped_budget"
    ELSE IF Exhausted # {} THEN "completed_with_failures"
    ELSE "completed_sources"

Finish ==
    /\ pc = "final"
    /\ prefetch \in {"none", "ready"}
    /\ LastWrite(FinalState)

-----------------------------------------------------------------------------
(* The worker of a video: LiveBuildRunner.run([record]) *)

workerFrame == <<saved, state, pc, results, loopVars, budgetStop, prefetch, cap,
                 envVars>>

\* Registration, opportunity scan, extraction or reflection raises, or the
\* worker reads part of another worker's line in the file; when the provider
\* refuses the credentials the circuit opens.
DiscoverRaises(v) ==
    /\ phase[v] = "discover"
    /\ circuit' \in {circuit, circuit \/ AuthMayFail}
    /\ phase' = [phase EXCEPT ![v] = "raised"]
    /\ UNCHANGED <<output, todo, seen, rejected, workerFrame>>

\* The limit of the selection: what the target leaves.  The code tests it
\* after it has taken a record, so a limit of zero lets one through.
SelectionLimit == IF PairCount < Target THEN Target - PairCount ELSE 1

\* Discovery is over: read the file, then select at most the cap and at most
\* that limit.
Select(v) ==
    LET n == Lesser(cap[v], SelectionLimit)
    IN  /\ phase[v] = "discover"
        /\ \E s \in Selections(n) : todo' = [todo EXCEPT ![v] = s]
        /\ seen' = [seen EXCEPT ![v] = {f \in Fact : <<v, f>> \in output}]
        /\ rejected' = [rejected EXCEPT ![v] = {}]
        /\ phase' = [phase EXCEPT ![v] = "build"]
        /\ UNCHANGED <<output, circuit, workerFrame>>

\* The worker is about to handle f, the next selected fact.
Handles(v, f) ==
    /\ phase[v] = "build"
    /\ todo[v] # << >>
    /\ f = Head(todo[v])
    /\ todo' = [todo EXCEPT ![v] = Tail(@)]

\* candidate_skipped_existing_pair.
Skip(v, f) ==
    /\ Handles(v, f)
    /\ f \in seen[v]
    /\ UNCHANGED <<output, circuit, phase, seen, rejected, workerFrame>>

\* The candidate passes every gate and append_pair_jsonl accepts it.
Emit(v, f) ==
    /\ Handles(v, f)
    /\ f \notin seen[v]
    /\ <<v, f>> \notin output
    /\ PairCount < Target
    /\ output' = output \cup {<<v, f>>}
    /\ UNCHANGED <<circuit, phase, seen, rejected, workerFrame>>

\* Any exception on the way is caught and counted, the one of an open circuit
\* like that of a failed quality gate.
Reject(v, f, r) ==
    /\ Handles(v, f)
    /\ f \notin seen[v]
    /\ \/ r = "quality" /\ UNCHANGED circuit
       \/ /\ r = "gate"
          /\ <<v, f>> \in output \/ PairCount >= Target
          /\ UNCHANGED circuit
       \/ /\ r = "provider"
          /\ circuit \/ AuthMayFail
          /\ circuit' = TRUE
    /\ rejected' = [rejected EXCEPT ![v] = @ \cup {r}]
    /\ UNCHANGED <<output, phase, seen, workerFrame>>

\* run() returns its counters.
Return(v) ==
    /\ phase[v] = "build"
    /\ todo[v] = << >>
    /\ phase' = [phase EXCEPT ![v] = "ok"]
    /\ UNCHANGED <<output, circuit, todo, seen, rejected, workerFrame>>

-----------------------------------------------------------------------------
(* The process dies (killed, host restart, the budget guard's terminate),   *)
(* and the operator's repair of the status file it leaves.                  *)

Crash ==
    /\ pc # "down"
    /\ crashes < MaxCrashes
    /\ crashes' = crashes + 1
    /\ ProcessGone
    /\ results' = saved
    /\ UNCHANGED <<diskVars, starts>>

\* tools/repair_interrupted_enterprise_resume.py: running videos, and failed
\* ones whose error is the artifact write race, get their attempt back.  The
\* operator runs it while no build is alive; the tool does not check that.
Repair ==
    \E race \in SUBSET {v \in Video : saved[v].status = "failed"} :
        LET repaired == race \cup {v \in Video : saved[v].status = "running"}
        IN  /\ pc = "down"
            /\ saved' = [v \in Video |->
                 IF v \in repaired
                   THEN [saved[v] EXCEPT !.status = "pending_infrastructure_retry",
                                         !.attempts = Refunded(saved[v].attempts)]
                   ELSE saved[v]]
            /\ state' = "paused_for_repaired_restart"
            /\ results' = saved'
            /\ UNCHANGED <<output, pc, loopVars, budgetStop, circuit, prefetch,
                           workerVars, envVars>>

-----------------------------------------------------------------------------
MainStep ==
    \/ PreloadFirst
    \/ EnterRaises
    \/ EnterWindow
    \/ ReadPairs
    \/ \E v \in Video : Submit(v)
    \/ PersistSubmit
    \/ SubmitNoMore
    \/ Wait
    \/ \E v \in Video : Settle(v)
    \/ PersistSettle
    \/ ReadRaises
    \/ Abort
    \/ Drain
    \/ StopProvider
    \/ LeaveWindow
    \/ FinalRaises
    \/ Finish

WorkerStep(v) ==
    \/ DiscoverRaises(v)
    \/ Select(v)
    \/ \E f \in Fact : \/ Skip(v, f)
                       \/ Emit(v, f)
                       \/ \E r \in Reason : Reject(v, f, r)
    \/ Return(v)

Next ==
    \/ Start
    \/ MainStep
    \/ PrefetchRefused
    \/ PrefetchEnds
    \/ \E v \in Video : WorkerStep(v)
    \/ Crash
    \/ Repair

Spec == Init /\ [][Next]_vars

\* The threads of a live process are scheduled, and every provider call ends:
\* the client has a timeout and bounded retries.
FairSpec ==
    /\ Spec
    /\ WF_vars(MainStep)
    /\ WF_vars(PrefetchEnds)
    /\ \A v \in Video : WF_vars(WorkerStep(v))

-----------------------------------------------------------------------------
(* Properties *)

\* The pairs the worker of v may still append.
Left(v) == CASE phase[v] = "discover" -> cap[v]
             [] phase[v] = "build" -> Len(todo[v])
             [] OTHER -> 0

Reserved == {r \in inFlight \X (1..PairCap) : r[2] <= Left(r[1])}

\* "This guarantees that concurrent videos cannot overshoot the public pair
\* target" (submission_plan): the pairs in the file and all the pairs the
\* videos in flight may still add never exceed the target together, though
\* the plan works on a pair count that workers have since outgrown.
NoOvershoot ==
    ~ProcessAll => PairCount + Cardinality(Reserved) <= Target

\* A window is left with videos still queued only when the target is reached
\* or the budget is spent: the plan never starves the queue.
NothingAbandoned ==
    pc = "leave" /\ pending # {} => budgetStop \/ PairCount >= Target

\* A build that has walked its windows to the end accounts for every video: it
\* is completed, or its attempts are spent, on failures or on a process that
\* died under the last of them; and completed_sources admits no failed one.
SourcesAccounted ==
    pc = "down" /\ state \in {"completed_sources", "completed_with_failures"} =>
        \A v \in Video :
            \/ saved[v].status = "completed"
            \/ saved[v].status = "running" /\ saved[v].attempts = MaxAttempts
            \/ /\ saved[v].status = "failed" /\ saved[v].attempts = MaxAttempts
               /\ state = "completed_with_failures"

\* A completed video is never processed again, over crashes and repairs.
CompletedIsFinal ==
    [][\A v \in Video : saved[v].status = "completed"
                           => saved'[v].status = "completed"]_vars

\* A process that runs ends, in a final state, by an exception or by dying: retries
\* are bounded, no worker is waited for twice, no window is entered forever.
ProcessEnds == pc # "down" ~> pc = "down"

\* "at most two accepted pairs per source video" (README.md), two being the
\* cap of the formal run.
PairCapPerVideo ==
    \A v \in Video : Cardinality({p \in output : p[1] = v}) <= PairCap

\* "Authentication/project failures are operational, not video failures.
\* Preserve this source as pending and do not consume its bounded quality
\* attempt" (windowed_build.py): when the build has stopped for the provider,
\* no video whose candidates the open circuit rejected counts as completed.
ProviderStopPreserves ==
    pc = "down" /\ state = "stopped_provider_auth" =>
        \A v \in Video : saved[v].status = "completed"
                            => "provider" \notin saved[v].rejected

=============================================================================
