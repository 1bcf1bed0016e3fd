---------------------------- MODULE BudgetGuard -----------------------------
(***************************************************************************)
(* The budget guard beside a run in several processes                      *)
(* (src/tools/monitor_vidhalloc_budget_guard.py with                       *)
(* src/videohalo/runtime_metrics.py).                                      *)
(*                                                                         *)
(* Every few seconds the guard reads the public output and the event logs  *)
(* of one worker directory after the other, while the workers go on, and   *)
(* prices what the logs say was used.  Once the pairs or the cost reach    *)
(* their limit it kills the processes its pid files name and ends.         *)
(* Nothing in it catches an error: any ends the guard, and somebody has to *)
(* start it again.                                                         *)
(***************************************************************************)
EXTENDS AgentCalls, Sums

CONSTANTS Directories,  \* the workers in the order of their directories
          StopLine,     \* live_cost_stop_aud, in the units of Cost
          TargetPairs,  \* target_accepted_pairs
          MaxPairs      \* bound on the pairs of one worker

ASSUME GuardAssumption ==
    /\ Directories \in Seq(Worker) /\ IsInjective(Directories)
    /\ ToSet(Directories) = Worker
    /\ StopLine \in Nat \ {0} /\ TargetPairs \in Nat \ {0} /\ MaxPairs \in Nat

VARIABLES
    pairs,     \* worker -> pairs in its public output
    guard,     \* "reading", "stopping", "stopped", "dead"
    unread,    \* worker directories this snapshot has not read yet
    seen,      \* usage and pairs of the snapshot
    unkilled   \* processes whose pid file stop_workers has not come to

guardVars == <<pairs, guard, unread, seen, unkilled>>
vars == <<callVars, guardVars>>

TypeOK ==
    /\ CallsTypeOK
    /\ pairs \in [Worker -> 0..MaxPairs]
    /\ guard \in {"reading", "stopping", "stopped", "dead"}
    /\ unread \in 0..Len(Directories)
    /\ seen \in [input : Nat, cached : Nat, output : Nat, pairs : Nat]
    /\ unkilled \subseteq Process

NothingSeen == [input |-> 0, cached |-> 0, output |-> 0, pairs |-> 0]

Init ==
    /\ CallsInit
    /\ pairs = [w \in Worker |-> 0]
    /\ guard = "reading" /\ unread = Len(Directories)
    /\ seen = NothingSeen
    /\ unkilled = {}

-----------------------------------------------------------------------------
(* The metrics *)

\* Mutation of LogUsage: the log is read both as the log of the output and as
\* one of the directory of event logs.
LogUsageTwice(lines) ==
    LET completed == {i \in DOMAIN lines : lines[i].event = "completed"}
        read == completed \X {"output", "directory"}
    IN  [input |-> SumOf(read, LAMBDA r : lines[r[1]].usage.input),
         cached |-> SumOf(read, LAMBDA r : lines[r[1]].usage.cached),
         output |-> SumOf(read, LAMBDA r : lines[r[1]].usage.output)]

\* The iteration over the lines decodes them; only what json.loads raises is
\* caught.
Decodes(lines) ==
    \A i \in DOMAIN lines : lines[i].event \notin {"split", "garbled"}

\* collect_event_metrics of one log: every path is read once, a line that is
\* no JSON is passed over, and only completed calls count.
LogUsage(lines) ==
    LET completed == {i \in DOMAIN lines : lines[i].event = "completed"}
    IN  [input |-> SumOf(completed, LAMBDA i : lines[i].usage.input),
         cached |-> SumOf(completed, LAMBDA i : lines[i].usage.cached),
         output |-> SumOf(completed, LAMBDA i : lines[i].usage.output)]

\* The estimate that a snapshot would make if the workers waited for it.
Estimate ==
    Cost([input |-> SumOf(Worker, LAMBDA w : LogUsage(log[w]).input),
          cached |-> SumOf(Worker, LAMBDA w : LogUsage(log[w]).cached),
          output |-> SumOf(Worker, LAMBDA w : LogUsage(log[w]).output)])

-----------------------------------------------------------------------------
(* The workers and the operator *)

Call(w) == CallStep(w) /\ UNCHANGED guardVars

\* A worker appends a pair to the public output of its directory.
PublishPair(w) ==
    /\ stage[w] = "idle"
    /\ Len(log[w]) > 0 /\ Last(log[w]).event = "completed"
    /\ pairs[w] < MaxPairs
    /\ pairs' = [pairs EXCEPT ![w] = @ + 1]
    /\ UNCHANGED <<callVars, guard, unread, seen, unkilled>>

\* The operator starts processes as long as no limit was reported.
StartProcess(p) ==
    /\ guard \in {"reading", "dead"}
    /\ Start(p)
    /\ UNCHANGED guardVars

CrashProcess(p) == Crash(p) /\ UNCHANGED guardVars

-----------------------------------------------------------------------------
(* The guard *)

\* usage_and_pairs, one worker directory.
ReadDirectory ==
    LET w == Directories[Len(Directories) - unread + 1]
        used == LogUsage(log[w])
    IN  /\ guard = "reading"
        /\ unread > 0
        /\ Decodes(log[w])
        /\ unread' = unread - 1
        /\ seen' = [input |-> seen.input + used.input,
                    cached |-> seen.cached + used.cached,
                    output |-> seen.output + used.output,
                    pairs |-> seen.pairs + pairs[w]]
        /\ UNCHANGED <<callVars, pairs, guard, unkilled>>

\* A line that was cut inside a character raises UnicodeDecodeError; it stays
\* in the log, for the next guard too.
ReadRaises ==
    /\ guard = "reading"
    /\ unread > 0
    /\ ~Decodes(log[Directories[Len(Directories) - unread + 1]])
    /\ guard' = "dead"
    /\ UNCHANGED <<callVars, pairs, unread, seen, unkilled>>

\* Mutation of LimitReached: the cost is only reported.
PairsReached == seen.pairs >= TargetPairs

\* snapshot: the reasons to stop.
LimitReached ==
    \/ seen.pairs >= TargetPairs
    \/ Cost(seen) >= StopLine

\* Without a reason the next snapshot begins after the poll interval.
Decide ==
    /\ guard = "reading" /\ unread = 0
    /\ IF LimitReached
         THEN /\ guard' = "stopping" /\ unkilled' = Process
              /\ UNCHANGED <<unread, seen>>
         ELSE /\ unread' = Len(Directories) /\ seen' = NothingSeen
              /\ UNCHANGED <<guard, unkilled>>
    /\ UNCHANGED <<callVars, pairs>>

\* stop_workers, the process of one pid file: it is killed, or it is left as it
\* is, because the file cannot be read, the command line cannot be read or is
\* another one, or taskkill fails.
StopProcess(p) ==
    /\ guard = "stopping"
    /\ p \in unkilled
    /\ unkilled' = unkilled \ {p}
    /\ \/ p \in up /\ \E fate \in [Worker -> Fate] : Gone(p, fate)
       \/ UNCHANGED callVars
    /\ UNCHANGED <<pairs, guard, unread, seen>>

\* Whatever the results are, the state is "stopped" and the guard ends.
Finish ==
    /\ guard = "stopping" /\ unkilled = {}
    /\ guard' = "stopped"
    /\ UNCHANGED <<callVars, pairs, unread, seen, unkilled>>

GuardStep ==
    \/ ReadDirectory \/ ReadRaises
    \/ Decide
    \/ \E p \in Process : StopProcess(p)
    \/ Finish

\* os.replace of the guard's status is refused, a status file is being replaced
\* when it is opened, or powershell or taskkill cannot be run.
GuardFails ==
    /\ guard \in {"reading", "stopping"}
    /\ guard' = "dead"
    /\ UNCHANGED <<callVars, pairs, unread, seen, unkilled>>

\* The operator starts the guard again.
RestartGuard ==
    /\ guard = "dead"
    /\ guard' = "reading" /\ unread' = Len(Directories) /\ seen' = NothingSeen
    /\ unkilled' = {}
    /\ UNCHANGED <<callVars, pairs>>

Next ==
    \/ \E w \in Worker : Call(w) \/ PublishPair(w)
    \/ \E p \in Process : StartProcess(p) \/ CrashProcess(p)
    \/ GuardStep
    \/ GuardFails \/ RestartGuard

Spec == Init /\ [][Next]_vars

\* The guard is a loop that sleeps for seconds.
FairSpec == Spec /\ WF_vars(GuardStep)

-----------------------------------------------------------------------------
(* Properties *)

\* The guard does not end a run early: when it stops workers, the provider has
\* charged at least the stop line or the pairs are there.  It adds up logs it
\* reads at different times, some with lines that no parser takes, some with
\* lines that are lost after it has read them.
StopJustified ==
    guard \in {"stopping", "stopped"} =>
        \/ Total(billed) >= StopLine
        \/ Total(pairs) >= TargetPairs

\* Once the logs say the line is crossed, a guard that lives finds it and stops
\* the run, however the workers go on, die and come back - unless a line that
\* counted is lost because the next one was glued to it.
CrossingStops ==
    (Estimate >= StopLine) ~>
        (guard \in {"stopped", "dead"} \/ Estimate < StopLine)

=============================================================================
