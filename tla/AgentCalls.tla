----------------------------- MODULE AgentCalls -----------------------------
(***************************************************************************)
(* One structured call of an agent as LiveBuildRunner._call makes it, and  *)
(* what it leaves behind: the event log of its worker, and a snapshot of   *)
(* the memory of its runner in the artifact store                          *)
(* (src/videohalo/live_build.py, models/structured_call.py,                *)
(* stores/artifacts.py, observability/events.py).                          *)
(*                                                                         *)
(* A worker is a thread with a runner of its own.  The workers of one      *)
(* process share the lock of the artifact store; all processes share the   *)
(* store.  A process may die at any step and be started again; its event   *)
(* logs are appended to.                                                   *)
(***************************************************************************)
EXTENDS Integers, Sequences, FiniteSets, SequencesExt

CONSTANTS Worker, Process,
          Homes,       \* the placements of workers in processes considered
          Artifact,    \* contents of a memory snapshot, named by their digest
          Usage,       \* [input, cached, output]: tokens one response may cost
          Attempts,    \* structured_call's attempts
          Replaces,    \* attempts at os.replace
          MaxCalls,    \* bound on the calls begun, by all workers
          MaxStarts    \* bound on the starts of processes

ASSUME CallsAssumption ==
    /\ IsFiniteSet(Worker) /\ Artifact # {} /\ Homes \subseteq [Worker -> Process]
    /\ Usage \subseteq [input : Nat, cached : Nat, output : Nat]
    /\ \A u \in Usage : u.cached <= u.input
    /\ Attempts \in Nat \ {0} /\ Replaces \in Nat \ {0}
    /\ MaxCalls \in Nat /\ MaxStarts \in Nat

VARIABLES
    home,      \* worker -> process, fixed
    starts,    \* starts of processes so far
    up,        \* the processes that run
    stage,     \* worker -> the step of its call
    tries,     \* worker -> attempts of that step that failed
    answer,    \* worker -> usage and memory snapshot of the last valid answer
    log,       \* worker -> the lines of its event log
    store,     \* the artifacts that are in the store
    calls,     \* calls begun
    billed     \* history: worker -> what the provider has charged for it

workerVars == <<stage, tries, answer>>
callVars == <<home, starts, up, workerVars, log, store, calls, billed>>

NoUsage == [input |-> 0, cached |-> 0, output |-> 0]

\* What a valid answer leaves for the rest of the call: last_call_metadata
\* and the snapshot of the memory it was contributed to.
Answers == [usage : Usage \cup {NoUsage}, artifact : Artifact]

NoAnswer == [usage |-> NoUsage, artifact |-> CHOOSE a \in Artifact : TRUE]

\* A line of an event log.  What a dead process has not finished is "torn", or
\* "split" if it ends inside a character (the lines are written with
\* ensure_ascii=False, and rejections carry messages of any text), or has
\* everything but the end of the line.  A "lost" line is no JSON, a "garbled"
\* one is not UTF-8 either.
Line == [event : {"started", "torn", "split", "lost", "garbled"}]
        \cup [event : {"completed"}, ended : BOOLEAN,
              usage : Usage \cup {NoUsage}, artifact : Artifact]

\* What an append can leave of its line when its process dies in it.
Fate == {"whole", "torn", "split", "unended"}

CallsTypeOK ==
    /\ home \in [Worker -> Process]
    /\ starts \in 0..MaxStarts
    /\ up \subseteq Process
    /\ stage \in [Worker -> {"down", "idle", "asking", "putting", "replacing",
                             "stored"}]
    /\ tries \in [Worker -> 0..(Attempts + Replaces)]
    /\ answer \in [Worker -> Answers]
    /\ \A w \in Worker : \A i \in DOMAIN log[w] : log[w][i] \in Line
    /\ store \subseteq Artifact
    /\ calls \in 0..MaxCalls
    /\ billed \in [Worker -> Nat]

\* estimate_cost, in units of the price of a cached token (the policy has
\* 0.75, 0.075 and 3.75 USD per million).
Cost(usage) ==
    LET cached == IF usage.input < usage.cached THEN usage.input
                  ELSE usage.cached
    IN  10 * (usage.input - cached) + cached + 50 * usage.output

CallsInit ==
    /\ home \in Homes
    /\ starts = 0
    /\ up = {}
    /\ stage = [w \in Worker |-> "down"]
    /\ tries = [w \in Worker |-> 0]
    /\ answer = [w \in Worker |-> NoAnswer]
    /\ log = [w \in Worker |-> << >>]
    /\ store = {}
    /\ calls = 0 /\ billed = [w \in Worker |-> 0]

-----------------------------------------------------------------------------
(* The event log *)

Unfinished(lines) ==
    /\ lines # << >>
    /\ \/ Last(lines).event \in {"torn", "split"}
       \/ Last(lines).event = "completed" /\ ~Last(lines).ended

\* RuntimeEventLogger.emit appends one line.  What is appended to an
\* unfinished line becomes part of it.
Emitted(lines, line) ==
    IF Unfinished(lines)
      THEN Append(Front(lines),
                  [event |-> IF Last(lines).event = "split" THEN "garbled"
                             ELSE "lost"])
      ELSE Append(lines, line)

\* What a process leaves that dies while it appends a line; without its end,
\* this is the line that is left.
Left(lines, line, fate) ==
    CASE fate = "whole" -> lines
      [] fate # "whole" /\ Unfinished(lines) ->
           Append(Front(lines),
                  [event |-> IF "split" \in {fate, Last(lines).event} THEN "split"
                             ELSE "torn"])
      [] fate = "unended" /\ ~Unfinished(lines) ->
           Append(lines, line)
      [] fate \in {"torn", "split"} /\ ~Unfinished(lines) ->
           Append(lines, [event |-> fate])

\* The event at the end of a call.
Completed(w, ended) == [event |-> "completed", ended |-> ended,
                        usage |-> answer[w].usage, artifact |-> answer[w].artifact]

-----------------------------------------------------------------------------
(* The process *)

Start(p) ==
    LET mine == {w \in Worker : home[w] = p}
    IN  /\ p \notin up
        /\ starts < MaxStarts
        /\ starts' = starts + 1
        /\ up' = up \cup {p}
        /\ stage' = [w \in Worker |-> IF w \in mine THEN "idle" ELSE stage[w]]
        /\ UNCHANGED <<home, tries, answer, log, store, calls, billed>>

\* The process is gone, whatever its workers were doing; some may have been
\* writing an event.
Gone(p, fate) ==
    LET mine == {w \in Worker : home[w] = p}
    IN  /\ \A w \in Worker :
              fate[w] # "whole" =>
                 /\ w \in mine /\ stage[w] \in {"idle", "stored"}
                 /\ fate[w] = "unended" => stage[w] = "stored"
        /\ up' = up \ {p}
        /\ stage' = [w \in Worker |-> IF w \in mine THEN "down" ELSE stage[w]]
        /\ tries' = [w \in Worker |-> IF w \in mine THEN 0 ELSE tries[w]]
        /\ answer' = [w \in Worker |-> IF w \in mine THEN NoAnswer ELSE answer[w]]
        /\ log' = [w \in Worker |-> Left(log[w], Completed(w, FALSE), fate[w])]
        /\ UNCHANGED <<home, starts, store, calls, billed>>

Crash(p) == p \in up /\ \E fate \in [Worker -> Fate] : Gone(p, fate)

-----------------------------------------------------------------------------
(* The call *)

\* The call has raised; no event says so.
Raised(w) ==
    /\ stage' = [stage EXCEPT ![w] = "idle"]
    /\ tries' = [tries EXCEPT ![w] = 0]
    /\ answer' = [answer EXCEPT ![w] = NoAnswer]

BeginCall(w) ==
    /\ stage[w] = "idle"
    /\ calls < MaxCalls
    /\ calls' = calls + 1
    /\ log' = [log EXCEPT ![w] = Emitted(@, [event |-> "started"])]
    /\ stage' = [stage EXCEPT ![w] = "asking"]
    /\ UNCHANGED <<home, starts, up, tries, answer, store, billed>>

\* structured_call gets no answer it can take: the request failed and cost
\* nothing, or the answer is not of the schema and was paid for.
AttemptFails(w, usage) ==
    /\ stage[w] = "asking"
    /\ billed' = [billed EXCEPT ![w] = @ + Cost(usage)]
    /\ IF tries[w] + 1 < Attempts
         THEN tries' = [tries EXCEPT ![w] = @ + 1] /\ UNCHANGED <<stage, answer>>
         ELSE Raised(w)
    /\ UNCHANGED <<home, starts, up, log, store, calls>>

\* A full flex queue is not tried again here.
CapacityFails(w) ==
    /\ stage[w] = "asking"
    /\ Raised(w)
    /\ UNCHANGED <<home, starts, up, log, store, calls, billed>>

\* A valid answer goes to the memory of the runner at once, whatever becomes
\* of the call after that.
Answer(w, usage, artifact) ==
    /\ stage[w] = "asking"
    /\ billed' = [billed EXCEPT ![w] = @ + Cost(usage)]
    /\ answer' = [answer EXCEPT ![w] = [usage |-> usage, artifact |-> artifact]]
    /\ stage' = [stage EXCEPT ![w] = "putting"]
    /\ tries' = [tries EXCEPT ![w] = 0]
    /\ UNCHANGED <<home, starts, up, log, store, calls>>

\* put_json, under the lock of the process: is the artifact there?  If not, a
\* temporary file is written beside it.
PutCheck(w) ==
    /\ stage[w] = "putting"
    /\ \A v \in Worker : home[v] = home[w] => stage[v] # "replacing"
    /\ stage' = [stage EXCEPT ![w] = IF answer[w].artifact \in store THEN "stored"
                                     ELSE "replacing"]
    /\ UNCHANGED <<home, starts, up, tries, answer, log, store, calls, billed>>

PutReplaces(w) ==
    /\ stage[w] = "replacing"
    /\ store' = store \cup {answer[w].artifact}
    /\ stage' = [stage EXCEPT ![w] = "stored"]
    /\ tries' = [tries EXCEPT ![w] = 0]
    /\ UNCHANGED <<home, starts, up, answer, log, calls, billed>>

\* Mutation of PutRefused: the last refusal is not raised.
PutGivesUp(w) ==
    /\ stage[w] = "replacing"
    /\ IF answer[w].artifact \in store \/ tries[w] + 1 = Replaces
         THEN /\ stage' = [stage EXCEPT ![w] = "stored"]
              /\ tries' = [tries EXCEPT ![w] = 0]
         ELSE /\ tries' = [tries EXCEPT ![w] = @ + 1]
              /\ UNCHANGED stage
    /\ UNCHANGED <<home, starts, up, answer, log, store, calls, billed>>

\* os.replace is refused, because another process has the file open.  That
\* process may have put the same content there; else it is tried again, and
\* the last refusal is raised.
PutRefused(w) ==
    /\ stage[w] = "replacing"
    /\ IF answer[w].artifact \in store
         THEN /\ stage' = [stage EXCEPT ![w] = "stored"]
              /\ tries' = [tries EXCEPT ![w] = 0]
              /\ UNCHANGED answer
       ELSE IF tries[w] + 1 = Replaces
         THEN Raised(w)
         ELSE /\ tries' = [tries EXCEPT ![w] = @ + 1]
              /\ UNCHANGED <<stage, answer>>
    /\ UNCHANGED <<home, starts, up, log, store, calls, billed>>

\* The media of the request were not those of the lease.
MediaDisagree(w) ==
    /\ stage[w] = "stored"
    /\ Raised(w)
    /\ UNCHANGED <<home, starts, up, log, store, calls, billed>>

EndCall(w) ==
    /\ stage[w] = "stored"
    /\ log' = [log EXCEPT ![w] = Emitted(@, Completed(w, TRUE))]
    /\ stage' = [stage EXCEPT ![w] = "idle"]
    /\ answer' = [answer EXCEPT ![w] = NoAnswer]
    /\ UNCHANGED <<home, starts, up, tries, store, calls, billed>>

CallStep(w) ==
    \/ BeginCall(w)
    \/ \E u \in Usage \cup {NoUsage} : AttemptFails(w, u)
    \/ CapacityFails(w)
    \/ \E u \in Usage, a \in Artifact : Answer(w, u, a)
    \/ PutCheck(w) \/ PutReplaces(w) \/ PutRefused(w)
    \/ MediaDisagree(w) \/ EndCall(w)

-----------------------------------------------------------------------------
(* Properties *)

\* An event log says of no call that it was completed unless the snapshot of
\* the memory it has contributed to can be read from the store, whatever
\* died, was refused or was put by somebody else in between.
AuditedCalls ==
    \A w \in Worker : \A i \in DOMAIN log[w] :
        log[w][i].event = "completed" => log[w][i].artifact \in store

=============================================================================
