---------------------------- MODULE ProviderCalls ----------------------------
(***************************************************************************)
(* Calls of the workers to the model provider: the circuit breaker and the *)
(* pacer (src/videohalo/providers/safety.py), the client with its retries  *)
(* for capacity (models/client.py), and the bounded attempts of a          *)
(* structured call around them (models/structured_call.py).                *)
(*                                                                         *)
(* All threads of a process share one circuit and one pacer.  Time is kept *)
(* relative to now: lead and slot count down with every Tick, so that no   *)
(* clock has to be bounded.  A slot in the past is remembered for one      *)
(* interval.                                                               *)
(***************************************************************************)
EXTENDS Integers, FiniteSets

CONSTANTS Caller,        \* the threads that call the provider
          Attempts,      \* attempts of structured_call
          FlexTier,      \* service_tier is "flex"
          FlexAttempts,  \* flex_max_attempts
          Interval       \* ticks between two slots of the pacer

ASSUME CallAssumption ==
    /\ IsFiniteSet(Caller)
    /\ {Attempts, FlexAttempts, Interval} \subseteq Nat \ {0}
    /\ FlexTier \in BOOLEAN

VARIABLES circuit,  \* PROVIDER_CIRCUIT.is_open
          lead,     \* the pacer's _next minus now, 0 when it has passed
          slot,     \* the last slot each caller reserved, minus now
          pc,       \* where each caller is
          attempt,  \* its attempt in structured_call
          flex,     \* its attempt in _generate_content
          late      \* requests it has sent since the circuit opened

vars == <<circuit, lead, slot, pc, attempt, flex, late>>

\* _generate_content retries in the flex tier only.
FlexTries == IF FlexTier THEN FlexAttempts ELSE 1

TypeOK ==
    /\ circuit \in BOOLEAN
    /\ lead \in Nat
    /\ slot \in [Caller -> Int]
    /\ pc \in [Caller -> {"idle", "invoke", "check", "pace", "paced", "called",
                          "backoff", "retry"}]
    /\ attempt \in [Caller -> 1..Attempts]
    /\ flex \in [Caller -> 1..FlexTries]
    /\ late \in [Caller -> Nat]

-----------------------------------------------------------------------------
Init ==
    /\ circuit = FALSE
    /\ lead = 0
    /\ slot = [t \in Caller |-> -Interval]
    /\ pc = [t \in Caller |-> "idle"]
    /\ attempt = [t \in Caller |-> 1]
    /\ flex = [t \in Caller |-> 1]
    /\ late = [t \in Caller |-> 0]

\* t goes from one place to another.
Move(t, from, to) ==
    /\ pc[t] = from
    /\ pc' = [pc EXCEPT ![t] = to]

pacer == <<lead, slot>>

\* The call returns or raises, and its loop counters are gone.
Leave(t, from) ==
    /\ Move(t, from, "idle")
    /\ attempt' = [attempt EXCEPT ![t] = 1]
    /\ flex' = [flex EXCEPT ![t] = 1]

\* _generate_content raises something that structured_call catches.
Raise(t, from) ==
    /\ Move(t, from, "retry")
    /\ flex' = [flex EXCEPT ![t] = 1]

\* structured_call, with a new request.
Begin(t) ==
    /\ Move(t, "idle", "invoke")
    /\ UNCHANGED <<circuit, pacer, attempt, flex, late>>

\* invoke refuses the request before anything is sent (hidden fields, media).
Refuse(t) ==
    /\ Raise(t, "invoke")
    /\ UNCHANGED <<circuit, pacer, attempt, late>>

\* _generate_content begins with its first attempt.
Generate(t) ==
    /\ Move(t, "invoke", "check")
    /\ UNCHANGED <<circuit, pacer, attempt, flex, late>>

\* PROVIDER_CIRCUIT.raise_if_open().
CheckCircuit(t) ==
    /\ IF circuit THEN Raise(t, "check")
       ELSE Move(t, "check", "pace") /\ UNCHANGED flex
    /\ UNCHANGED <<circuit, pacer, attempt, late>>

\* Mutation of Reserve: the next slot is counted from now.
ReserveFromNow(t) ==
    /\ Move(t, "pace", "paced")
    /\ slot' = [slot EXCEPT ![t] = lead]
    /\ lead' = Interval
    /\ UNCHANGED <<circuit, attempt, flex, late>>

\* SmoothRequestPacer.wait under its lock: the slot is the later one of now
\* and _next, and _next moves one interval past it.
Reserve(t) ==
    /\ Move(t, "pace", "paced")
    /\ slot' = [slot EXCEPT ![t] = lead]
    /\ lead' = lead + Interval
    /\ UNCHANGED <<circuit, attempt, flex, late>>

\* Mutation of Send: the delay is not slept.
SendAtOnce(t) ==
    /\ Move(t, "paced", "called")
    /\ late' = IF circuit THEN [late EXCEPT ![t] = @ + 1] ELSE late
    /\ UNCHANGED <<circuit, pacer, attempt, flex>>

\* The sleep is over and generate_content is called; nobody looks at the
\* circuit again.
Send(t) ==
    /\ Move(t, "paced", "called")
    /\ slot[t] <= 0
    /\ late' = IF circuit THEN [late EXCEPT ![t] = @ + 1] ELSE late
    /\ UNCHANGED <<circuit, pacer, attempt, flex>>

\* An answer that satisfies the schema.
Answer(t) ==
    /\ Leave(t, "called")
    /\ UNCHANGED <<circuit, pacer, late>>

\* No answer, an unusable one, or an error that is not retried here.
Fail(t) ==
    /\ Raise(t, "called")
    /\ UNCHANGED <<circuit, pacer, attempt, late>>

\* PROVIDER_CIRCUIT.inspect: 401, or 403 for the project.
Trip(t) ==
    /\ Raise(t, "called")
    /\ circuit' = TRUE
    /\ UNCHANGED <<pacer, attempt, late>>

\* Mutation of NoCapacity: one retry too many.
NoCapacityOffByOne(t) ==
    /\ FlexTier
    /\ IF flex[t] <= FlexTries
         THEN /\ Move(t, "called", "backoff")
              /\ flex' = [flex EXCEPT ![t] = @ + 1]
              /\ UNCHANGED attempt
         ELSE Leave(t, "called")
    /\ UNCHANGED <<circuit, pacer, late>>

\* A capacity error in the flex tier: sleep before the next attempt, or
\* FlexCapacityError, which structured_call does not retry.
NoCapacity(t) ==
    /\ FlexTier
    /\ IF flex[t] < FlexTries
         THEN /\ Move(t, "called", "backoff")
              /\ flex' = [flex EXCEPT ![t] = @ + 1]
              /\ UNCHANGED attempt
         ELSE Leave(t, "called")
    /\ UNCHANGED <<circuit, pacer, late>>

\* Mutation of WakeUp: the circuit is tested before the retry loop only.
WakeUpUnchecked(t) ==
    /\ Move(t, "backoff", "pace")
    /\ UNCHANGED <<circuit, pacer, attempt, flex, late>>

\* The exponential backoff is over.
WakeUp(t) ==
    /\ Move(t, "backoff", "check")
    /\ UNCHANGED <<circuit, pacer, attempt, flex, late>>

\* Mutation of Retry: a refusal by the open circuit is not an attempt.
RetryWhileOpen(t) ==
    /\ IF circuit THEN Move(t, "retry", "invoke") /\ UNCHANGED <<attempt, flex>>
       ELSE IF attempt[t] < Attempts
         THEN /\ Move(t, "retry", "invoke")
              /\ attempt' = [attempt EXCEPT ![t] = @ + 1]
              /\ UNCHANGED flex
         ELSE Leave(t, "retry")
    /\ UNCHANGED <<circuit, pacer, late>>

\* structured_call catches any other exception, the one of the open circuit
\* included, and tries again or gives up.
Retry(t) ==
    /\ IF attempt[t] < Attempts
         THEN /\ Move(t, "retry", "invoke")
              /\ attempt' = [attempt EXCEPT ![t] = @ + 1]
              /\ UNCHANGED flex
         ELSE Leave(t, "retry")
    /\ UNCHANGED <<circuit, pacer, late>>

\* One tick of time.monotonic().
Tick ==
    /\ lead' = IF lead > 0 THEN lead - 1 ELSE 0
    /\ slot' = [t \in Caller |->
                 IF slot[t] > -Interval THEN slot[t] - 1 ELSE -Interval]
    /\ UNCHANGED <<circuit, pc, attempt, flex, late>>

\* What a caller does once its call has begun.
CallStep(t) ==
    \/ Refuse(t)
    \/ Generate(t)
    \/ CheckCircuit(t)
    \/ Reserve(t)
    \/ Send(t)
    \/ Answer(t)
    \/ Fail(t)
    \/ Trip(t)
    \/ NoCapacity(t)
    \/ WakeUp(t)
    \/ Retry(t)

Next ==
    \/ \E t \in Caller : Begin(t) \/ CallStep(t)
    \/ Tick

Spec == Init /\ [][Next]_vars

\* Time passes, and a call in progress goes on: the client has a timeout.
FairSpec == Spec /\ WF_vars(Tick) /\ \A t \in Caller : WF_vars(CallStep(t))

-----------------------------------------------------------------------------
(* Properties *)

\* "Reserve evenly spaced request slots across all worker threads": a slot
\* that has not passed is at least one interval after every earlier slot of
\* another thread.
EvenSlots ==
    \A t, u \in Caller :
        t # u /\ slot[u] >= 0 /\ slot[t] <= slot[u]
            => slot[u] - slot[t] >= Interval

\* The pacer is fair and its queue short: nobody ever sleeps longer than one
\* interval per thread.
BoundedWait == \A t \in Caller : slot[t] <= Cardinality(Caller) * Interval

\* After the circuit has opened a thread sends at most the one request whose
\* slot it had already reserved, over all its retries and later calls.
OneLateCall == \A t \in Caller : late[t] <= 1

\* Every structured call returns or raises.
CallsEnd == \A t \in Caller : pc[t] # "idle" ~> pc[t] = "idle"

=============================================================================
