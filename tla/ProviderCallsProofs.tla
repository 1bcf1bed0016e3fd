------------------------ MODULE ProviderCallsProofs ------------------------
(* Proofs about ProviderCalls, for any number of callers and any bounds. *)
EXTENDS ProviderCalls, FiniteSetTheorems, TLAPS

\* FlexTries is at least one, so that 1..FlexTries has a first attempt.
LEMMA FlexTriesPositive == FlexTries \in Nat \ {0}
  BY CallAssumption DEF FlexTries

\* Every step of a caller or of the clock, one disjunct per action.
LEMMA StepCases ==
    ASSUME NEW P,
           \A t \in Caller : Begin(t) => P,
           \A t \in Caller : Refuse(t) => P,
           \A t \in Caller : Generate(t) => P,
           \A t \in Caller : CheckCircuit(t) => P,
           \A t \in Caller : Reserve(t) => P,
           \A t \in Caller : Send(t) => P,
           \A t \in Caller : Answer(t) => P,
           \A t \in Caller : Fail(t) => P,
           \A t \in Caller : Trip(t) => P,
           \A t \in Caller : NoCapacity(t) => P,
           \A t \in Caller : WakeUp(t) => P,
           \A t \in Caller : Retry(t) => P,
           Tick => P,
           Next
    PROVE  P
  BY Zenon DEF Next, CallStep

-----------------------------------------------------------------------------
(* Types *)

\* A state of its type steps to a state of its type.
LEMMA TypeStep == ASSUME TypeOK, [Next]_vars PROVE TypeOK'
<1>1. CASE UNCHANGED vars
  BY <1>1 DEF TypeOK, vars, FlexTries
<1>2. CASE Next
  <2> USE FlexTriesPositive, CallAssumption DEF TypeOK, Move, Leave, Raise, pacer
  <2>1. ASSUME NEW t \in Caller, Begin(t) PROVE TypeOK'
    BY <2>1 DEF Begin
  <2>2. ASSUME NEW t \in Caller, Refuse(t) PROVE TypeOK'
    BY <2>2 DEF Refuse
  <2>3. ASSUME NEW t \in Caller, Generate(t) PROVE TypeOK'
    BY <2>3 DEF Generate
  <2>4. ASSUME NEW t \in Caller, CheckCircuit(t) PROVE TypeOK'
    BY <2>4 DEF CheckCircuit
  <2>5. ASSUME NEW t \in Caller, Reserve(t) PROVE TypeOK'
    BY <2>5 DEF Reserve
  <2>6. ASSUME NEW t \in Caller, Send(t) PROVE TypeOK'
    BY <2>6 DEF Send
  <2>7. ASSUME NEW t \in Caller, Answer(t) PROVE TypeOK'
    BY <2>7 DEF Answer
  <2>8. ASSUME NEW t \in Caller, Fail(t) PROVE TypeOK'
    BY <2>8 DEF Fail
  <2>9. ASSUME NEW t \in Caller, Trip(t) PROVE TypeOK'
    BY <2>9 DEF Trip
  <2>10. ASSUME NEW t \in Caller, NoCapacity(t) PROVE TypeOK'
    BY <2>10 DEF NoCapacity
  <2>11. ASSUME NEW t \in Caller, WakeUp(t) PROVE TypeOK'
    BY <2>11 DEF WakeUp
  <2>12. ASSUME NEW t \in Caller, Retry(t) PROVE TypeOK'
    BY <2>12 DEF Retry
  <2>13. ASSUME Tick PROVE TypeOK'
    BY <2>13 DEF Tick
  <2>14. QED
    BY ONLY <2>1, <2>2, <2>3, <2>4, <2>5, <2>6, <2>7, <2>8, <2>9, <2>10,
            <2>11, <2>12, <2>13, <1>2, StepCases
<1>3. QED
  BY <1>1, <1>2

\* The initial state has its type.
LEMMA TypeInit == Init => TypeOK
<1> SUFFICES ASSUME Init PROVE TypeOK
  OBVIOUS
<1>1. 1 \in 1..Attempts /\ 1 \in 1..FlexTries /\ -Interval \in Int
  BY FlexTriesPositive, CallAssumption
<1>2. slot \in [Caller -> Int]
  BY <1>1 DEF Init
<1>3. attempt \in [Caller -> 1..Attempts] /\ flex \in [Caller -> 1..FlexTries]
  BY <1>1 DEF Init
<1>4. QED
  BY <1>2, <1>3 DEF Init, TypeOK

\* Every state of the provider calls has its type; in particular neither
\* retry loop of models/client.py and structured_call.py exceeds its bound.
THEOREM CallsTypeOK == Spec => []TypeOK
<1>1. QED
  BY TypeInit, TypeStep, PTL DEF Spec

-----------------------------------------------------------------------------
(* The pacer *)

\* The pacer's next slot is an interval past every slot it has handed out,
\* and a slot is forgotten an interval after it has passed: with that, the
\* next reservation cannot come too close to any earlier one.
NextIsPast ==
    \A t \in Caller : slot[t] >= -Interval /\ lead >= slot[t] + Interval

PacerInv == NextIsPast /\ EvenSlots

\* The pacer's invariant is kept by every step; only Reserve and Tick touch
\* the slots.
LEMMA PacerStep == ASSUME TypeOK, PacerInv, [Next]_vars PROVE PacerInv'
<1> USE CallAssumption DEF PacerInv
<1>1. CASE UNCHANGED <<lead, slot>>
  BY <1>1 DEF NextIsPast, EvenSlots
<1>2. ASSUME NEW t \in Caller, Reserve(t) PROVE PacerInv'
  <2>1. slot' = [slot EXCEPT ![t] = lead] /\ lead' = lead + Interval
    BY <1>2 DEF Reserve
  <2>2. NextIsPast'
    BY <2>1 DEF NextIsPast, TypeOK
  <2>3. EvenSlots'
    BY <2>1 DEF NextIsPast, EvenSlots, TypeOK
  <2>4. QED
    BY <2>2, <2>3
<1>3. ASSUME Tick PROVE PacerInv'
  <2>1. /\ lead' = IF lead > 0 THEN lead - 1 ELSE 0
        /\ slot' = [u \in Caller |->
                     IF slot[u] > -Interval THEN slot[u] - 1 ELSE -Interval]
    BY <1>3 DEF Tick
  <2>2. NextIsPast'
    BY <2>1 DEF NextIsPast, TypeOK
  <2>3. EvenSlots'
    BY <2>1 DEF EvenSlots, TypeOK, NextIsPast
  <2>4. QED
    BY <2>2, <2>3
<1>4. CASE Next
  <2>1. \/ UNCHANGED <<lead, slot>>
        \/ \E t \in Caller : Reserve(t)
        \/ Tick
    BY <1>4 DEF Next, CallStep, Begin, Refuse, Generate, CheckCircuit, Send,
                Answer, Fail, Trip, NoCapacity, WakeUp, Retry, pacer
  <2>2. QED
    BY <2>1, <1>1, <1>2, <1>3
<1>5. QED
  BY <1>1, <1>4 DEF vars

\* Initially all slots are an interval in the past.
LEMMA PacerInit == Init => PacerInv
  BY CallAssumption DEF Init, PacerInv, NextIsPast, EvenSlots

\* Two slots of SmoothRequestPacer that have not both passed are at least an
\* interval apart, for any number of threads and after any idle period.
THEOREM CallsEvenSlots == Spec => []EvenSlots
<1>1. PacerInv => EvenSlots
  BY DEF PacerInv
<1>2. QED
  BY <1>1, TypeInit, TypeStep, PacerInit, PacerStep, PTL DEF Spec

\* While _next is n intervals ahead somebody sleeps for the slot n intervals
\* before it: slots are reserved ahead only behind sleeping threads.
SleepersInLine ==
    \A n \in Nat \ {0} :
        lead - n * Interval > 0
            => \E t \in Caller : pc[t] = "paced" /\ slot[t] = lead - n * Interval

\* The line of sleepers has no gap after any step.
LEMMA LineStep ==
    ASSUME TypeOK, SleepersInLine, [Next]_vars PROVE SleepersInLine'
<1> USE CallAssumption DEF SleepersInLine, TypeOK
<1> SUFFICES ASSUME NEW n \in Nat \ {0}, lead' - n * Interval > 0
             PROVE  \E t \in Caller :
                        pc'[t] = "paced" /\ slot'[t] = lead' - n * Interval
  OBVIOUS
<1>1. n * Interval \in Nat /\ (n - 1) * Interval = n * Interval - Interval
  OBVIOUS
<1>2. ASSUME NEW t \in Caller, Reserve(t)
      PROVE  \E u \in Caller : pc'[u] = "paced" /\ slot'[u] = lead' - n * Interval
  <2>1. /\ pc[t] = "pace" /\ pc'[t] = "paced" /\ slot'[t] = lead
        /\ lead' = lead + Interval
        /\ \A u \in Caller \ {t} : pc'[u] = pc[u] /\ slot'[u] = slot[u]
    BY <1>2 DEF Reserve, Move
  <2>2. CASE n = 1
    BY <2>1, <2>2
  <2>3. CASE n > 1
    <3>1. n - 1 \in Nat \ {0} /\ lead - (n - 1) * Interval > 0
      BY <2>1, <2>3, <1>1
    <3>2. PICK u \in Caller : pc[u] = "paced" /\ slot[u] = lead - (n - 1) * Interval
      BY <3>1
    <3>3. u # t /\ slot[u] = lead' - n * Interval
      BY <3>2, <2>1, <1>1
    <3>4. QED
      BY <3>2, <3>3, <2>1
  <2>4. QED
    BY <2>2, <2>3
<1>3. ASSUME Tick
      PROVE  \E u \in Caller : pc'[u] = "paced" /\ slot'[u] = lead' - n * Interval
  <2>1. lead > 0 /\ lead' = lead - 1
    BY <1>3, <1>1 DEF Tick
  <2>2. PICK u \in Caller : pc[u] = "paced" /\ slot[u] = lead - n * Interval
    BY <2>1, <1>1
  <2>3. slot[u] > -Interval
    BY <2>1, <2>2, <1>1
  <2>4. slot'[u] = slot[u] - 1 /\ pc' = pc
    BY <2>3, <1>3 DEF Tick
  <2>5. QED
    BY <2>1, <2>2, <2>4, <1>1
<1>4. ASSUME UNCHANGED <<lead, slot>>,
             \A t \in Caller : pc[t] = "paced" /\ slot[t] > 0 => pc'[t] = "paced"
      PROVE  \E u \in Caller : pc'[u] = "paced" /\ slot'[u] = lead' - n * Interval
  <2>1. PICK u \in Caller : pc[u] = "paced" /\ slot[u] = lead - n * Interval
    BY <1>4
  <2>2. slot[u] > 0
    BY <2>1, <1>4
  <2>3. QED
    BY <2>1, <2>2, <1>4
<1>5. \/ \E t \in Caller : Reserve(t)
      \/ Tick
      \/ /\ UNCHANGED <<lead, slot>>
         /\ \A t \in Caller : pc[t] = "paced" /\ slot[t] > 0 => pc'[t] = "paced"
  <2>1. CASE UNCHANGED vars
    BY <2>1 DEF vars
  <2>2. CASE Next
    BY <2>2 DEF Next, CallStep, Begin, Refuse, Generate, CheckCircuit, Send,
                Answer, Fail, Trip, NoCapacity, WakeUp, Retry, pacer, Move,
                Leave, Raise
  <2>3. QED
    BY <2>1, <2>2
<1>6. QED
  BY <1>2, <1>3, <1>4, <1>5

\* Initially _next has passed and nobody sleeps.
LEMMA LineInit == Init => SleepersInLine
  BY CallAssumption DEF Init, SleepersInLine

\* Sleepers in line have different slots, so the line is no longer than there
\* are threads.
LEMMA LineIsShort ==
    ASSUME TypeOK, SleepersInLine
    PROVE  lead <= (Cardinality(Caller) + 1) * Interval
<1> DEFINE N == Cardinality(Caller)
           Place == 1..(N + 1)
<1> USE CallAssumption DEF TypeOK
<1>1. N \in Nat
  BY FS_CardinalityType
<1> HIDE DEF N
<1>2. SUFFICES ASSUME lead > (N + 1) * Interval PROVE FALSE
  BY <1>1 DEF N
<1>3. \A n \in Place : \E t \in Caller : slot[t] = lead - n * Interval
  <2> SUFFICES ASSUME NEW n \in Place
               PROVE  \E t \in Caller : slot[t] = lead - n * Interval
    OBVIOUS
  <2>1. n * Interval <= (N + 1) * Interval
    BY <1>1
  <2>2. lead - n * Interval > 0
    BY <2>1, <1>1, <1>2
  <2>3. QED
    BY <2>2, <1>1 DEF SleepersInLine
<1> DEFINE sleeper == [n \in Place |-> CHOOSE t \in Caller : slot[t] = lead - n * Interval]
<1>4. \A n \in Place : sleeper[n] \in Caller /\ slot[sleeper[n]] = lead - n * Interval
  BY <1>3
<1>5. sleeper \in [Place -> Caller]
  BY <1>4
<1>6. IsFiniteSet(Place) /\ Cardinality(Place) = N + 1
  <2>1. 1 \in Int /\ N + 1 \in Int /\ ~(1 > N + 1) /\ (N + 1) - 1 + 1 = N + 1
    BY ONLY <1>1
  <2> HIDE DEF Place
  <2>2. IsFiniteSet(1..(N + 1)) /\ Cardinality(1..(N + 1)) = (N + 1) - 1 + 1
    BY ONLY <2>1, FS_Interval
  <2>3. QED
    BY ONLY <2>1, <2>2 DEF Place
<1> HIDE DEF sleeper, Place
<1>7. PICK m, n \in Place : m # n /\ sleeper[m] = sleeper[n]
  <2>1. IsFiniteSet(Caller) /\ Cardinality(Caller) < Cardinality(Place)
    BY ONLY <1>1, <1>6, CallAssumption DEF N
  <2>2. QED
    BY ONLY <2>1, <1>5, <1>6, FS_PigeonHole
<1> USE DEF Place
<1>8. m * Interval = n * Interval
  BY <1>1, <1>4, <1>7
<1>9. QED
  BY <1>1, <1>7, <1>8

\* However many threads call SmoothRequestPacer.wait, none sleeps longer than
\* one interval per thread.
THEOREM CallsBoundedWait == Spec => []BoundedWait
<1>1. ASSUME TypeOK, PacerInv, SleepersInLine PROVE BoundedWait
  <2>1. Cardinality(Caller) \in Nat /\ Interval \in Nat
    BY CallAssumption, FS_CardinalityType
  <2>2. lead <= Cardinality(Caller) * Interval + Interval
    BY <1>1, <2>1, LineIsShort
  <2>3. Cardinality(Caller) * Interval \in Nat
    BY <2>1
  <2>4. QED
    BY <1>1, <2>1, <2>2, <2>3 DEF BoundedWait, PacerInv, NextIsPast, TypeOK
<1>2. QED
  BY <1>1, TypeInit, TypeStep, PacerInit, PacerStep, LineInit, LineStep, PTL
     DEF Spec

-----------------------------------------------------------------------------
(* The circuit *)

\* Nobody is late before the circuit has opened, and who has been late is
\* past the last test it can pass: it will never pace another request.
LateInv ==
    \A t \in Caller :
        /\ late[t] <= 1
        /\ late[t] = 1 => circuit /\ pc[t] \notin {"pace", "paced"}

\* The invariant is kept: pace is reached only by CheckCircuit with the
\* circuit closed, and late grows only by Send.
LEMMA LateStep == ASSUME TypeOK, LateInv, [Next]_vars PROVE LateInv'
<1> USE DEF LateInv, TypeOK
<1>1. CASE UNCHANGED vars
  BY <1>1 DEF vars
<1>2. CASE Next
  <2> USE DEF Move, Leave, Raise
  <2>1. ASSUME NEW t \in Caller, Begin(t) PROVE LateInv'
    BY <2>1 DEF Begin
  <2>2. ASSUME NEW t \in Caller, Refuse(t) PROVE LateInv'
    BY <2>2 DEF Refuse
  <2>3. ASSUME NEW t \in Caller, Generate(t) PROVE LateInv'
    BY <2>3 DEF Generate
  <2>4. ASSUME NEW t \in Caller, CheckCircuit(t) PROVE LateInv'
    BY <2>4 DEF CheckCircuit
  <2>5. ASSUME NEW t \in Caller, Reserve(t) PROVE LateInv'
    BY <2>5 DEF Reserve
  <2>6. ASSUME NEW t \in Caller, Send(t) PROVE LateInv'
    BY <2>6 DEF Send
  <2>7. ASSUME NEW t \in Caller, Answer(t) PROVE LateInv'
    BY <2>7 DEF Answer
  <2>8. ASSUME NEW t \in Caller, Fail(t) PROVE LateInv'
    BY <2>8 DEF Fail
  <2>9. ASSUME NEW t \in Caller, Trip(t) PROVE LateInv'
    BY <2>9 DEF Trip
  <2>10. ASSUME NEW t \in Caller, NoCapacity(t) PROVE LateInv'
    BY <2>10 DEF NoCapacity
  <2>11. ASSUME NEW t \in Caller, WakeUp(t) PROVE LateInv'
    BY <2>11 DEF WakeUp
  <2>12. ASSUME NEW t \in Caller, Retry(t) PROVE LateInv'
    BY <2>12 DEF Retry
  <2>13. ASSUME Tick PROVE LateInv'
    BY <2>13 DEF Tick
  <2>14. QED
    BY ONLY <2>1, <2>2, <2>3, <2>4, <2>5, <2>6, <2>7, <2>8, <2>9, <2>10,
            <2>11, <2>12, <2>13, <1>2, StepCases
<1>3. QED
  BY <1>1, <1>2

\* Initially nobody has sent anything.
LEMMA LateInit == Init => LateInv
  BY DEF Init, LateInv

\* Over all its retries and all later calls, a thread sends at most one
\* request after PROVIDER_CIRCUIT has opened, for any bounds of the loops.
THEOREM CallsOneLateCall == Spec => []OneLateCall
<1>1. LateInv => OneLateCall
  BY DEF LateInv, OneLateCall
<1>2. QED
  BY <1>1, TypeInit, TypeStep, LateInit, LateStep, PTL DEF Spec

=============================================================================
