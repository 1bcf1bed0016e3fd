-------------------------- MODULE JsonlStoreProofs --------------------------
(***************************************************************************)
(* Proofs about JsonlStore for every set of threads, processes and         *)
(* identities, every target, every fault class and every number of         *)
(* crashes.                                                                *)
(***************************************************************************)
EXTENDS JsonlStore, TLAPS

\* What the duplicate and target checks established under the lock is still
\* true when the line is written.
CheckHolds ==
    \A t \in Thread :
        pc[t] \in {"cleared", "writing"} =>
            /\ tail # Torn
            /\ req[t] \notin Range(Existing)
            /\ Len(Existing) < MaxRecords

\* A whole record without its newline is not also a complete line.
TailIsNew == tail \in Identity => tail \notin Range(lines)

\* The inductive strengthening of the safety properties.
IInv ==
    /\ TypeOK
    /\ LockExclusive
    /\ CheckHolds
    /\ TailIsNew
    /\ UniqueIdentities
    /\ WithinTarget
    /\ LossIsLoud

-----------------------------------------------------------------------------
\* Appending an element adds it to the range of a sequence and nothing else.
LEMMA RangeAppend ==
    ASSUME NEW S, NEW s \in Seq(S), NEW e \in S
    PROVE  /\ Append(s, e) \in Seq(S)
           /\ Len(Append(s, e)) = Len(s) + 1
           /\ Range(Append(s, e)) = Range(s) \cup {e}
<1>1. /\ Append(s, e) \in Seq(S)
      /\ Len(Append(s, e)) = Len(s) + 1
      /\ DOMAIN Append(s, e) = 1..Len(s) + 1
      /\ DOMAIN s = 1..Len(s)
      /\ Len(s) \in Nat
  OBVIOUS
<1>2. /\ \A k \in 1..Len(s) : Append(s, e)[k] = s[k]
      /\ Append(s, e)[Len(s) + 1] = e
  OBVIOUS
<1>3. Range(s) \subseteq Range(Append(s, e)) /\ e \in Range(Append(s, e))
  BY <1>1, <1>2 DEF Range
<1>4. Range(Append(s, e)) \subseteq Range(s) \cup {e}
  <2>1. SUFFICES ASSUME NEW k \in DOMAIN Append(s, e)
                 PROVE  Append(s, e)[k] \in Range(s) \cup {e}
    BY DEF Range
  <2>2. CASE k \in 1..Len(s)
    BY <1>1, <1>2, <2>2 DEF Range
  <2>3. CASE k = Len(s) + 1
    BY <1>2, <2>3
  <2>4. QED
    BY <1>1, <2>1, <2>2, <2>3
<1>5. QED
  BY <1>1, <1>3, <1>4

\* What CompleteLine does to a store that satisfies the invariant and holds a
\* cleared identity.
LEMMA CompleteLineSafe ==
    ASSUME StoreAssumption, IInv, NEW i \in Identity,
           tail # Torn, i \notin Range(Existing), Len(Existing) < MaxRecords,
           CompleteLine(i)
    PROVE  /\ lines' \in Seq(Identity)
           /\ tail' \in Identity \cup {Clean, Torn}
           /\ TailIsNew' /\ UniqueIdentities' /\ WithinTarget'
           /\ Range(lines) \subseteq Range(lines')
           /\ i \in Range(lines') \/ tail' = Torn
<1>1. CASE tail = Clean
  <2>1. lines' = Append(lines, i) /\ tail' = Clean /\ tail \notin Identity
    BY <1>1, StoreAssumption DEF CompleteLine, Clean, StoreAssumption
  <2>2. i \notin Range(lines) /\ Len(lines) < MaxRecords
    BY <2>1 DEF Existing
  <2>3. /\ lines' \in Seq(Identity)
        /\ Len(lines') = Len(lines) + 1
        /\ Range(lines') = Range(lines) \cup {i}
    BY <2>1, RangeAppend DEF IInv, TypeOK
  <2>4. UniqueIdentities'
    <3>1. SUFFICES ASSUME NEW j \in 1..Len(lines)+1, NEW k \in 1..Len(lines)+1,
                          lines'[j] = lines'[k]
                   PROVE  j = k
      BY <2>3 DEF UniqueIdentities
    <3>2. \A m \in 1..Len(lines) : lines'[m] = lines[m] /\ lines[m] \in Range(lines)
      BY <2>1 DEF IInv, TypeOK, Range
    <3>3. lines'[Len(lines) + 1] = i
      BY <2>1 DEF IInv, TypeOK
    <3>4. Len(lines) \in Nat
      BY DEF IInv, TypeOK
    <3>5. CASE j \in 1..Len(lines) /\ k \in 1..Len(lines)
      BY <3>1, <3>2, <3>5 DEF IInv, UniqueIdentities
    <3>6. CASE j = Len(lines) + 1 \/ k = Len(lines) + 1
      BY <2>2, <3>1, <3>2, <3>3, <3>4, <3>6
    <3>7. QED
      BY <3>4, <3>5, <3>6
  <2>5. WithinTarget'
    BY <2>1, <2>2, <2>3, StoreAssumption
       DEF WithinTarget, Existing, StoreAssumption, IInv, TypeOK
  <2>6. tail' \notin Identity
    BY <2>1, StoreAssumption DEF StoreAssumption, Clean
  <2>7. QED
    BY <2>1, <2>3, <2>4, <2>5, <2>6 DEF TailIsNew
<1>2. CASE tail # Clean
  <2>1. lines' = lines /\ tail' = Torn /\ tail \in Identity
    BY <1>2 DEF CompleteLine, IInv, TypeOK
  <2>2. tail' \notin Identity
    BY <2>1, StoreAssumption DEF StoreAssumption, Torn
  <2>3. Len(lines) <= MaxRecords
    BY <2>1, StoreAssumption, RangeAppend
       DEF IInv, WithinTarget, Existing, TypeOK, StoreAssumption
  <2>4. QED
    BY <2>1, <2>2, <2>3
       DEF IInv, TypeOK, TailIsNew, UniqueIdentities, WithinTarget, Existing
<1>3. QED
  BY <1>1, <1>2

\* The same for a write that stopped anywhere.
LEMMA InterruptedSafe ==
    ASSUME StoreAssumption, IInv, NEW i \in Identity,
           tail # Torn, i \notin Range(Existing), Len(Existing) < MaxRecords,
           Interrupted(i)
    PROVE  /\ lines' \in Seq(Identity)
           /\ tail' \in Identity \cup {Clean, Torn}
           /\ TailIsNew' /\ UniqueIdentities' /\ WithinTarget'
           /\ Range(lines) \subseteq Range(lines')
<1>1. CASE CompleteLine(i)
  BY <1>1, CompleteLineSafe
<1>2. CASE tail' \in TailAfter(i) /\ lines' = lines
  <2>1. /\ lines' = lines
        /\ \/ tail' = tail
           \/ tail' = Torn
           \/ tail' = i /\ tail = Clean /\ "unterminated" \in Fault
    BY <1>2 DEF TailAfter
  <2>2. CASE tail' = tail
    BY <2>1, <2>2 DEF IInv, TypeOK, TailIsNew, UniqueIdentities, WithinTarget,
                      Existing
  <2>3. CASE tail' = Torn
    <3>1. tail' \notin Identity
      BY <2>3, StoreAssumption DEF StoreAssumption, Torn
    <3>2. Len(lines) <= MaxRecords
      BY StoreAssumption, RangeAppend
         DEF IInv, WithinTarget, Existing, TypeOK, StoreAssumption
    <3>3. QED
      BY <2>1, <2>3, <3>1, <3>2
         DEF IInv, TypeOK, TailIsNew, UniqueIdentities, WithinTarget, Existing
  <2>4. CASE tail' = i /\ tail = Clean /\ "unterminated" \in Fault
    <3>1. tail \notin Identity
      BY <2>4, StoreAssumption DEF StoreAssumption, Clean
    <3>2. i \notin Range(lines) /\ Len(lines) < MaxRecords
      BY <3>1 DEF Existing
    <3>3. Existing' = Append(lines, i)
      BY <2>1, <2>4 DEF Existing
    <3>4. WithinTarget'
      BY <3>2, <3>3, RangeAppend, StoreAssumption
         DEF WithinTarget, IInv, TypeOK, StoreAssumption
    <3>5. QED
      BY <2>1, <2>4, <3>2, <3>4
         DEF IInv, TypeOK, TailIsNew, UniqueIdentities
  <2>5. QED
    BY <2>1, <2>2, <2>3, <2>4
<1>3. QED
  BY <1>1, <1>2 DEF Interrupted

-----------------------------------------------------------------------------
\* CheckHolds of the other threads: none of them is between check and write.
LEMMA OnlyHolder ==
    ASSUME IInv, NEW t \in Thread, pc[t] \in Holding
    PROVE  \A u \in Thread : pc[u] \in Holding => u = t
  BY DEF IInv, LockExclusive

\* The initial states satisfy the invariant.
LEMMA InitInv == ASSUME StoreAssumption, Init PROVE IInv
<1>1. TypeOK
  BY DEF Init, TypeOK, Places, Free, Clean
<1>2. tail \notin Identity /\ lines = << >> /\ Existing = << >>
  BY StoreAssumption DEF Init, Clean, Existing, StoreAssumption
<1>3. LockExclusive /\ CheckHolds
  BY DEF Init, LockExclusive, CheckHolds, Holding
<1>4. UniqueIdentities /\ WithinTarget
  BY <1>2, StoreAssumption DEF UniqueIdentities, WithinTarget, StoreAssumption
<1>5. TailIsNew /\ LossIsLoud
  BY <1>2 DEF Init, TailIsNew, LossIsLoud
<1>6. QED
  BY <1>1, <1>3, <1>4, <1>5 DEF IInv

\* Facts about the file that a step leaves alone are preserved by it.
LEMMA FileUnchanged ==
    ASSUME IInv, UNCHANGED <<lines, tail>>
    PROVE  /\ TailIsNew' /\ UniqueIdentities' /\ WithinTarget'
           /\ Existing' = Existing
  BY DEF IInv, TailIsNew, UniqueIdentities, WithinTarget, Existing

\* Every step preserves the invariant.
LEMMA StepInv == ASSUME StoreAssumption, IInv, [Next]_vars PROVE IInv'
<1> USE DEF Holding
<1>1. ASSUME NEW t \in Thread, NEW i \in Identity, Call(t, i) PROVE IInv'
  <2>1. TypeOK' /\ LockExclusive' /\ CheckHolds' /\ LossIsLoud'
    BY <1>1, FileUnchanged
       DEF Call, IInv, TypeOK, Places, LockExclusive, CheckHolds, LossIsLoud
  <2>2. QED
    BY <1>1, <2>1, FileUnchanged DEF Call, IInv
<1>2. ASSUME NEW t \in Thread, Acquire(t) PROVE IInv'
  <2>1. \A u \in Thread : pc[u] \notin Holding
    BY <1>2, StoreAssumption
       DEF Acquire, IInv, LockExclusive, Free, StoreAssumption
  <2>2. TypeOK' /\ LockExclusive' /\ CheckHolds' /\ LossIsLoud'
    BY <1>2, <2>1
       DEF Acquire, IInv, TypeOK, Places, LockExclusive, CheckHolds, LossIsLoud
  <2>3. QED
    BY <1>2, <2>2, FileUnchanged DEF Acquire, IInv
<1>3. ASSUME NEW t \in Thread, TimeOut(t) PROVE IInv'
  <2>1. TypeOK' /\ LockExclusive' /\ CheckHolds' /\ LossIsLoud'
    BY <1>3, FileUnchanged
       DEF TimeOut, IInv, TypeOK, Places, LockExclusive, CheckHolds, LossIsLoud
  <2>2. QED
    BY <1>3, <2>1, FileUnchanged DEF TimeOut, IInv
<1>4. ASSUME NEW t \in Thread, AcquireFails(t) PROVE IInv'
  <2>1. \A u \in Thread : pc[u] \notin Holding
    BY <1>4, StoreAssumption
       DEF AcquireFails, IInv, LockExclusive, Free, StoreAssumption
  <2>2. TypeOK' /\ LockExclusive' /\ CheckHolds' /\ LossIsLoud'
    BY <1>4, <2>1
       DEF AcquireFails, IInv, TypeOK, Places, LockExclusive, CheckHolds,
           LossIsLoud, Orphan
  <2>3. QED
    BY <1>4, <2>2, FileUnchanged DEF AcquireFails, IInv
<1>5. ASSUME NEW t \in Thread, Check(t) PROVE IInv'
  <2>1. TypeOK' /\ LockExclusive' /\ LossIsLoud'
    BY <1>5 DEF Check, IInv, TypeOK, Places, LockExclusive, LossIsLoud
  <2>2. CheckHolds'
    <3>1. SUFFICES ASSUME NEW u \in Thread, pc'[u] \in {"cleared", "writing"}
                   PROVE  /\ tail # Torn
                          /\ req[u] \notin Range(Existing)
                          /\ Len(Existing) < MaxRecords
      BY <1>5, FileUnchanged DEF Check, CheckHolds
    <3>2. CASE u = t
      BY <1>5, <3>1, <3>2 DEF Check, IInv, TypeOK, Readable
    <3>3. CASE u # t
      BY <1>5, <3>1, <3>3 DEF Check, IInv, TypeOK, CheckHolds
    <3>4. QED
      BY <3>2, <3>3
  <2>3. QED
    BY <1>5, <2>1, <2>2, FileUnchanged DEF Check, IInv
<1>6. ASSUME NEW t \in Thread, StartWrite(t) PROVE IInv'
  <2>1. TypeOK' /\ LockExclusive' /\ LossIsLoud'
    BY <1>6 DEF StartWrite, IInv, TypeOK, Places, LockExclusive, LossIsLoud
  <2>2. CheckHolds'
    BY <1>6, FileUnchanged DEF StartWrite, IInv, TypeOK, CheckHolds
  <2>3. QED
    BY <1>6, <2>1, <2>2, FileUnchanged DEF StartWrite, IInv
<1>7. ASSUME NEW t \in Thread, FinishWrite(t) PROVE IInv'
  <2>1. /\ req[t] \in Identity /\ tail # Torn
        /\ req[t] \notin Range(Existing) /\ Len(Existing) < MaxRecords
        /\ CompleteLine(req[t])
    BY <1>7 DEF FinishWrite, IInv, TypeOK, CheckHolds
  <2>2. /\ lines' \in Seq(Identity) /\ tail' \in Identity \cup {Clean, Torn}
        /\ TailIsNew' /\ UniqueIdentities' /\ WithinTarget'
        /\ Range(lines) \subseteq Range(lines')
        /\ req[t] \in Range(lines') \/ tail' = Torn
    BY <2>1, CompleteLineSafe
  <2>3. TypeOK' /\ LockExclusive'
    BY <1>7, <2>1, <2>2 DEF FinishWrite, IInv, TypeOK, Places, LockExclusive
  <2>4. CheckHolds'
    BY <1>7, OnlyHolder DEF FinishWrite, IInv, TypeOK, CheckHolds
  <2>5. LossIsLoud'
    BY <1>7, <2>1, <2>2 DEF FinishWrite, IInv, LossIsLoud
  <2>6. QED
    BY <2>2, <2>3, <2>4, <2>5 DEF IInv
<1>8. ASSUME NEW t \in Thread, WriteFails(t) PROVE IInv'
  <2>1. /\ req[t] \in Identity /\ tail # Torn
        /\ req[t] \notin Range(Existing) /\ Len(Existing) < MaxRecords
        /\ Interrupted(req[t])
    BY <1>8 DEF WriteFails, IInv, TypeOK, CheckHolds
  <2>2. /\ lines' \in Seq(Identity) /\ tail' \in Identity \cup {Clean, Torn}
        /\ TailIsNew' /\ UniqueIdentities' /\ WithinTarget'
        /\ Range(lines) \subseteq Range(lines')
    BY <2>1, InterruptedSafe
  <2>3. TypeOK' /\ LockExclusive'
    BY <1>8, <2>1, <2>2 DEF WriteFails, IInv, TypeOK, Places, LockExclusive
  <2>4. CheckHolds'
    BY <1>8, OnlyHolder DEF WriteFails, IInv, TypeOK, CheckHolds
  <2>5. LossIsLoud'
    BY <1>8, <2>1, <2>2 DEF WriteFails, IInv, LossIsLoud
  <2>6. QED
    BY <2>2, <2>3, <2>4, <2>5 DEF IInv
<1>9. ASSUME NEW t \in Thread, Release(t) PROVE IInv'
  <2>1. TypeOK' /\ LossIsLoud'
    BY <1>9 DEF Release, IInv, TypeOK, Places, LossIsLoud, Free
  <2>2. LockExclusive' /\ CheckHolds'
    BY <1>9, OnlyHolder, FileUnchanged
       DEF Release, IInv, TypeOK, LockExclusive, CheckHolds
  <2>3. QED
    BY <1>9, <2>1, <2>2, FileUnchanged DEF Release, IInv
<1>10. ASSUME NEW p \in Process, Crash(p) PROVE IInv'
  <2> DEFINE mine == {t \in Thread : ProcessOf[t] = p}
             writing == {t \in mine : pc[t] = "writing"}
  <2>1. /\ pc' = [t \in Thread |-> IF t \in mine THEN "down" ELSE pc[t]]
        /\ lock' = IF lock \in mine THEN Orphan ELSE lock
        /\ crashes' = crashes + 1 /\ UNCHANGED <<req, acked>>
        /\ IF writing = {} THEN UNCHANGED <<lines, tail>>
           ELSE \E t \in writing : Interrupted(req[t])
    BY <1>10 DEF Crash
  <2>2. /\ lines' \in Seq(Identity) /\ tail' \in Identity \cup {Clean, Torn}
        /\ TailIsNew' /\ UniqueIdentities' /\ WithinTarget'
        /\ Range(lines) \subseteq Range(lines')
        /\ UNCHANGED <<lines, tail>> \/ tail # Torn
    <3>1. CASE writing = {}
      <4>1. UNCHANGED <<lines, tail>>
        BY <2>1, <3>1
      <4>2. QED
        BY <4>1, FileUnchanged DEF IInv, TypeOK
    <3>2. CASE writing # {}
      <4>1. PICK t \in writing : Interrupted(req[t])
        BY <2>1, <3>2
      <4>2. /\ req[t] \in Identity /\ tail # Torn
            /\ req[t] \notin Range(Existing) /\ Len(Existing) < MaxRecords
        BY DEF IInv, TypeOK, CheckHolds
      <4>3. QED
        BY <4>1, <4>2, InterruptedSafe
    <3>3. QED
      BY <3>1, <3>2
  <2>3. TypeOK'
    BY <2>1, <2>2 DEF IInv, TypeOK, Places, Orphan
  <2>4. LockExclusive'
    BY <2>1 DEF IInv, TypeOK, LockExclusive
  <2>5. CheckHolds'
    <3>1. SUFFICES ASSUME NEW u \in Thread, pc'[u] \in {"cleared", "writing"}
                   PROVE  /\ tail' # Torn
                          /\ req'[u] \notin Range(Existing')
                          /\ Len(Existing') < MaxRecords
      BY DEF CheckHolds
    <3>2. u \notin mine /\ pc[u] = pc'[u]
      BY <2>1, <3>1
    <3>3. writing = {}
      BY <3>1, <3>2, OnlyHolder
    <3>4. UNCHANGED <<lines, tail, req>>
      BY <2>1, <3>3
    <3>5. Existing' = Existing
      BY <3>4 DEF Existing
    <3>6. QED
      BY <3>1, <3>2, <3>4, <3>5 DEF IInv, CheckHolds
  <2>6. LossIsLoud'
    BY <2>1, <2>2 DEF IInv, LossIsLoud
  <2>7. QED
    BY <2>2, <2>3, <2>4, <2>5, <2>6 DEF IInv
<1>11. ASSUME NEW p \in Process, Restart(p) PROVE IInv'
  <2>1. TypeOK' /\ LockExclusive' /\ CheckHolds' /\ LossIsLoud'
    BY <1>11, FileUnchanged
       DEF Restart, IInv, TypeOK, Places, LockExclusive, CheckHolds, LossIsLoud
  <2>2. QED
    BY <1>11, <2>1, FileUnchanged DEF Restart, IInv
<1>12. ASSUME ClearOrphan PROVE IInv'
  <2>1. TypeOK' /\ LockExclusive' /\ CheckHolds' /\ LossIsLoud'
    BY <1>12, StoreAssumption, FileUnchanged
       DEF ClearOrphan, IInv, TypeOK, LockExclusive, CheckHolds, LossIsLoud,
           Free, Orphan, StoreAssumption
  <2>2. QED
    BY <1>12, <2>1, FileUnchanged DEF ClearOrphan, IInv
<1>13. ASSUME UNCHANGED vars PROVE IInv'
  <2>1. TypeOK' /\ LockExclusive' /\ CheckHolds' /\ LossIsLoud'
    BY <1>13, FileUnchanged
       DEF vars, IInv, TypeOK, LockExclusive, CheckHolds, LossIsLoud
  <2>2. QED
    BY <1>13, <2>1, FileUnchanged DEF vars, IInv
<1>14. QED
  BY <1>1, <1>2, <1>3, <1>4, <1>5, <1>6, <1>7, <1>8, <1>9, <1>10, <1>11,
     <1>12, <1>13 DEF Next, ThreadStep

-----------------------------------------------------------------------------
\* The conjunction of the safety properties is an invariant of the store.
LEMMA StoreInvariant == Spec => []IInv
<1>1. Init => IInv
  BY InitInv, StoreAssumption
<1>2. IInv /\ [Next]_vars => IInv'
  BY StepInv, StoreAssumption
<1>3. QED
  BY <1>1, <1>2, PTL DEF Spec

\* The variables keep their types.
THEOREM StoreTypeOK == Spec => []TypeOK
<1>1. IInv => TypeOK
  BY DEF IInv
<1>2. QED
  BY <1>1, StoreInvariant, PTL

\* The lock file of _exclusive_lock excludes: whatever crashes and restarts
\* happen, only the thread that created it is inside.
THEOREM StoreLockExclusive == Spec => []LockExclusive
<1>1. IInv => LockExclusive
  BY DEF IInv
<1>2. QED
  BY <1>1, StoreInvariant, PTL

\* append_jsonl_record never writes an identity a second time.
THEOREM StoreUniqueIdentities == Spec => []UniqueIdentities
<1>1. IInv => UniqueIdentities
  BY DEF IInv
<1>2. QED
  BY <1>1, StoreInvariant, PTL

\* The file never exceeds max_records, however many processes append to it.
THEOREM StoreWithinTarget == Spec => []WithinTarget
<1>1. IInv => WithinTarget
  BY DEF IInv
<1>2. QED
  BY <1>1, StoreInvariant, PTL

\* A file that can be read holds every record whose append returned, and at
\* most one such record is ever missing from a file that cannot.
THEOREM StoreLossIsLoud == Spec => []LossIsLoud
<1>1. IInv => LossIsLoud
  BY DEF IInv
<1>2. QED
  BY <1>1, StoreInvariant, PTL

-----------------------------------------------------------------------------
\* A write of a cleared identity, completed or interrupted, is a step of the
\* public output or leaves it alone.
LEMMA InterruptedRefines ==
    ASSUME StoreAssumption, IInv, NEW i \in Identity,
           i \notin Range(Existing), Len(Existing) < MaxRecords,
           Interrupted(i)
    PROVE  [Output!Next]_lines
<1>1. CASE tail = Clean /\ CompleteLine(i)
  <2>1. tail \notin Identity
    BY <1>1, StoreAssumption DEF Clean, StoreAssumption
  <2>2. Output!Accept(i)
    BY <1>1, <2>1
       DEF Output!Accept, Output!Range, Range, CompleteLine, Existing
  <2>3. QED
    BY <2>2 DEF Output!Next
<1>2. CASE ~(tail = Clean /\ CompleteLine(i))
  BY <1>2 DEF Interrupted, CompleteLine
<1>3. QED
  BY <1>1, <1>2

\* Every step of the store is a step of the public output or a stutter.
LEMMA StepRefines ==
    ASSUME StoreAssumption, IInv, [Next]_vars PROVE [Output!Next]_lines
<1>1. ASSUME NEW t \in Thread, pc[t] = "writing", Interrupted(req[t])
      PROVE  [Output!Next]_lines
  BY <1>1, InterruptedRefines, StoreAssumption DEF IInv, TypeOK, CheckHolds
<1>2. ASSUME NEW t \in Thread, FinishWrite(t) \/ WriteFails(t)
      PROVE  [Output!Next]_lines
  BY <1>1, <1>2 DEF FinishWrite, WriteFails, Interrupted
<1>3. ASSUME NEW p \in Process, Crash(p) PROVE [Output!Next]_lines
  BY <1>1, <1>3 DEF Crash
<1>4. ASSUME NEW t \in Thread,
             \/ Acquire(t) \/ TimeOut(t) \/ AcquireFails(t) \/ Check(t)
             \/ StartWrite(t) \/ Release(t)
      PROVE  lines' = lines
  BY <1>4 DEF Acquire, TimeOut, AcquireFails, Check, StartWrite, Release
<1>5. ASSUME \/ \E t \in Thread, i \in Identity : Call(t, i)
             \/ \E p \in Process : Restart(p)
             \/ ClearOrphan
             \/ UNCHANGED vars
      PROVE  lines' = lines
  BY <1>5 DEF Call, Restart, ClearOrphan, vars
<1>6. QED
  BY <1>2, <1>3, <1>4, <1>5 DEF Next, ThreadStep

\* The file with its lock implements the public output: an append-only list
\* of distinct pairs that stops growing at the target.
THEOREM StoreImplementsOutput == Spec => OutputSpec
<1>1. Init => Output!Init
  BY DEF Init, Output!Init
<1>2. IInv /\ [Next]_vars => [Output!Next]_lines
  BY StepRefines, StoreAssumption
<1>3. QED
  BY <1>1, <1>2, StoreInvariant, PTL DEF Spec, OutputSpec, Output!Spec

=============================================================================
