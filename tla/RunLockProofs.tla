--------------------------- MODULE RunLockProofs ---------------------------
(***************************************************************************)
(* Proofs about RunLock for every set of processes and any number of       *)
(* deaths.                                                                 *)
(***************************************************************************)
EXTENDS RunLock, TLAPS

\* A lock file that is there belongs to a process that is about to write it,
\* that is inside or on its way out, or that was killed.
OwnerOK ==
    file # None =>
        /\ pc[file] \in {"write", "critical", "leave", "compare", "remove", "dead"}
        /\ pc[file] \in {"critical", "leave", "compare", "remove"} => file \in written

\* Nobody takes its own pid for that of the owner.
SeenOK == \A p \in Process : seen[p] # p

\* While builds are started one after the other at most one is alive, it knows
\* all the work recorded so far, and none was ever rejected.
SerialOK ==
    ~overlap =>
        /\ \A p, q \in Process : Alive(p) /\ Alive(q) => p = q
        /\ \A p \in Process : Alive(p) => saved \subseteq mem[p]
        /\ \A p \in Process : pc[p] # "rejected"

LockInv == TypeOK /\ OwnerOK /\ SeenOK /\ SerialOK

LEMMA InitLock == Init => LockInv
<1> SUFFICES ASSUME Init PROVE LockInv
  OBVIOUS
<1>1. TypeOK
  BY DEF Init, TypeOK, Places
<1>2. OwnerOK
  BY DEF Init, OwnerOK
<1>3. SeenOK
  BY RunLockAssumption DEF Init, SeenOK, None
<1>4. \A p \in Process : pc[p] = "new"
  BY DEF Init
<1>5. SerialOK
  BY <1>4 DEF SerialOK, Alive
<1>6. QED
  BY <1>1, <1>2, <1>3, <1>5 DEF LockInv

LEMMA StepLock == ASSUME LockInv, [Next]_vars PROVE LockInv'
<1> USE RunLockAssumption DEF LockInv, Goto, None
<1>1. ASSUME NEW p \in Process, Construct(p) PROVE LockInv'
  <2>1. TypeOK'
    BY <1>1 DEF Construct, TypeOK, Places
  <2>2. OwnerOK' /\ SeenOK'
    BY <1>1 DEF Construct, TypeOK, OwnerOK, SeenOK
  <2>3. SerialOK'
    BY <1>1 DEF Construct, TypeOK, SerialOK, Alive, Gone
  <2>4. QED
    BY <2>1, <2>2, <2>3
<1>2. ASSUME NEW p \in Process, TryCreate(p) PROVE LockInv'
  <2>1. TypeOK'
    BY <1>2 DEF TryCreate, TypeOK, Places
  <2>2. OwnerOK' /\ SeenOK'
    BY <1>2 DEF TryCreate, TypeOK, OwnerOK, SeenOK
  <2>3. SerialOK'
    BY <1>2 DEF TryCreate, TypeOK, SerialOK, Alive, Gone
  <2>4. QED
    BY <2>1, <2>2, <2>3
<1>3. ASSUME NEW p \in Process, WritePayload(p) PROVE LockInv'
  <2>1. TypeOK'
    BY <1>3 DEF WritePayload, TypeOK, Places
  <2>2. OwnerOK' /\ SeenOK'
    BY <1>3 DEF WritePayload, TypeOK, OwnerOK, SeenOK
  <2>3. SerialOK'
    BY <1>3 DEF WritePayload, TypeOK, SerialOK, Alive, Gone
  <2>4. QED
    BY <2>1, <2>2, <2>3
<1>4. ASSUME NEW p \in Process, Inspect(p) PROVE LockInv'
  <2>1. PidInFile \in Process \cup {None} /\ PidInFile # p
    BY <1>4 DEF Inspect, PidInFile, TypeOK, OwnerOK
  <2>2. TypeOK'
    BY <1>4, <2>1 DEF Inspect, TypeOK, Places
  <2>3. OwnerOK' /\ SeenOK'
    BY <1>4, <2>1 DEF Inspect, TypeOK, OwnerOK, SeenOK
  <2>4. SerialOK'
    BY <1>4 DEF Inspect, TypeOK, SerialOK, Alive, Gone
  <2>5. QED
    BY <2>2, <2>3, <2>4
<1>5. ASSUME NEW p \in Process, Judge(p) PROVE LockInv'
  <2>1. TypeOK'
    BY <1>5 DEF Judge, TypeOK, Places
  <2>2. OwnerOK' /\ SeenOK'
    BY <1>5 DEF Judge, TypeOK, OwnerOK, SeenOK
  <2>3. ~overlap => ~(seen[p] # None /\ Alive(seen[p]))
    <3>1. Alive(p) /\ seen[p] # p /\ seen[p] \in Process \cup {None}
      BY <1>5 DEF Judge, TypeOK, SeenOK, Alive, Gone
    <3>2. QED
      BY <3>1 DEF SerialOK
  <2>4. SerialOK'
    BY <1>5, <2>3 DEF Judge, TypeOK, SerialOK, Alive, Gone
  <2>5. QED
    BY <2>1, <2>2, <2>4
<1>6. ASSUME NEW p \in Process, Unlink(p) PROVE LockInv'
  <2>1. TypeOK'
    BY <1>6 DEF Unlink, TypeOK, Places
  <2>2. OwnerOK' /\ SeenOK'
    BY <1>6 DEF Unlink, OwnerOK, SeenOK
  <2>3. SerialOK'
    BY <1>6 DEF Unlink, TypeOK, SerialOK, Alive, Gone
  <2>4. QED
    BY <2>1, <2>2, <2>3
<1>7. ASSUME NEW p \in Process, Work(p) PROVE LockInv'
  <2>1. TypeOK'
    BY <1>7 DEF Work, TypeOK, Places
  <2>2. OwnerOK' /\ SeenOK'
    BY <1>7 DEF Work, TypeOK, OwnerOK, SeenOK
  <2>3. SerialOK'
    BY <1>7 DEF Work, TypeOK, SerialOK, Alive, Gone
  <2>4. QED
    BY <2>1, <2>2, <2>3
<1>8. ASSUME NEW p \in Process, Leave(p) PROVE LockInv'
  <2>1. TypeOK'
    BY <1>8 DEF Leave, TypeOK, Places
  <2>2. OwnerOK' /\ SeenOK'
    BY <1>8 DEF Leave, TypeOK, OwnerOK, SeenOK
  <2>3. SerialOK'
    BY <1>8 DEF Leave, TypeOK, SerialOK, Alive, Gone
  <2>4. QED
    BY <2>1, <2>2, <2>3
<1>9. ASSUME NEW p \in Process, Compare(p) PROVE LockInv'
  <2>1. TypeOK'
    BY <1>9 DEF Compare, TypeOK, Places
  <2>2. OwnerOK' /\ SeenOK'
    BY <1>9 DEF Compare, PidInFile, TypeOK, OwnerOK, SeenOK
  <2>3. SerialOK'
    BY <1>9 DEF Compare, TypeOK, SerialOK, Alive, Gone
  <2>4. QED
    BY <2>1, <2>2, <2>3
<1>10. ASSUME NEW p \in Process, Remove(p) PROVE LockInv'
  <2>1. TypeOK'
    BY <1>10 DEF Remove, TypeOK, Places
  <2>2. OwnerOK' /\ SeenOK'
    BY <1>10 DEF Remove, OwnerOK, SeenOK
  <2>3. SerialOK'
    BY <1>10 DEF Remove, TypeOK, SerialOK, Alive, Gone
  <2>4. QED
    BY <2>1, <2>2, <2>3
<1>11. ASSUME NEW p \in Process, Die(p) PROVE LockInv'
  <2>1. TypeOK'
    BY <1>11 DEF Die, TypeOK, Places
  <2>2. OwnerOK' /\ SeenOK'
    BY <1>11 DEF Die, TypeOK, OwnerOK, SeenOK
  <2>3. SerialOK'
    BY <1>11 DEF Die, TypeOK, SerialOK, Alive, Gone
  <2>4. QED
    BY <2>1, <2>2, <2>3
<1>12. CASE UNCHANGED vars
  BY <1>12 DEF vars, TypeOK, OwnerOK, SeenOK, SerialOK, Alive
<1>13. QED
  BY <1>1, <1>2, <1>3, <1>4, <1>5, <1>6, <1>7, <1>8, <1>9, <1>10, <1>11, <1>12
     DEF Next, Step

THEOREM LockInvariant == Spec => []LockInv
  BY InitLock, StepLock, PTL DEF Spec

\* Type correctness.
THEOREM LockTypeOK == Spec => []TypeOK
<1>1. LockInv => TypeOK
  BY DEF LockInv
<1>2. QED
  BY <1>1, LockInvariant, PTL

\* A build that ends normally leaves no lock file of its own behind.
THEOREM LockNothingLeftBehind == Spec => []NothingLeftBehind
<1>1. LockInv => NothingLeftBehind
  BY DEF LockInv, OwnerOK, NothingLeftBehind
<1>2. QED
  BY <1>1, LockInvariant, PTL

\* Builds started one after the other always recover the lock of a killed one.
THEOREM LockSerialRecovery == Spec => []SerialRecovery
<1>1. LockInv => SerialRecovery
  BY DEF LockInv, SerialOK, SerialRecovery, Inside, Alive, Gone
<1>2. QED
  BY <1>1, LockInvariant, PTL

\* ... and never lose recorded work.
THEOREM LockSerialProgress == Spec => SerialProgress
<1>1. ASSUME LockInv, [Next]_vars, ~overlap' PROVE saved \subseteq saved'
  <2>1. ASSUME NEW p \in Process, Work(p) PROVE saved \subseteq saved'
    <3>1. ~overlap /\ Alive(p)
      BY <1>1, <2>1 DEF Work, Alive, Gone
    <3>2. saved \subseteq mem[p]
      BY <1>1, <3>1 DEF LockInv, SerialOK
    <3>3. saved' = mem[p] \cup {p}
      BY <1>1, <2>1 DEF Work, LockInv, TypeOK
    <3>4. QED
      BY <3>2, <3>3
  <2>2. QED
    BY <1>1, <2>1 DEF Next, Step, Construct, TryCreate, WritePayload, Inspect,
       Judge, Unlink, Leave, Compare, Remove, Die, vars
<1>2. LockInv /\ [Next]_vars => [~overlap' => saved \subseteq saved']_vars
  BY <1>1
<1>3. QED
  BY <1>2, LockInvariant, PTL DEF Spec, SerialProgress

=============================================================================
