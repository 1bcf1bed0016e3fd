-------------------------- MODULE MediaLeaseProofs --------------------------
(* Proofs about MediaLease, for any number of processes. *)
EXTENDS MediaLease, TLAPS

\* Every step is one of these actions.
LEMMA StepCases ==
    ASSUME NEW P,
           \A c \in Client : Begin(c) => P,
           \A c \in Client : SourceChanged(c) => P,
           \A c \in Client : Get(c) => P,
           \A c \in Client : Reuse(c) => P,
           \A c \in Client : Claim(c) => P,
           \A c \in Client : CheckCircuit(c) => P,
           \A c \in Client : Probe(c) => P,
           \A c \in Client : Create(c) => P,
           \A c \in Client : Reload(c) => P,
           \A c \in Client : RequestFails(c) => P,
           \A c \in Client : Activate(c) => P,
           \A c \in Client : Fail(c) => P,
           \A c \in Client : RegistryFails(c) => P,
           \A c \in Client : Crash(c) => P,
           ClaimAges => P,
           Next
    PROVE  P
  BY Zenon DEF Next, AcquireStep, Interrupt

-----------------------------------------------------------------------------
(* Types *)

\* A state of its type steps to a state of its type.
LEMMA TypeStep == ASSUME TypeOK, [Next]_vars PROVE TypeOK'
<1>1. CASE UNCHANGED vars
  BY <1>1 DEF TypeOK, vars, bucket, history
<1>2. 0 \in Generation /\ 1 \in Generation /\ NoLease \in Lease
  BY DEF Generation, Lease, NoLease
<1>3. \A lease \in Lease, g \in Generation : [lease EXCEPT !.gen = g] \in Lease
  BY DEF Lease
<1>4. CASE Next
  <2> USE DEF TypeOK, Move, Resting, bucket, history
  <2>1. ASSUME NEW c \in Client, Begin(c) PROVE TypeOK'
    <3>1. held' \in [Client -> Lease]
      BY <1>2, <2>1 DEF Begin
    <3>2. overlap' \in [Client -> BOOLEAN]
      <4>1. \A d \in Client : (IF d = c THEN \E e \in Client \ {c} : Busy(e)
                               ELSE overlap[d] \/ Busy(d)) \in BOOLEAN
        OBVIOUS
      <4>2. QED
        BY <4>1, <2>1 DEF Begin
    <3>3. QED
      BY <2>1, <3>1, <3>2 DEF Begin
  <2>2. ASSUME NEW c \in Client, SourceChanged(c) PROVE TypeOK'
    BY <2>2 DEF SourceChanged
  <2>3. ASSUME NEW c \in Client, Get(c) PROVE TypeOK'
    BY <2>3 DEF Get
  <2>4. ASSUME NEW c \in Client, Reuse(c) PROVE TypeOK'
    BY <2>4 DEF Reuse
  <2>5. ASSUME NEW c \in Client, Claim(c) PROVE TypeOK'
    BY <1>2, <1>3, <2>5 DEF Claim, Lease, Generation
  <2>6. ASSUME NEW c \in Client, CheckCircuit(c) PROVE TypeOK'
    BY <2>6 DEF CheckCircuit
  <2>7. ASSUME NEW c \in Client, Probe(c) PROVE TypeOK'
    <3>1. held' \in [Client -> Lease]
      BY <1>3, <2>7 DEF Probe
    <3>2. pc' \in [Client -> Resting \cup {"get", "reuse", "claim", "check",
                      "probe", "create", "reload", "activate", "fail"}]
      BY <2>7 DEF Probe
    <3>3. fault' \in [Client -> BOOLEAN]
      BY <2>7 DEF Probe
    <3>4. QED
      BY <2>7, <3>1, <3>2, <3>3 DEF Probe
  <2>8. ASSUME NEW c \in Client, Create(c) PROVE TypeOK'
    BY <1>2, <1>3, <2>8 DEF Create
  <2>9. ASSUME NEW c \in Client, Reload(c) PROVE TypeOK'
    BY <1>2, <1>3, <2>9 DEF Reload
  <2>10. ASSUME NEW c \in Client, RequestFails(c) PROVE TypeOK'
    BY <1>2, <1>3, <2>10 DEF RequestFails
  <2>11. ASSUME NEW c \in Client, Activate(c) PROVE TypeOK'
    BY <2>11 DEF Activate, Lease
  <2>12. ASSUME NEW c \in Client, Fail(c) PROVE TypeOK'
    BY <2>12 DEF Fail, Lease
  <2>13. ASSUME NEW c \in Client, RegistryFails(c) PROVE TypeOK'
    BY <2>13 DEF RegistryFails
  <2>14. ASSUME NEW c \in Client, Crash(c) PROVE TypeOK'
    BY <1>2, <2>14 DEF Crash
  <2>15. ASSUME ClaimAges PROVE TypeOK'
    BY <2>15 DEF ClaimAges, Lease
  <2>16. QED
    BY ONLY <2>1, <2>2, <2>3, <2>4, <2>5, <2>6, <2>7, <2>8, <2>9,
            <2>10, <2>11, <2>12, <2>13, <2>14, <2>15,
            <1>4, StepCases
<1>5. QED
  BY <1>1, <1>4

\* The initial states have their type.
LEMMA TypeInit == Init => TypeOK
<1> SUFFICES ASSUME Init PROVE TypeOK
  OBVIOUS
<1>1. NoLease \in Lease
  BY DEF Lease, NoLease, Generation
<1>2. row \in Lease /\ held \in [Client -> Lease]
  BY <1>1 DEF Init
<1>3. pc \in [Client -> Resting]
  BY DEF Init, Resting
<1>4. QED
  BY <1>2, <1>3 DEF Init, TypeOK

\* Every state has its type; in particular the object of a source is created
\* at most once, whoever uploads.
THEOREM LeaseTypeOK == Spec => []TypeOK
<1>1. QED
  BY TypeInit, TypeStep, PTL DEF Spec

-----------------------------------------------------------------------------
(* What leases and copies of them say about the bucket *)

\* The object is there and is the source.
Stored == generation = 1 /\ matches

\* A lease that is active names the object.
Real(lease) == lease.state = "active" => Stored /\ lease.gen = generation

\* Every copy of a lease is as good as the row, and a client that goes on to
\* make its copy active has seen the object.
CopiesReal ==
    \A c \in Client :
        /\ Real(held[c])
        /\ pc[c] = "reload" => Stored
        /\ pc[c] = "activate" => Stored /\ held[c].gen = generation
        /\ pc[c] \in {"reuse", "done"} => held[c].state = "active"

ContentInv == Real(row) /\ CopiesReal

\* An object that is there stays as it is, so what a copy says of it lasts.
LEMMA ContentStep == ASSUME TypeOK, ContentInv, [Next]_vars PROVE ContentInv'
<1> USE DEF ContentInv, CopiesReal, Real, Stored
<1>1. CASE UNCHANGED vars
  BY <1>1 DEF vars, bucket, history
<1>2. CASE Next
  <2> USE DEF TypeOK, Move, Resting, Lease, Generation, NoLease, Reusable, bucket,
              history
  <2>1. ASSUME NEW c \in Client, Begin(c) PROVE ContentInv'
    BY <2>1 DEF Begin
  <2>2. ASSUME NEW c \in Client, SourceChanged(c) PROVE ContentInv'
    BY <2>2 DEF SourceChanged
  <2>3. ASSUME NEW c \in Client, Get(c) PROVE ContentInv'
    BY <2>3 DEF Get
  <2>4. ASSUME NEW c \in Client, Reuse(c) PROVE ContentInv'
    BY <2>4 DEF Reuse
  <2>5. ASSUME NEW c \in Client, Claim(c) PROVE ContentInv'
    BY <2>5 DEF Claim
  <2>6. ASSUME NEW c \in Client, CheckCircuit(c) PROVE ContentInv'
    BY <2>6 DEF CheckCircuit
  <2>7. ASSUME NEW c \in Client, Probe(c) PROVE ContentInv'
    BY <2>7 DEF Probe
  <2>8. ASSUME NEW c \in Client, Create(c) PROVE ContentInv'
    BY <2>8 DEF Create
  <2>9. ASSUME NEW c \in Client, Reload(c) PROVE ContentInv'
    BY <2>9 DEF Reload
  <2>10. ASSUME NEW c \in Client, RequestFails(c) PROVE ContentInv'
    BY <2>10 DEF RequestFails
  <2>11. ASSUME NEW c \in Client, Activate(c) PROVE ContentInv'
    BY <2>11 DEF Activate
  <2>12. ASSUME NEW c \in Client, Fail(c) PROVE ContentInv'
    BY <2>12 DEF Fail
  <2>13. ASSUME NEW c \in Client, RegistryFails(c) PROVE ContentInv'
    BY <2>13 DEF RegistryFails
  <2>14. ASSUME NEW c \in Client, Crash(c) PROVE ContentInv'
    BY <2>14 DEF Crash
  <2>15. ASSUME ClaimAges PROVE ContentInv'
    BY <2>15 DEF ClaimAges
  <2>16. QED
    BY ONLY <2>1, <2>2, <2>3, <2>4, <2>5, <2>6, <2>7, <2>8, <2>9,
            <2>10, <2>11, <2>12, <2>13, <2>14, <2>15,
            <1>2, StepCases
<1>3. QED
  BY <1>1, <1>2

LEMMA ContentInit == Init => ContentInv
  BY DEF Init, ContentInv, CopiesReal, Real, Stored, NoLease

\* An active lease names the object in the bucket and that object is the
\* source.
THEOREM LeaseActiveIsReal == Spec => []ActiveIsReal
<1>1. TypeOK /\ ContentInv => ActiveIsReal
  BY DEF ContentInv, Real, Stored, ActiveIsReal
<1>2. QED
  BY <1>1, TypeInit, TypeStep, ContentInit, ContentStep, PTL DEF Spec

\* So does every lease that acquire_or_reuse_gcs_object has returned.
THEOREM LeaseReturnedUsable == Spec => []ReturnedUsable
<1>1. TypeOK /\ ContentInv => ReturnedUsable
  BY DEF ContentInv, CopiesReal, Real, Stored, ReturnedUsable, TypeOK, Lease
<1>2. QED
  BY <1>1, TypeInit, TypeStep, ContentInit, ContentStep, PTL DEF Spec

-----------------------------------------------------------------------------
(* What an attempt finds that runs alone *)

\* Attempts under way at the same time know of each other; only they make a
\* probed object appear or an unclaimed lease active; and only a failure or
\* another attempt makes one fail.
SoloInv ==
    /\ \A c, d \in Client : c # d /\ Busy(c) /\ Busy(d) => overlap[c]
    /\ \A c \in Client :
          /\ pc[c] = "create" /\ generation = 1 => overlap[c]
          /\ row.state = "active" /\ Busy(c) /\ pc[c] \notin {"get", "reuse"}
               => overlap[c]
          /\ pc[c] = "reuse" => held[c].state = "active"
          /\ pc[c] \in {"fail", "failed"} => fault[c] \/ overlap[c]

\* Whatever another attempt does to this one, it does while both are busy.
LEMMA SoloStep == ASSUME TypeOK, SoloInv, [Next]_vars PROVE SoloInv'
<1> USE DEF SoloInv, Busy
<1>1. CASE UNCHANGED vars
  BY <1>1 DEF vars, bucket, history
<1>2. CASE Next
  <2> USE DEF TypeOK, Move, Resting, Lease, Generation, NoLease, Reusable, bucket,
              history
  <2>1. ASSUME NEW c \in Client, Begin(c) PROVE SoloInv'
    BY <2>1 DEF Begin
  <2>2. ASSUME NEW c \in Client, SourceChanged(c) PROVE SoloInv'
    BY <2>2 DEF SourceChanged
  <2>3. ASSUME NEW c \in Client, Get(c) PROVE SoloInv'
    BY <2>3 DEF Get
  <2>4. ASSUME NEW c \in Client, Reuse(c) PROVE SoloInv'
    BY <2>4 DEF Reuse
  <2>5. ASSUME NEW c \in Client, Claim(c) PROVE SoloInv'
    BY <2>5 DEF Claim
  <2>6. ASSUME NEW c \in Client, CheckCircuit(c) PROVE SoloInv'
    BY <2>6 DEF CheckCircuit
  <2>7. ASSUME NEW c \in Client, Probe(c) PROVE SoloInv'
    BY <2>7 DEF Probe
  <2>8. ASSUME NEW c \in Client, Create(c) PROVE SoloInv'
    BY <2>8 DEF Create
  <2>9. ASSUME NEW c \in Client, Reload(c) PROVE SoloInv'
    BY <2>9 DEF Reload
  <2>10. ASSUME NEW c \in Client, RequestFails(c) PROVE SoloInv'
    BY <2>10 DEF RequestFails
  <2>11. ASSUME NEW c \in Client, Activate(c) PROVE SoloInv'
    BY <2>11 DEF Activate
  <2>12. ASSUME NEW c \in Client, Fail(c) PROVE SoloInv'
    BY <2>12 DEF Fail
  <2>13. ASSUME NEW c \in Client, RegistryFails(c) PROVE SoloInv'
    BY <2>13 DEF RegistryFails
  <2>14. ASSUME NEW c \in Client, Crash(c) PROVE SoloInv'
    BY <2>14 DEF Crash
  <2>15. ASSUME ClaimAges PROVE SoloInv'
    BY <2>15 DEF ClaimAges
  <2>16. QED
    BY ONLY <2>1, <2>2, <2>3, <2>4, <2>5, <2>6, <2>7, <2>8, <2>9,
            <2>10, <2>11, <2>12, <2>13, <2>14, <2>15,
            <1>2, StepCases
<1>3. QED
  BY <1>1, <1>2

LEMMA SoloInit == Init => SoloInv
  BY DEF Init, SoloInv, Busy, Resting

\* An attempt that runs alone fails only by a failure outside the code,
\* whatever crashes and failures have left behind.
THEOREM LeaseSoloSucceeds == Spec => []SoloSucceeds
<1>1. SoloInv => SoloSucceeds
  BY DEF SoloInv, SoloSucceeds
<1>2. QED
  BY <1>1, TypeInit, TypeStep, SoloInit, SoloStep, PTL DEF Spec

\* An attempt that runs alone never takes back an active lease.
THEOREM LeaseSoloKeepsActive == Spec => SoloKeepsActive
<1> DEFINE Kept == \A c \in Client :
                     row.state = "active" /\ row'.state # "active" /\ pc'[c] # pc[c]
                         => overlap[c]
<1>1. ASSUME TypeOK, SoloInv, [Next]_vars PROVE [Kept]_vars
  <2>1. SUFFICES ASSUME row.state = "active", row'.state # "active",
                        NEW c \in Client, pc'[c] # pc[c]
                 PROVE  overlap[c]
    OBVIOUS
  <2>2. Next
    BY <1>1, <2>1 DEF vars
  <2>3. PICK d \in Client : Reuse(d) \/ Claim(d) \/ Activate(d) \/ Fail(d)
    BY <2>1, <2>2 DEF Next, AcquireStep, Interrupt, Begin, SourceChanged, Get,
       CheckCircuit, Probe, Create, Reload, RequestFails, RegistryFails, Crash,
       ClaimAges
  <2>4. d = c
    BY <1>1, <2>1, <2>3 DEF Reuse, Claim, Activate, Fail, Move, TypeOK
  <2>5. Fail(c)
    BY <1>1, <2>1, <2>3, <2>4 DEF Reuse, Claim, Activate, Move, TypeOK, SoloInv,
       Reusable, Lease
  <2>6. QED
    BY <1>1, <2>1, <2>5 DEF Fail, Move, SoloInv, Busy, Resting
<1>2. QED
  BY <1>1, TypeInit, TypeStep, SoloInit, SoloStep, PTL DEF Spec, SoloKeepsActive

=============================================================================
