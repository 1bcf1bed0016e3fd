----------------------------- MODULE MediaLease -----------------------------
(***************************************************************************)
(* The upload of one source video and its lease: the registry row          *)
(* (src/videohalo/media/lease_registry.py), acquire_or_reuse_gcs_object    *)
(* (media/gcs.py) and upload_or_reuse (providers/gcs.py).                  *)
(*                                                                         *)
(* Sources share nothing but the circuit of a process, which may be open   *)
(* at any time, so one source is enough.  A client is a process that works *)
(* on it: get, claim, upload and update are transactions or requests of    *)
(* their own, and a client may die between any two of them.                *)
(***************************************************************************)
EXTENDS Naturals

CONSTANT Client  \* processes that share the registry and the bucket

VARIABLES row,         \* the row of the source in provider_media_leases
          generation,  \* of its object in the bucket, 0 when there is none
          matches,     \* _metadata_matches of that object
          pc,          \* where each client is
          held,        \* its copy of the lease: existing or pending
          fault,       \* this attempt met a failure that is not the code's
          overlap      \* this attempt ran beside another one

vars == <<row, generation, matches, pc, held, fault, overlap>>
bucket == <<generation, matches>>
history == <<fault, overlap>>

\* An object is never overwritten, so it has at most a first generation.
Generation == 0..1

\* A lease is its state and the generation it names; a pending row older than
\* its 15 minutes is "stale".
Lease == [state : {"none", "pending", "stale", "active", "failed"},
          gen : Generation]

NoLease == [state |-> "none", gen |-> 0]

Resting == {"idle", "done", "failed"}

Busy(c) == pc[c] \notin Resting

TypeOK ==
    /\ row \in Lease
    /\ generation \in Generation
    /\ matches \in BOOLEAN
    /\ pc \in [Client -> Resting \cup {"get", "reuse", "claim", "check", "probe",
                                       "create", "reload", "activate", "fail"}]
    /\ held \in [Client -> Lease]
    /\ fault \in [Client -> BOOLEAN]
    /\ overlap \in [Client -> BOOLEAN]

-----------------------------------------------------------------------------
\* An empty registry; the bucket may hold an object of that name already.
Init ==
    /\ row = NoLease
    /\ generation \in Generation
    /\ matches \in {FALSE, generation = 1}
    /\ pc = [c \in Client |-> "idle"]
    /\ held = [c \in Client |-> NoLease]
    /\ fault = [c \in Client |-> FALSE]
    /\ overlap = [c \in Client |-> FALSE]

Move(c, from, to) ==
    /\ pc[c] = from
    /\ pc' = [pc EXCEPT ![c] = to]

\* acquire_or_reuse_gcs_object is called.
Begin(c) ==
    /\ pc[c] \in Resting
    /\ pc' = [pc EXCEPT ![c] = "get"]
    /\ held' = [held EXCEPT ![c] = NoLease]
    /\ fault' = [fault EXCEPT ![c] = FALSE]
    /\ overlap' = [d \in Client |->
                    IF d = c THEN \E e \in Client \ {c} : Busy(e)
                    ELSE overlap[d] \/ Busy(d)]
    /\ UNCHANGED <<row, bucket>>

\* The source file is gone or is not the one of the manifest.
SourceChanged(c) ==
    /\ Move(c, "get", "failed")
    /\ fault' = [fault EXCEPT ![c] = TRUE]
    /\ UNCHANGED <<row, bucket, held, overlap>>

\* Mutation of Get: a claim in flight is reused like an active lease.
GetReusable(c) ==
    /\ IF row.state \in {"pending", "active"}
         THEN Move(c, "get", "reuse") /\ held' = [held EXCEPT ![c] = row]
         ELSE Move(c, "get", "claim") /\ UNCHANGED held
    /\ UNCHANGED <<row, bucket, history>>

\* Mutation of Get: the row is left to claim_pending.
GetNothing(c) ==
    /\ Move(c, "get", "claim")
    /\ UNCHANGED <<row, bucket, held, history>>

\* registry.get: an active lease is used again.
Get(c) ==
    /\ IF row.state = "active"
         THEN Move(c, "get", "reuse") /\ held' = [held EXCEPT ![c] = row]
         ELSE Move(c, "get", "claim") /\ UNCHANGED held
    /\ UNCHANGED <<row, bucket, history>>

\* Its use is counted in the row, and it is returned.
Reuse(c) ==
    /\ Move(c, "reuse", "done")
    /\ row' = held[c]
    /\ UNCHANGED <<bucket, held, history>>

\* ProviderLeaseRegistry.reusable; leases have no expires_at here.
Reusable == row.state \in {"pending", "active"}

\* Mutation of Claim: who does not get the claim gives up.
ClaimOrGiveUp(c) ==
    /\ IF Reusable
         THEN Move(c, "claim", "failed") /\ UNCHANGED <<row, held>>
         ELSE /\ Move(c, "claim", "check")
              /\ row' = [state |-> "pending", gen |-> 0]
              /\ held' = [held EXCEPT ![c] = row']
    /\ UNCHANGED <<bucket, history>>

\* Mutation of Claim: who does not get the claim waits for its end.
ClaimOrWait(c) ==
    /\ ~Reusable
    /\ Move(c, "claim", "check")
    /\ row' = [state |-> "pending", gen |-> 0]
    /\ held' = [held EXCEPT ![c] = row']
    /\ UNCHANGED <<bucket, history>>

\* claim_pending, one transaction.  Whether the claim is new is not looked at:
\* who gets an existing lease uploads as well.
Claim(c) ==
    /\ Move(c, "claim", "check")
    /\ row' = IF Reusable THEN row ELSE [state |-> "pending", gen |-> 0]
    /\ held' = [held EXCEPT ![c] = row']
    /\ UNCHANGED <<bucket, history>>

\* raise_if_open at the head of upload_or_reuse: any call of the process may
\* have opened its circuit.
CheckCircuit(c) ==
    /\ \E open \in BOOLEAN :
         /\ Move(c, "check", IF open THEN "fail" ELSE "probe")
         /\ fault' = [fault EXCEPT ![c] = open]
    /\ UNCHANGED <<row, bucket, held, overlap>>

\* Mutation of Probe: any object of that name will do.
ProbeAnyObject(c) ==
    /\ IF generation = 0
         THEN Move(c, "probe", "create") /\ UNCHANGED held
         ELSE /\ Move(c, "probe", "activate")
              /\ held' = [held EXCEPT ![c].gen = generation]
    /\ UNCHANGED <<row, bucket, history>>

\* blob.exists, then its metadata.
Probe(c) ==
    /\ IF generation = 0
         THEN Move(c, "probe", "create") /\ UNCHANGED <<held, fault>>
         ELSE IF matches
           THEN /\ Move(c, "probe", "activate")
                /\ held' = [held EXCEPT ![c].gen = generation]
                /\ UNCHANGED fault
           ELSE /\ Move(c, "probe", "fail")
                /\ fault' = [fault EXCEPT ![c] = TRUE]
                /\ UNCHANGED held
    /\ UNCHANGED <<row, bucket, overlap>>

\* Mutation of Create: the upload has no precondition.
CreateAnyway(c) ==
    /\ Move(c, "create", "reload")
    /\ generation' = generation + 1
    /\ matches' = TRUE
    /\ UNCHANGED <<row, held, history>>

\* upload_from_filename with if_generation_match=0.
Create(c) ==
    /\ IF generation = 0
         THEN /\ Move(c, "create", "reload")
              /\ generation' = 1
              /\ matches' = TRUE
         ELSE Move(c, "create", "fail") /\ UNCHANGED bucket
    /\ UNCHANGED <<row, held, history>>

\* The generation of the new object is read.
Reload(c) ==
    /\ Move(c, "reload", "activate")
    /\ held' = [held EXCEPT ![c].gen = generation]
    /\ UNCHANGED <<row, bucket, history>>

\* A request to the bucket fails; an upload may have reached it all the same.
RequestFails(c) ==
    /\ \E place \in {"probe", "create", "reload"} : Move(c, place, "fail")
    /\ \/ UNCHANGED bucket
       \/ /\ pc[c] = "create" /\ generation = 0
          /\ generation' = 1 /\ matches' = TRUE
    /\ fault' = [fault EXCEPT ![c] = TRUE]
    /\ UNCHANGED <<row, held, overlap>>

\* The lease is active: upsert, and return.
Activate(c) ==
    /\ Move(c, "activate", "done")
    /\ held' = [held EXCEPT ![c].state = "active"]
    /\ row' = held'[c]
    /\ UNCHANGED <<bucket, history>>

\* The lease has failed: upsert whatever the row says now, and raise.
Fail(c) ==
    /\ Move(c, "fail", "failed")
    /\ held' = [held EXCEPT ![c].state = "failed"]
    /\ row' = held'[c]
    /\ UNCHANGED <<bucket, history>>

\* SQLite cannot read or write: the exception leaves the row as it is.
RegistryFails(c) ==
    /\ \E place \in {"get", "reuse", "claim", "activate", "fail"} :
           Move(c, place, "failed")
    /\ fault' = [fault EXCEPT ![c] = TRUE]
    /\ UNCHANGED <<row, bucket, held, overlap>>

\* The client dies; its next attempt is a new process.
Crash(c) ==
    /\ Busy(c)
    /\ pc' = [pc EXCEPT ![c] = "idle"]
    /\ held' = [held EXCEPT ![c] = NoLease]
    /\ UNCHANGED <<row, bucket, history>>

\* Fifteen minutes have passed since the claim.
ClaimAges ==
    /\ row.state = "pending"
    /\ row' = [row EXCEPT !.state = "stale"]
    /\ UNCHANGED <<bucket, pc, held, history>>

\* The next transaction or request of c, whichever way it ends.
AcquireStep(c) ==
    \/ Get(c)
    \/ Reuse(c)
    \/ Claim(c)
    \/ CheckCircuit(c)
    \/ Probe(c)
    \/ Create(c)
    \/ Reload(c)
    \/ RequestFails(c)
    \/ Activate(c)
    \/ Fail(c)

Interrupt(c) ==
    \/ SourceChanged(c)
    \/ RegistryFails(c)
    \/ Crash(c)

Next ==
    \/ \E c \in Client : Begin(c) \/ AcquireStep(c) \/ Interrupt(c)
    \/ ClaimAges

Spec == Init /\ [][Next]_vars

\* Requests and transactions have timeouts; no interruption is fair.
FairSpec == Spec /\ \A c \in Client : WF_vars(AcquireStep(c))

-----------------------------------------------------------------------------
(* Properties *)

\* An active lease names the object that is in the bucket, by its generation,
\* and that object is the source: nobody overwrites an object that a lease
\* names, however uploads race, die or lose their answer.
ActiveIsReal ==
    row.state = "active" => generation > 0 /\ matches /\ row.gen = generation

\* What acquire_or_reuse_gcs_object returns is such a lease, at the time of
\* return and as long as the caller holds it.
ReturnedUsable ==
    \A c \in Client : pc[c] = "done" =>
        /\ held[c] = [state |-> "active", gen |-> generation]
        /\ generation > 0 /\ matches

\* An attempt that runs alone and meets no failure of the source, the
\* provider or the disk succeeds, whatever pending or failed rows and objects
\* earlier attempts have left.
SoloSucceeds ==
    \A c \in Client : pc[c] = "failed" => fault[c] \/ overlap[c]

\* An active lease is taken back only by an attempt that ran beside another.
SoloKeepsActive ==
    [][\A c \in Client :
        row.state = "active" /\ row'.state # "active" /\ pc'[c] # pc[c]
            => overlap[c]]_vars

\* Every attempt returns, raises or dies.
AcquireEnds == \A c \in Client : Busy(c) ~> ~Busy(c)

=============================================================================
