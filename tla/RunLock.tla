------------------------------- MODULE RunLock -------------------------------
(***************************************************************************)
(* The lock file that guards the status and output of a build              *)
(* (exclusive_run_lock of src/videohalo/windowed_build.py), with the       *)
(* status a process reads before it asks for the lock.                     *)
(*                                                                         *)
(* A process creates <status>.run.lock with O_CREAT|O_EXCL and then writes *)
(* its pid and a random token into it.  One that finds the file there      *)
(* reads it, gives up if the pid in it is alive, and otherwise unlinks it  *)
(* and tries again: a file without a readable pid counts as stale.  The    *)
(* owner unlinks the file at the end if it still holds its own token.      *)
(*                                                                         *)
(* Every process of the model runs once; a pid is not given to a second    *)
(* process.  The work of a build is one entry in the status file.          *)
(***************************************************************************)
EXTENDS Naturals, FiniteSets

CONSTANTS Process,   \* the build processes, each started at most once
          MaxDeaths  \* bound on processes that are killed

ASSUME RunLockAssumption ==
    /\ "none" \notin Process
    /\ MaxDeaths \in Nat

VARIABLES file,      \* the process that created the lock file, or "none"
          written,   \* the processes whose payload is in the file they created
          pc,        \* where each process is
          seen,      \* the pid each process read from the lock file, or "none"
          mem,       \* the status each process holds in memory
          saved,     \* the status file: the processes whose work it records
          overlap,   \* a process was started while another one was alive
          deaths     \* processes killed so far

vars == <<file, written, pc, seen, mem, saved, overlap, deaths>>

None == "none"

Places == {"new", "try", "write", "inspect", "judge", "unlink", "critical",
           "leave", "compare", "remove", "done", "rejected", "dead"}

\* The places at which the process is gone.
Gone == {"done", "rejected", "dead"}

Alive(p) == pc[p] \notin Gone \cup {"new"}

\* Inside the with statement, the body of run() or its clean-up.
Inside(p) == pc[p] \in {"critical", "leave"}

TypeOK ==
    /\ file \in Process \cup {None}
    /\ written \subseteq Process
    /\ pc \in [Process -> Places]
    /\ seen \in [Process -> Process \cup {None}]
    /\ mem \in [Process -> SUBSET Process]
    /\ saved \subseteq Process
    /\ overlap \in BOOLEAN
    /\ deaths \in Nat

-----------------------------------------------------------------------------
Init ==
    /\ file = None
    /\ written = {}
    /\ pc = [p \in Process |-> "new"]
    /\ seen = [p \in Process |-> None]
    /\ mem = [p \in Process |-> {}]
    /\ saved = {}
    /\ overlap = FALSE
    /\ deaths = 0

Goto(p, place) == pc' = [pc EXCEPT ![p] = place]

\* WindowedBuildOrchestrator.__init__ ends with _load_status; run() follows.
Construct(p) ==
    /\ pc[p] = "new"
    /\ mem' = [mem EXCEPT ![p] = saved]
    /\ overlap' = (overlap \/ \E q \in Process : Alive(q))
    /\ Goto(p, "try")
    /\ UNCHANGED <<file, written, seen, saved, deaths>>

\* os.open(O_CREAT | O_EXCL).
TryCreate(p) ==
    /\ pc[p] = "try"
    /\ IF file = None
         THEN file' = p /\ Goto(p, "write")
         ELSE Goto(p, "inspect") /\ UNCHANGED file
    /\ UNCHANGED <<written, seen, mem, saved, overlap, deaths>>

\* os.write and os.close: into the file this process created, which another
\* process may have unlinked by now.
WritePayload(p) ==
    /\ pc[p] = "write"
    /\ written' = written \cup {p}
    /\ Goto(p, "critical")
    /\ UNCHANGED <<file, seen, mem, saved, overlap, deaths>>

\* The pid in the lock file: none if the file is gone or still empty.
PidInFile == IF file \in written THEN file ELSE None

\* path.read_text and json.loads.
Inspect(p) ==
    /\ pc[p] = "inspect"
    /\ seen' = [seen EXCEPT ![p] = PidInFile]
    /\ Goto(p, "judge")
    /\ UNCHANGED <<file, written, mem, saved, overlap, deaths>>

\* Mutation of Judge: a lock file without a readable pid counts as owned.
JudgeUnreadableOwned(p) ==
    /\ pc[p] = "judge"
    /\ Goto(p, IF seen[p] = None \/ Alive(seen[p]) THEN "rejected" ELSE "unlink")
    /\ seen' = [seen EXCEPT ![p] = None]
    /\ UNCHANGED <<file, written, mem, saved, overlap, deaths>>

\* Mutation of Judge: a stale lock file is waited out instead of unlinked.
JudgeWaits(p) ==
    /\ pc[p] = "judge"
    /\ Goto(p, IF seen[p] # None /\ Alive(seen[p]) THEN "rejected" ELSE "try")
    /\ seen' = [seen EXCEPT ![p] = None]
    /\ UNCHANGED <<file, written, mem, saved, overlap, deaths>>

\* _process_is_alive of the pid that was read.
Judge(p) ==
    /\ pc[p] = "judge"
    /\ Goto(p, IF seen[p] # None /\ Alive(seen[p]) THEN "rejected" ELSE "unlink")
    /\ seen' = [seen EXCEPT ![p] = None]
    /\ UNCHANGED <<file, written, mem, saved, overlap, deaths>>

\* path.unlink() of whatever lock file is there, then the next attempt.
Unlink(p) ==
    /\ pc[p] = "unlink"
    /\ file' = None
    /\ Goto(p, "try")
    /\ UNCHANGED <<written, seen, mem, saved, overlap, deaths>>

\* Mutation of Work: the status is written without what was loaded.
WorkFromScratch(p) ==
    /\ pc[p] = "critical"
    /\ mem' = [mem EXCEPT ![p] = {p}]
    /\ saved' = mem'[p]
    /\ Goto(p, "leave")
    /\ UNCHANGED <<file, written, seen, overlap, deaths>>

\* _run_locked: the work is added to the status in memory, which then
\* replaces the status file.
Work(p) ==
    /\ pc[p] = "critical"
    /\ mem' = [mem EXCEPT ![p] = @ \cup {p}]
    /\ saved' = mem'[p]
    /\ Goto(p, "leave")
    /\ UNCHANGED <<file, written, seen, overlap, deaths>>

\* The body returned or raised, with or without work.
Leave(p) ==
    /\ pc[p] \in {"critical", "leave"}
    /\ Goto(p, "compare")
    /\ UNCHANGED <<file, written, seen, mem, saved, overlap, deaths>>

\* Mutation of Compare: the token is not found in the file of its owner.
CompareNever(p) ==
    /\ pc[p] = "compare"
    /\ Goto(p, IF PidInFile = None THEN "remove" ELSE "done")
    /\ UNCHANGED <<file, written, seen, mem, saved, overlap, deaths>>

\* The finally clause reads the token in the file.
Compare(p) ==
    /\ pc[p] = "compare"
    /\ Goto(p, IF PidInFile = p THEN "remove" ELSE "done")
    /\ UNCHANGED <<file, written, seen, mem, saved, overlap, deaths>>

\* ... and unlinks whatever lock file is there by then.
Remove(p) ==
    /\ pc[p] = "remove"
    /\ file' = None
    /\ Goto(p, "done")
    /\ UNCHANGED <<written, seen, mem, saved, overlap, deaths>>

\* The process is killed, or its write of the payload fails; the lock file
\* stays as it is.
Die(p) ==
    /\ Alive(p)
    /\ deaths < MaxDeaths
    /\ deaths' = deaths + 1
    /\ Goto(p, "dead")
    /\ UNCHANGED <<file, written, seen, mem, saved, overlap>>

Step(p) ==
    \/ TryCreate(p)
    \/ WritePayload(p)
    \/ Inspect(p)
    \/ Judge(p)
    \/ Unlink(p)
    \/ Work(p)
    \/ Leave(p)
    \/ Compare(p)
    \/ Remove(p)

Next == \E p \in Process : Construct(p) \/ Step(p) \/ Die(p)

Spec == Init /\ [][Next]_vars

\* A started process is scheduled; nothing in the lock protocol blocks.
FairSpec == Spec /\ \A p \in Process : WF_vars(Step(p))

-----------------------------------------------------------------------------
(* Properties *)

\* Recovery: as long as builds are started one after the other, whichever of
\* them were killed and wherever, the next one is never rejected, is alone
\* inside, and never meets a lock file that cannot be taken over.
SerialRecovery ==
    ~overlap => /\ \A p \in Process : pc[p] # "rejected"
                /\ \A p, q \in Process : Inside(p) /\ Inside(q) => p = q

\* A process that ends normally leaves no lock file of its own behind,
\* whatever other processes did to the lock file meanwhile.
NothingLeftBehind == file # None => pc[file] \notin {"done", "rejected"}

\* One build after the other never loses recorded work.
SerialProgress == [][~overlap' => saved \subseteq saved']_vars

\* The take-over loop ends: every started process gets in, is rejected, or
\* dies.
AcquisitionEnds ==
    \A p \in Process :
        pc[p] = "try" ~> pc[p] \in {"critical", "rejected", "dead"}

\* "Reject a second process for the same formal output/status pair"
\* (exclusive_run_lock): two processes are never inside at once.
MutualExclusion ==
    \A p, q \in Process : Inside(p) /\ Inside(q) => p = q

=============================================================================
