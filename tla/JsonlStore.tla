----------------------------- MODULE JsonlStore -----------------------------
(***************************************************************************)
(* The public pair file and its lock file (src/videohalo/stores/jsonl.py). *)
(*                                                                         *)
(* Every append creates <file>.lock with O_CREAT|O_EXCL, reads the whole   *)
(* file, refuses a known identity and a full file, appends one line, and   *)
(* unlinks the lock.  A caller that finds the lock taken polls until its   *)
(* deadline.  Nothing reclaims a lock whose owner died.                    *)
(*                                                                         *)
(* The file is a sequence of complete lines and a tail, the bytes after    *)
(* the last newline: empty, part of a record, or a whole record that lacks *)
(* only its newline.  A write reaches the file piecewise, so the tail is   *)
(* visible while a writer is at work and stays behind when the writer dies *)
(* or the device refuses the rest.                                         *)
(***************************************************************************)
EXTENDS Naturals, Sequences, Functions

CONSTANTS Thread,      \* the video workers that append
          Process,     \* the build processes the workers belong to
          ProcessOf,   \* the process of each thread
          Identity,    \* the pair identities
          MaxRecords,  \* max_records: total_pair_limit of the build
          Fault,       \* how an interrupted write may end, see TailAfter
          MaxCrashes   \* bound on process crashes

ASSUME StoreAssumption ==
    /\ ProcessOf \in [Thread -> Process]
    /\ MaxRecords \in Nat \ {0}
    /\ Fault \subseteq {"partial", "unterminated"}
    /\ MaxCrashes \in Nat
    /\ Identity \cap {"clean", "torn"} = {}
    /\ Thread \cap {"free", "orphan"} = {}

VARIABLES lock,     \* "free", the thread whose lock file exists, or "orphan"
          lines,    \* identities of the complete, newline-terminated records
          tail,     \* "clean", "torn", or the identity of a whole last record
          pc,       \* where each thread is in append_jsonl_record
          req,      \* the identity each thread is appending
          acked,    \* identities whose append returned to its caller
          crashes   \* crashes so far

vars == <<lock, lines, tail, pc, req, acked, crashes>>

Clean  == "clean"
Torn   == "torn"
Free   == "free"
Orphan == "orphan"

\* "down": the process of the thread is not running.
Places == {"idle", "waiting", "locked", "cleared", "writing", "release", "down"}

\* The places at which a thread owns the lock file it created.
Holding == {"locked", "cleared", "writing", "release"}

TypeOK ==
    /\ lock \in Thread \cup {Free, Orphan}
    /\ lines \in Seq(Identity)
    /\ tail \in Identity \cup {Clean, Torn}
    /\ pc \in [Thread -> Places]
    /\ req \in [Thread -> Identity]
    /\ acked \subseteq Identity
    /\ crashes \in Nat

-----------------------------------------------------------------------------
(* Reading.  A whole record that lacks its newline still parses; a part of *)
(* a record makes read_jsonl raise ValueError for the whole file.  While a *)
(* write is under way its first bytes may be all a reader sees of it.      *)

Readable ==
    /\ tail # Torn
    /\ \A t \in Thread : pc[t] # "writing"

Existing == IF tail \in Identity THEN Append(lines, tail) ELSE lines

\* The tail once the write of i has stopped before its newline: unchanged, a
\* part of the record, or all of it but the newline.  What follows a tail
\* that was already there shares its line, which then no longer parses.
TailAfter(i) ==
    {tail}
      \cup (IF "partial" \in Fault THEN {Torn} ELSE {})
      \cup (IF "unterminated" \in Fault
              THEN {IF tail = Clean THEN i ELSE Torn} ELSE {})

\* Mutation of CompleteLine: the file is opened for writing, not appending.
TruncateAndWrite(i) ==
    /\ lines' = <<i>>
    /\ tail' = Clean

\* All bytes of i and its newline are in the file.
CompleteLine(i) ==
    IF tail = Clean
      THEN lines' = Append(lines, i) /\ UNCHANGED tail
      ELSE tail' = Torn /\ UNCHANGED lines

\* Mutation of Interrupted: a failed write ends the line it has cut.
InterruptedEndsLine(i) ==
    \/ CompleteLine(i)
    \/ lines' = Append(lines, Torn) /\ UNCHANGED tail

\* The writer of i stopped somewhere in its write.
Interrupted(i) ==
    \/ CompleteLine(i)
    \/ tail' \in TailAfter(i) /\ UNCHANGED lines

-----------------------------------------------------------------------------
Init ==
    /\ lock = Free
    /\ lines = << >>
    /\ tail = Clean
    /\ pc = [t \in Thread |-> "idle"]
    /\ req \in [Thread -> Identity]
    /\ acked = {}
    /\ crashes = 0

\* append_jsonl_record(path, record): validated, now after the lock.
Call(t, i) ==
    /\ pc[t] = "idle"
    /\ pc' = [pc EXCEPT ![t] = "waiting"]
    /\ req' = [req EXCEPT ![t] = i]
    /\ UNCHANGED <<lock, lines, tail, acked, crashes>>

\* Mutation of Acquire: open without O_EXCL.
AcquireShared(t) ==
    /\ pc[t] = "waiting"
    /\ lock' = t
    /\ pc' = [pc EXCEPT ![t] = "locked"]
    /\ UNCHANGED <<lines, tail, req, acked, crashes>>

\* os.open(O_CREAT | O_EXCL) succeeds.
Acquire(t) ==
    /\ pc[t] = "waiting"
    /\ lock = Free
    /\ lock' = t
    /\ pc' = [pc EXCEPT ![t] = "locked"]
    /\ UNCHANGED <<lines, tail, req, acked, crashes>>

\* Mutation of TimeOut: the deadline only counts against a live owner.
TimeOutLiveOwner(t) ==
    /\ pc[t] = "waiting"
    /\ lock \in Thread
    /\ pc' = [pc EXCEPT ![t] = "idle"]
    /\ UNCHANGED <<lock, lines, tail, req, acked, crashes>>

\* Mutation of TimeOut: past the deadline the lock is taken over.
TimeOutTakesOver(t) ==
    /\ pc[t] = "waiting"
    /\ lock # Free
    /\ lock' = t
    /\ pc' = [pc EXCEPT ![t] = "locked"]
    /\ UNCHANGED <<lines, tail, req, acked, crashes>>

\* FileExistsError past the deadline: TimeoutError reaches the caller.
TimeOut(t) ==
    /\ pc[t] = "waiting"
    /\ lock # Free
    /\ pc' = [pc EXCEPT ![t] = "idle"]
    /\ UNCHANGED <<lock, lines, tail, req, acked, crashes>>

\* The lock file is created but writing the pid into it fails: the exception
\* leaves _exclusive_lock before its try block, so nobody unlinks the file.
AcquireFails(t) ==
    /\ pc[t] = "waiting"
    /\ lock = Free
    /\ "partial" \in Fault
    /\ lock' = Orphan
    /\ pc' = [pc EXCEPT ![t] = "idle"]
    /\ UNCHANGED <<lines, tail, req, acked, crashes>>

\* Under the lock: read the file, then the duplicate and the target check.
Check(t) ==
    /\ pc[t] = "locked"
    /\ pc' = [pc EXCEPT ![t] =
                IF /\ Readable
                   /\ req[t] \notin Range(Existing)
                   /\ Len(Existing) < MaxRecords
                THEN "cleared" ELSE "release"]
    /\ UNCHANGED <<lock, lines, tail, req, acked, crashes>>

\* open("ab") and the first bytes of the line.
StartWrite(t) ==
    /\ pc[t] = "cleared"
    /\ pc' = [pc EXCEPT ![t] = "writing"]
    /\ UNCHANGED <<lock, lines, tail, req, acked, crashes>>

\* The rest of the line, flush and fsync: the append will return.
FinishWrite(t) ==
    /\ pc[t] = "writing"
    /\ CompleteLine(req[t])
    /\ acked' = acked \cup {req[t]}
    /\ pc' = [pc EXCEPT ![t] = "release"]
    /\ UNCHANGED <<lock, req, crashes>>

\* write, flush or fsync raises OSError (disk full): the lock is released
\* and the caller gets the exception, the bytes written so far stay.
WriteFails(t) ==
    /\ pc[t] = "writing"
    /\ Fault # {}
    /\ Interrupted(req[t])
    /\ pc' = [pc EXCEPT ![t] = "release"]
    /\ UNCHANGED <<lock, req, acked, crashes>>

\* Leaving _exclusive_lock, with or without an exception: close, then unlink
\* whatever lock file is there, none included.
Release(t) ==
    /\ pc[t] = "release"
    /\ lock' = Free
    /\ pc' = [pc EXCEPT ![t] = "idle"]
    /\ UNCHANGED <<lines, tail, req, acked, crashes>>

\* A build process dies with all its threads.  Its lock file stays.
Crash(p) ==
    LET mine == {t \in Thread : ProcessOf[t] = p}
        writing == {t \in mine : pc[t] = "writing"}
    IN  /\ crashes < MaxCrashes
        /\ \E t \in mine : pc[t] # "down"
        /\ crashes' = crashes + 1
        /\ IF writing = {} THEN UNCHANGED <<lines, tail>>
           ELSE \E t \in writing : Interrupted(req[t])
        /\ lock' = IF lock \in mine THEN Orphan ELSE lock
        /\ pc' = [t \in Thread |-> IF t \in mine THEN "down" ELSE pc[t]]
        /\ UNCHANGED <<req, acked>>

\* The build is started again.
Restart(p) ==
    /\ \E t \in Thread : ProcessOf[t] = p /\ pc[t] = "down"
    /\ pc' = [t \in Thread |-> IF ProcessOf[t] = p THEN "idle" ELSE pc[t]]
    /\ UNCHANGED <<lock, lines, tail, req, acked, crashes>>

\* The operator deletes a lock file nobody owns any more: no code of the
\* repository does, and until then every append times out.
ClearOrphan ==
    /\ lock = Orphan
    /\ lock' = Free
    /\ UNCHANGED <<lines, tail, pc, req, acked, crashes>>

ThreadStep(t) ==
    \/ Acquire(t)
    \/ TimeOut(t)
    \/ AcquireFails(t)
    \/ Check(t)
    \/ StartWrite(t)
    \/ FinishWrite(t)
    \/ WriteFails(t)
    \/ Release(t)

Next ==
    \/ \E t \in Thread, i \in Identity : Call(t, i)
    \/ \E t \in Thread : ThreadStep(t)
    \/ \E p \in Process : Crash(p) \/ Restart(p)
    \/ ClearOrphan

Spec == Init /\ [][Next]_vars

\* The operating system schedules every thread of a live process; the polling
\* loop attempts the lock again every 50 ms until its deadline.
FairSpec == Spec /\ \A t \in Thread : WF_vars(ThreadStep(t))

-----------------------------------------------------------------------------
(* Properties *)

\* At most one thread is between the creation and the removal of the lock
\* file, and the lock file is there as long as it is: _exclusive_lock gives
\* mutual exclusion even when processes die and restart around it.
LockExclusive ==
    \A t \in Thread : pc[t] \in Holding => lock = t

\* No pair identity is on two lines of the file: the duplicate check and the
\* append are one critical section, across threads and processes.
UniqueIdentities ==
    \A i, j \in 1..Len(lines) : lines[i] = lines[j] => i = j

\* The file never holds more records than max_records, an unterminated last
\* one included.
WithinTarget == Len(Existing) <= MaxRecords

\* What is left of the "atomic JSONL append" (COMPLETE_SPEC.md): a record cut
\* before its newline is read as a whole one, the next append is glued to it,
\* returns, and is lost; but a loss is loud and single.  As long as the file
\* can be read at all it holds every record whose append returned, through
\* later crashes, failed writes and restarts, and at most one such record is
\* ever missing, because every append after the glued one is refused.
LossIsLoud ==
    /\ tail # Torn => acked \subseteq Range(lines)
    /\ \A i, j \in acked \ Range(lines) : i = j

\* Every append call returns or raises: the deadline bounds the wait even
\* when the lock file has lost its owner.
CallsReturn ==
    \A t \in Thread : pc[t] # "idle" ~> pc[t] \in {"idle", "down"}

\* The file implements the public output: complete lines only ever grow, one
\* new identity at a time, up to the target.
Output == INSTANCE PublicOutput WITH records <- lines
OutputSpec == Output!Spec

=============================================================================
