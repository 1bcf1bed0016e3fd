# VideoHALO: verification of the dataset build

VideoHALO builds a data set of question/answer pairs about videos.  A build
walks a selection of some thousand videos, lets a small pool of workers run a
four-stage agent pipeline over each of them, and appends every accepted pair
to one public JSONL file.  A build runs for days, is stopped by its budget, by
the provider or by the host, and is resumed from a status file.  What makes it
correct is not in any single function but in the order of their steps: this
directory holds TLA+ models of those steps, the TLC runs that check them, and
proofs for every value of the constants.

Paths below are relative to `src/`.

- [Inventory](#inventory)
- [Modules](#modules-and-how-they-correspond-to-the-code)
- [Runs](#runs)
- [Bounds](#bounds), [fairness](#fairness)
- [Proofs](#proofs)
- [What disagrees with the documents](#what-disagrees-with-the-documents)
- [Not modelled](#not-modelled)
- [Plan](#plan)

## Inventory

| component | state | operations | hard part | what makes it correct |
|---|---|---|---|---|
| public JSONL store, `videohalo/stores/jsonl.py` | the pair file, `<file>.lock` | `append_jsonl_record`, `append_pair_jsonl`, `read_jsonl` | many workers and processes, polling with a deadline, writes cut by a failure or a death | mutual exclusion, no identity twice, never above the limit, no silent loss of an acknowledged record, every call returns |
| run lock, `videohalo/windowed_build.py` 85-172 | `<status>.run.lock` with pid and token | `exclusive_run_lock` | stale locks are taken over while others look at them | one build at a time, recovery after a crash, nothing left behind |
| windowed scheduler, `windowed_build.py` | results per video in the status file, queue, futures, budget flag, prefetch future | `run`, `_process_window`, `_preload_window`, `_write_status`, `submission_plan` | two thread pools, counts read before they are used, retries over restarts, three ways to stop | no overshoot, no starvation, bounded retries, final states that account for every video, completed videos stay completed |
| video worker, `videohalo/live_build.py` `LiveBuildRunner.run` | facts selected, pair ids seen | discover, select, append | runs against a file that grows; its exceptions are swallowed | at most the cap per video, an interruption is not a completion |
| fact and candidate pipeline, `live_build.py`, `videohalo/graphs/` | facts, reports, candidate of one video | scan, extract, reflect, realize, back-parse, monitor | model answers of any shape at every stage, one focused retry | only what every gate has accepted is emitted |
| media leases, `videohalo/media/gcs.py`, `lease_registry.py`, `videohalo/providers/gcs.py` | one SQLite row per source, one bucket object per video | claim, upload or reuse, activate, fail | claim, upload and update are three transactions; both racers upload | an active lease has its object; failures are repaired by the next claim |
| provider calls, `videohalo/providers/safety.py`, `videohalo/models/client.py`, `structured_call.py` | circuit, reserved slots, attempts | `raise_if_open`, `wait`, `inspect`, two retry loops | the circuit opens while other calls are under way | even spacing, bounded calls, bounded traffic after the circuit has opened |
| planning, `videohalo/planning/service.py` | none | `select_faithful_relative` | caps, one pair per leaf and video, limit | maximal selection within the caps |
| mutation and resolvers, `videohalo/mutations/`, `videohalo/resolvers/` | none | slot replacement, graph difference, leaf resolution | several validators of one rule | exactly one slot changes |
| agent calls, `live_build.py` `_call`, `videohalo/stores/artifacts.py`, `videohalo/observability/events.py` | event log per worker, snapshots by digest | structured call, `put_json`, `emit` | refused replaces, lines cut by a death anywhere and glued by the next start | a completed call has its snapshot |
| budget guard, `tools/monitor_vidhalloc_budget_guard.py`, `videohalo/runtime_metrics.py` | `budget_guard_status.json` | read the logs, price them, stop the workers | reads one log after the other while all are written; no error is caught | stops no run early, stops one that has crossed the line while it lives |
| resume tools, `tools/` | status file | repair | act between two processes | nothing running remains, no attempt is lost |
| selection tools, `tools/select_vidhalloc_2600.py`, `build_vidhalloc_*_selection.py`, `audit_vidhalloc_selection.py` | manifests, one document each | select, revise, order, audit | strata too small, same content under two names | no content twice, shares kept, every prefix representative |
| release tools, `tools/build_vidhalloc_release.py`, `normalize_vidhalloc_readable_ids.py` | staging and target directories, manifest, backups | split, package, rename | an incremental search; equal names, hard links into the sources; deaths between renames | exact splits, every file of a release holds what it should, no content under two names, every new name has its file |
| reservation ledger, `videohalo/stores/reservations.py` | SQLite rows | `reserve_many` | batches | nothing calls it |
| memory, policy, settings, entry points | none that is shared | prompt text, wiring | none | see [not modelled](#not-modelled) |

How they interact.  The main thread of the scheduler calls the planner
(`submission_plan`), submits videos to the worker pool, and learns of them
only through their futures.  The workers read and append to the public file,
whose length the main thread reads in turn: that is shared state without a
common lock.  All threads that talk to the provider share the circuit breaker
of the process.  The prefetch thread fills the lease registry for the next
window.  The status file is written by the main thread alone and read by the
next process; the run lock is there to keep processes apart.  The operator's
repair tool edits the status file between processes.  A large run is several
processes, each with its own directory; the budget guard beside them sees only
their event logs and public files, and acts on them only by killing them.  The
dataset tools run by hand before a build (what to ask) and after it (what to
publish).

Hazards, with the line where each bites and the property that covers it, are
listed in `PROJECT.json`.

## Modules, and how they correspond to the code

| module | models | by |
|---|---|---|
| `PublicOutput` | what the public file promises: records are only added, each identity once, at most a limit | abstract specification, refined by `JsonlStore` |
| `JsonlStore` | `append_jsonl_record` step by step | one action per file-system step of a thread |
| `RunLock` | `exclusive_run_lock` around a run, with the status read before it | one action per file-system step of a process |
| `WindowedBuild` | the scheduler's main thread, prefetch, workers, crash, resume, repair | one action per step between which another thread can act |
| `ProviderCalls` | `structured_call` around `invoke` around `_generate_content`, with the circuit and the pacer that all threads share | one action per step between which another thread can act |
| `MediaLease` | `acquire_or_reuse_gcs_object` with the registry and the bucket, for one source | one action per transaction, request or death of a process |
| `ReviewedPairs` | what a published pair has behind it: support by the reflection agent, then approval by the monitor | abstract specification, refined by `FactPipeline` |
| `FactPipeline` | the four-stage pipeline over one video, visited several times | one action per agent answer or gate |
| `AgentCalls` | `LiveBuildRunner._call`: structured call, memory snapshot, event log, of many workers in many processes | one action per request, file operation or death |
| `BudgetGuard` | the guard beside the workers of `AgentCalls`, which it extends | one action per directory read and per process killed |
| `DatasetSelection` | base selection, two revisions, audit | one action per tool that writes a document |
| `Apportion` | largest remainders, as the budget selection and the release use them | operators |
| `Sums` | the sum of a function's values, of values over a set | operators |
| `BudgetSelection` | core and reserve of a cell, and their ordering | one action per draw and per position of the order |
| `DatasetRelease` | targets, quotas, the annealed split, the packaging | one action per swap, file and rename |
| `ReadableIds` | `normalize`, with what an operator does after a failure | one action per file operation |
| `JsonlStoreProofs`, `RunLockProofs`, `WindowedBuildProofs`, `ProviderCallsProofs`, `MediaLeaseProofs`, `FactPipelineProofs` | theorems | see [proofs](#proofs) |
| `ToolProofs` | theorems about the guard, the selections, the release and the renaming | see [proofs](#proofs) |
| `DataLemmas` | lemmas about sums, images and division over finite sets of any size | used by `ToolProofs` |
| `MCJsonlStore`, `MCRunLock`, `MCWindowedBuild`, `MCProviderCalls`, `MCMediaLease`, `MCFactPipeline`, `MCBudgetGuard` | constants for TLC | |
| `MCDatasetTools` | constants for TLC, and the choice of one of the four dataset tools per behaviour | |

**JsonlStore.**  A thread is `waiting` while it polls for the lock, `locked`
once `os.open(O_CREAT|O_EXCL)` has succeeded, `cleared` after the duplicate
and limit gates, `writing` between the first byte and the end of `fsync`,
`release` until the lock file is unlinked.  The file is the sequence of its
complete lines and a `tail`: nothing, part of a record, or a whole record
without its newline.  A failed write or a death leaves one of these; which
ones the device can leave is the constant `Fault`.  A tail that is a part of a
record makes `read_jsonl` raise, so the gates refuse (`Readable`).  The next
line is glued to whatever tail it finds.  `AcquireFails` is the write of the
pid failing before the `try`; nothing in the repository deletes the lock file
it leaves, so `ClearOrphan` is the operator.

**RunLock.**  `Construct` loads the status (in the constructor, before the
lock), then `TryCreate`, `WritePayload`, or `Inspect`, `Judge`, `Unlink` and
around again; `Work` writes the status; `Compare` and `Remove` are the finally
clause.  A file without payload is read as no pid.  Every process runs once
and keeps its pid.

**WindowedBuild.**  The main thread's place is `pc`: `preload` (first window),
`enter` (take over the prefetch, queue the window), `loop` (head of the while
loop: the pair count is read), `plan` (decide on one submission), `submitted`
(the status write after it), `wait`, `settle`, `settled`, `leave` (end of the
window), `final`, and `drain`/`stop` for an open circuit.  `count` is the pair
count as the plan knows it, `output` the file as it is.  A worker's `phase` is
`discover`, `build`, then `ok` or `raised` until its future is settled.
`results` is the status in memory, `saved` the one on disk; a crash reverts
the first to the second.  Any saved status is resumed, one with running videos
too; the repair is an action the operator may take or not.  The main thread
reads the pair file without its lock: `ReadRaises` is `_pair_count` or the
refresh of the metrics meeting half a line, `Abort` the end of the process once
both executors are empty.  `SubmissionCap` is `submission_plan`, with 0 for
None; its result `desired` is folded in, the two tests of the inner loop being
the same comparison.  `budgetStop` may rise at any status write, which is when
the code refreshes its metrics, and never falls.  `DiscoverRaises`, `Reject`
and `PrefetchRefused` may open the circuit when `AuthMayFail`.  The order of
the deque is left open: any queued video may be next, so what holds does not
depend on the order.

**ProviderCalls.**  A caller is at `invoke` at the head of an attempt of
`structured_call`, at `check` before `raise_if_open`, at `pace` before it
enters the pacer's lock, `paced` while it sleeps for its slot, `called` while
the request is out, in `backoff` between two attempts of the flex tier, at
`retry` when an exception has reached `structured_call`.  Time is relative:
`lead` is the pacer's `_next` minus now and `slot` the last slot of a caller
minus now, both counted down by `Tick`, so that time needs no bound; a slot is
forgotten an interval after it has passed.  `late` counts the requests a
thread has sent since the circuit opened and is not a variable of the code.
Schema validation is folded into `Answer` and `Fail`; the pacer is taken to be
configured, as it is in every build.  That uploads may open the same circuit
adds nothing: any caller may open it at any time it is `called`.

**MediaLease.**  A client is a process on its way through one acquisition:
`get` the row, `reuse` it or `claim` it, `check` the circuit, `probe` the
bucket, `create` the object, `reload` its generation, then `activate` or
`fail`.  `held` is the dict the code carries along and writes back at the end
without a second look at the row.  `matches` is `_metadata_matches`; Init has
buckets that already hold the object, or another one of the same name.
A pending row becomes `stale` at any time, so a claim may age while its
owner still uploads.  `fault` and `overlap` are history: what an attempt met
that is not the code's doing.  Within one process the prefetch and the worker
of a video follow each other, and the selections hold every source once, so
races are races of processes; they happen because the registry belongs to the
data set while the run lock belongs to the status file.

**FactPipeline.**  A visit is `scan`, `extract`, `reflect` (fact by fact, with
`refocus` for the one focused retry), assembly into the verified facts and the
selection, then per selected fact `realize`, `backparse`, `monitor` (and
`remonitor`) and `publish`.  An answer is any record its JSON schema admits,
reduced to what some gate reads: the boolean findings are a set of names, an
interval is a pair of numbers that may be inverted, the eight leaves are a
set.  Question and answer texts are "as frozen or not", the word they begin with,
which decides about polar leaves, and whether the two answers are one text.  The gates of the runner and those the
orchestrator repeats in other words are separate operators (`AcceptedReflection`
and `ExtractionGate`, `Conditioned` and `FactsStable`, ...), since the
interesting question is whether they agree.  `supported` and `approved` are
history: which facts the last answers carry.  A raising discovery ends the
visit, a raising construction only the candidate; a death ends either.

**AgentCalls, BudgetGuard.**  A worker is `asking` (structured_call), `putting`
(before the lock of the artifact store), `replacing` (in it), `stored` or
`idle`.  Its log is a sequence of lines; a death may cut the last one
anywhere: in the middle ("torn"), inside a character ("split"), or before its
newline, where it still counts.  What the next start appends to any of these
becomes one line that is no JSON ("lost") or not even UTF-8 ("garbled"), so a
completion that was read can be lost afterwards.  Usage is a
record of tokens and `Cost` the price list of the policy in units of the
cheapest token; `billed` is what the provider charged, failed attempts
included, which no log holds.  The guard reads directories in order (`unread`
counts down), decides, and goes through the pid files.  It catches nothing but
JSON errors: `ReadRaises` is a line it cannot decode, `GuardFails` whatever the
operating system refuses it; either ends it, and `RestartGuard` is the operator.

**Dataset tools.**  A video is a number, smaller meaning earlier in the stable
rank, so "the first n by hash" is "the n smallest".  `DatasetSelection` keeps
per video what the tools look at: content, cut or not, dynamic or not,
audible or not, parent.  A document is `Missing`, `Refused` (the tool raised)
or the rows of each task.  `BudgetSelection` has the counts per stratum only.
`DatasetRelease` keeps the search's matrix and score as the code does,
incrementally; acceptance is free, since at a positive temperature any swap
may be accepted.  Its packaging goes by paths: `Dest` is the directory of the
task and the base name of the source, a file in the staging directory is a link
to a source or has bytes of its own, and `Write`, when the name is taken, goes
through the link into `source`.  A death may cut that copy, and `source` is what
the next start finds.  `ReadableIds` has the files and directories the tool
touches, each absent, torn, old or new.  The tools share no state while they
run; `MCDatasetTools` lets a behaviour be one of one tool.

Two facts carry the abstraction: `WindowedBuild` has one process at a time,
and its `Emit` appends in one step.  `RunLock` says when the first is so (for
builds that do not overlap); `JsonlStore` refining `PublicOutput` gives the
second.  A pair is `<<video, fact>>`, as `pair_id` is made of the video id and
the fact's number within its extraction; the model takes the normalised video
ids to be distinct.  `FactPipeline` is what one worker does inside
`WindowedBuild`'s `Select` to `Return`, with the file reduced to this video's
records; its `Visit` is a submission by the scheduler.

The definitions named "Mutation of ..." are not used by any specification.
Each is a plausible bug, and putting it in place of the definition it mutates
makes one property fail: that is how we know the property says something.

## Runs

| run | instance | question and answer |
|---|---|---|
| `jsonl_store` | 3 threads in 2 processes, 3 identities, limit 2, failing writes, one crash with restart | Is the append safe and live?  Mutual exclusion, a lost acknowledged record is at most one and makes the file unreadable, every call returns, and the complete lines refine `PublicOutput` (no identity twice, never above the limit). All hold. |
| `run_lock` | 3 processes, in any overlap, 2 of them killed anywhere | Do builds that follow each other always recover the lock and the recorded work, does a finished build leave nothing, does the take-over end? Yes. |
| `run_lock_exclusion` | 3 processes, no deaths | Are two builds ever inside at once? Yes, in the window before the pid is written. |
| `windowed_target` | 3 videos in windows of 2, 2 workers, cap 2, target 4, 2 attempts, a crash and a resume | Near the target: no overshoot, no starvation, types and attempt bounds. |
| `windowed_stops` | `process_all_videos`, budget, provider that may refuse, prefetch, reads of half a line, a crash, resume with and without repair | Does a build that walked its windows account for every video, does a completed video stay so, does every process end? Yes. |
| `windowed_pair_cap` | 1 video, 3 facts, cap 2, a crash and a resume | Is the cap a cap per video? No, only per attempt. |
| `windowed_provider_stop` | 2 videos, 2 workers | Is a video the provider stop interrupted preserved as pending? No, one whose exception was swallowed is completed. |
| `provider_calls` | 3 threads, 2 attempts around 2 flex attempts, slots 2 ticks apart | Are slots evenly spaced, is the wait bounded, how much is still sent after the circuit has opened, does every call end? Yes; at most one request per thread. |
| `media_lease` | 3 processes, one source, any number of attempts | Does an active lease name the object that is there, is a returned lease usable, does an attempt alone succeed after any crash or failure, does every attempt end? Yes. |
| `fact_pipeline` | 1 video, 2 visits, 2 leaves (one polar), 2 values, cap 1, every answer the reduced schemas admit | Do the orchestrator's first stages refuse a candidate of the runner for the two known reasons only (equal answers, errors the monitor counted), is the yield of a visit bounded, has every published pair both approvals (refinement of `ReviewedPairs`), does a visit end?  Yes. |
| `budget_guard` | 2 workers in one process or two, 2 calls, 2 starts, 2 attempts, 2 replaces, two answers to reach the stop line, a guard that may die | Has every completed call its snapshot, is a stop justified, is a crossing that the logs show acted on, while the guard lives and no glued line takes it back?  Yes. |
| `dataset_tools` | 16 videos with 360 assignments of contents, cuts, parents; 27 cells of 3 strata; 40 builds of 5 videos, some with equal names; 2 records to rename; deaths and restarts, in the middle of a copy too | Are selections and revisions clean, orders representative, splits exact, do the files of a release hold what they should, are new names backed?  Yes. |

## Bounds

Every bound is a named constant.  `MaxCrashes`, `MaxStarts`, `MaxDeaths` bound
the environment: one crash and one resume reach every pair of (interrupted
state, new process), and what a second resume reads is again a status file of
the first kind; the run lock has two deaths because a stale lock can be left
by a build that was itself taking one over.  Three threads in two processes
are the least with contention inside a process, between processes, and with a
dead owner at once; a limit of two with three identities makes both gates bite.
Three videos in windows of two give a full window, a last window that is not
full, and a prefetch; two workers and a target of two caps put the plan on
both sides of its switch from many workers to one.  Two attempts separate
first, last and exhausted.  `windowed_stops` uses a cap of one and one fact per video: what it
asks does not depend on how many pairs a video gives.

In `provider_calls` an interval of two ticks lets a clock tick fall between
two slots, and a third thread has two sleepers before it; two attempts in each
loop give a first and a last one.  Calls begin again for ever, so that what
happens "over all later calls" is in the state space.

`media_lease` needs no bound at all: attempts repeat for ever and generations
stop at one, which is part of what is checked.  The third process overlaps a
race whose loser is yet to write.

`fact_pipeline` has the two leaves a test of "one per leaf" and of "polar or
not" needs, and an interval set with one inverted interval, since two of the
overlap tests treat it differently.  Two visits are the least in which a number
names another fact than before.  `budget_guard` has a usage of half the stop line, so that two completed calls
are at it, a line that is lost takes the estimate below it again, and a single
one that counted twice would be at it too early.
`fact_pipeline` has a cap of one, as a cap of two takes too long; that one visit
gives no leaf twice rests on the proof of `VisitYield`.  In `dataset_tools` the manifests differ in pairs of equal contents
placed within a task, across tasks, between the base and the external pool,
and within the pool; the release has a leaf that cannot be divided exactly and
videos of one and of two pairs; names are equal within a task, across tasks,
and for three videos at once, the least in which a copy goes over a copy.

Deadlock checking is off for `RunLock`, `WindowedBuild`, `FactPipeline`,
`BudgetGuard` and the dataset tools because those systems stop: processes,
visits, calls and starts are bounded, and a tool ends.
`JsonlStore`, `ProviderCalls` and `MediaLease` have it on.

## Fairness

`JsonlStore`: weak fairness per thread, since the loop polls every 50 ms and
its deadline makes a step possible at all times.  `RunLock`: weak fairness per
process; no step of the protocol blocks.  `WindowedBuild`: weak fairness of
the main thread, of the prefetch's end and of each worker; a worker's calls to
the provider have a timeout (`node_timeout_seconds`) and bounded retries, so
each ends.  `ProviderCalls`: weak fairness of the clock and of each call that
has begun, since the client has a timeout; that a thread begins a call is not
fair.  `MediaLease`: weak fairness of each process in an acquisition; a
request is over after its timeout (900 s for an upload), a transaction after
30 s.  `FactPipeline`: weak fairness of `Step`, the worker: every agent call
returns or raises, as `ProviderCalls` shows; visits and deaths are not part of
it.  `BudgetGuard`: weak fairness of `GuardStep`, a loop that sleeps for some
seconds; `GuardFails` is not part of it, and nothing is assumed of the workers.
Crashes, refusals, restarts, the operator and the choice of a
failure are never fair.

## Proofs

All for every value of the constants within the assumptions
`StoreAssumption`, `RunLockAssumption`, `BuildAssumption`, `CallAssumption`,
`PipelineAssumption`, `CallsAssumption`, `GuardAssumption`,
`SelectionAssumption`, `BudgetAssumption`, `ReleaseAssumption` and
`RecordsAssumption`: any number of threads, processes, videos, workers, any
leaves, checks and intervals, any caps, targets and attempts, any finite set
of rows, strata and manifests.

- **JsonlStoreProofs.**  `LockExclusive` is close to inductive: the lock
  variable names the thread in the critical section, a crash turns it into
  `Orphan`.  `UniqueIdentities` and `WithinTarget` are not: they need that a
  thread that is `cleared` or `writing` has an identity that is not yet in the
  file and that there is room for it, which holds only because nobody else
  can write meanwhile.  `LossIsLoud` needs that an append that returns finds
  an empty tail, or a whole record to which its own is glued, and that the file
  is unreadable from then on.  `StoreImplementsOutput` shows the
  initial states and every step of the store to be steps or stutters of
  `PublicOutput`.
- **RunLockProofs.**  `LockInv` has three parts.  `OwnerOK`: the lock file
  belongs to a process that is about to write it, is inside, is on its way out
  or was killed.  `SeenOK`: nobody takes its own pid for the owner's.
  `SerialOK`: while starts have not overlapped, at most one process is alive,
  it knows all the work recorded, and none has been rejected.  The first two
  hold with overlap too; the properties about serial builds need the third.
- **WindowedBuildProofs.**  `BookInv` is the bookkeeping: types; `CountOK`,
  the file has not shrunk since it was counted for the plan; `WorkersOK`, what
  a worker does agrees with `inFlight`; `QueueOK`, queued videos are not in
  flight and have attempts left; `Quiet`, outside a window nobody works; and
  `NothingAbandoned`.  On top of it `BuildNoOvershoot` proves that pairs in
  the file and pairs still allowed to the videos in flight stay within the
  target.  The plan uses a count read earlier, so the induction needs
  `PlanOK`: while planning, what is committed (pairs and reservations) is at
  most the count plus one cap per video in flight.  `BuildNothingAbandoned`
  and `BuildCompletedIsFinal` follow from `BookInv` and one step.
  `BuildSourcesAccounted` adds `SourcesInv`: in `WindowOK` a video that is neither
  over nor running has an attempt left (`Retriable`), and every video of the
  window is queued, in flight or over, which a video left running by a process
  that died under its last attempt is too; in `PastOK` the videos of the windows
  already left are over, or the build has its target or its budget stop.  At the
  end the windows left are all of them (`WindowsCover`).
- **ProviderCallsProofs.**  `EvenSlots` is inductive with `NextIsPast`: the
  next slot is an interval past every slot handed out.  `BoundedWait` needs
  `SleepersInLine`: while the next slot is n intervals ahead, somebody sleeps
  for the slot n intervals before it; by the pigeonhole principle the line is
  then no longer than there are threads.  `OneLateCall` needs that a thread
  that was late is not past a test of the circuit again.

- **MediaLeaseProofs.**  `ContentInv`: row and copies that are active name
  the object, and who is about to activate has seen it; it is inductive
  because an object that is there never changes, which is the precondition of
  the upload.  `SoloInv`: busy attempts know of each other, an object that
  appears after the probe or an active row after the get was another
  attempt's doing.

- **FactPipelineProofs.**  The invariant says at each place of a visit what the
  gates passed so far have left: `Control`, `ReportsSupport` (a report that
  passes as support comes from an answer that supported), `Assembled` (after
  the assembly the facts are exactly the accepted ones, one per leaf),
  `CandidateRealized` (value and prefixes of the candidate passed the
  realization's tests), `Approval` (an accepted report comes from an answer
  that approved), `Published` and `Capped`.  `RefusalsKnown` follows from
  `Assembled` and `CandidateRealized`; `PipelineImplementsReviewed` from
  `ReportsSupport` and `Approval`: the orchestrator's gate reads the rewritten
  report, and the proof carries the agents' own answers up to it.
- **DataLemmas.**  The tools add up tokens, pairs, rows and squares, and the
  sums are folds.  That a fold over a finite set exists and does not depend on
  the order is shown with a smallest counterexample: the strict subset ordering
  of a finite set is well-founded (a theorem of the library about sets, not
  operators), so a non-empty set of bad subsets has a smallest member
  (`SmallestSubset`).  From it come `SetInduction` and the laws of sums used
  below: a member more or less, two parts, plus, times, monotone, positive, and
  what one changed value or two exchanged members do to a sum.
- **ToolProofs, the guard.**  `AuditedCalls` needs that a worker that is
  `stored` has its artifact in the store (`CallsInv`), which survives the
  deaths and kills of all the others because nothing is ever removed from the
  store.  `StopJustified` needs `BillInv`: what the guard has seen so far is no
  more than what the logs of the directories it has been to hold now (`Visited`:
  they may have grown since), and the cost of all logs with the answers that
  are not yet logged is no more than the bill.  So the estimate it decides on,
  added up from readings of different moments, is at most the bill at the end
  of the reading.  A line that is lost after it was read takes its usage out of
  the log and not out of the bill; cached tokens are priced inside the
  input, so every line costs something not negative (`CostOf`).
- **ToolProofs, the selections.**  `SelectionInv` says of each written document
  what its tool tested and what it did not: the number of contents is tested,
  that no content occurs twice follows by counting, since as many sets of
  `PerTask` rows hold at most that many rows (`UnionBound`) and as many contents
  as rows means that they differ (`ImageOf`).  That a revision really exchanges
  `Replaced` rows of a task is not tested: it follows because what is added is
  disjoint from the base.  `Representative` is inductive with the bounds of
  `BudgetInv`.  Its step is `Lagging`: the deficits of all strata add up to the
  length of the list, so one is positive, a stratum with a positive deficit has
  rows left, and the one that lags behind most is therefore below its share.
  The bounds on the second draw are `RemainderBounded`: rounding gives one row
  more than a whole quota to nobody.  `DrawsClose` is the tool's own assertion,
  "Proportional allocation did not close": the remainders add up to the rest
  times the sum of the weights, so the rest is between nothing and the number of
  strata (`AllocationCloses`); remainders with their tie-break are a strict
  order (`AheadOrders`), and in a strict order of a finite set exactly r members
  have fewer than r before them (`FirstOfOrder`, by bijections).  It needs that
  no two strata have the same rank, which `BudgetAssumption` says.  It is stated in
  `ToolProofs` and has no run of its own.
- **ToolProofs, the release.**  `ReleaseHonest` is inductive with the order of
  the steps (`Checked`), with `LastIntact`, the sources that are written are never
  those of the last video of a name, and with `Packed`: a link leads to a video of
  that file, each file holds what was hashed for one of its videos.  It is the
  order of the videos, the same in every start, that keeps the last source whole
  over any number of torn copies (`WriteReaches`).  `SplitKept` needs `SearchInv`, which says the same of
  the best result so far and keeps the plan's promise: quotas for videos of one
  and of two pairs give each split its total.  `DealtOut` shows that an
  assignment within the quotas has exact totals, `SwapKept` that the matrix
  updated by two videos and the score updated by `Delta` are what they would be
  if computed anew, because only the two rows of the matrix change
  (`ScoreChange`).  `SplitsTakeAll`: the totals of the splits add up to all the
  pairs, by `AllocationCloses` again.
- **ToolProofs, the names.**  `IdsBacked` needs the place of the tool
  (`Reached`): what each step finds on disk.

Only model-checked: the liveness properties `CallsReturn`, `AcquisitionEnds`,
`ProcessEnds`, `CallsEnd`, `AcquireEnds`, `VisitEnds` and `CrossingStops`
(temporal reasoning under fairness is out of the prover's reach).  Every
invariant and every action property of the passing runs is proved.  The three
violations are counterexamples of TLC.

## What disagrees with the documents

Three runs expect a violation:

1. `run_lock_exclusion`.  "Reject a second process for the same formal
   output/status pair" does not hold in the instant between the creation of
   the lock file and the write of its pid, and the unlink of a stale file can
   hit a fresh one.
2. `windowed_pair_cap`.  "At most two accepted pairs per source video"
   (README.md 16) holds per attempt.  A resumed video starts its cap again.
   `VisitYield` is what does hold.  The same goes for "at most one pair to a
   given leaf" (`planning/service.py` 29).
3. `windowed_provider_stop`.  The comment at `windowed_build.py` 756-758
   promises that a provider failure preserves the source as pending and costs
   no attempt.  A worker that swallowed the exception makes the video
   completed.

Remarks that need no run, since the code says so directly:

- COMPLETE_SPEC.md 605-606 promises an "atomic JSONL append".  The line is
  written in place.  A record cut before its newline is read as a whole one, so
  the next append passes the gates, is glued to it, synced and acknowledged, and
  is gone: `acked \subseteq Range(lines)` is false in `JsonlStore`.
  `LossIsLoud` is what remains: from then on no reader and no append gets past
  that line until someone repairs the file, and while the file can be read
  nothing acknowledged is missing from it.
- A video in flight that is not in the settled set of a provider stop is settled
  by nobody: it stays running with its attempt spent, against the comment at
  `windowed_build.py` 756-758 as well.
- A video whose process died under its last attempt stays running too.  A resume
  without the repair does not queue it (`windowed_build.py` 647) and does not
  count it as exhausted (899-904, which ask for the status failed), so the final
  state is `completed_sources` with no failed video, which
  `finalize_vidhalloc_enterprise_smoke_gate.py` 58-61 takes for complete.  It is
  the second disjunct of `SourcesAccounted`.
- The guard is to "enforce pair and AUD stop limits"
  (`monitor_vidhalloc_budget_guard.py` 1).  A line that a death has cut inside a
  character of several bytes ends it, and every guard started after it
  (`ReadRaises`).  `CrossingStops` is what holds while a guard lives.
- The release tool checks "content hashes across the packaged videos so duplicate
  video content cannot silently leak across Main/Eval/Test"
  (`build_vidhalloc_release.py` 4-6), on the sources.  Two videos of one base
  name are packaged into one file, which then may be in two splits.
  `ReleaseHonest` is what holds of the files.  The renaming tool, run before,
  avoids it.
- 10_Deployment_Testing_and_Operations.md 37-38: an open circuit "stops
  uploads, inference, retries, and automatic resume".  The circuit is tested
  before the pacer's sleep and not after it, so a request may leave later;
  `OneLateCall` bounds them by one per thread.  The same document says (line
  35) "Retry only transient 429/5xx capacity failures"; `structured_call`
  repeats a call after any exception, that of the open circuit included.  It
  does no harm, since the repeated call is refused before anything is sent.
- The guard writes the state "stopped" whatever became of the processes, and
  ends; with `--once` it only reports.
- The metrics count completed calls.  Failed attempts, calls that raised after
  their answer and completions whose line was cut are paid for and not seen.
- `select_vidhalloc_2600.py` 113 compares paths with those of earlier rounds but
  leaves out the ones written as `file:` URIs; contents are compared in any
  case, which is what `SelectionClean` states.
- The two revisions compare contents with the selection they revise; that a
  replacement was not in an earlier round is left to their screening lists,
  and for the external one to nothing.  `SelectionClean` claims it for the base
  only.
- model_roles.yaml has `shares_observations: false`, while the prompts of the
  later roles hold the reports of the earlier ones, and the memory of a runner
  lasts over the videos of its worker.

## Not modelled

The text of questions, answers and prompts, role memory, policy documents and
settings: no state and no order outside a prompt.  What a model answers is
inside the model call; the pipeline admits every answer.  Media registration
beyond its checks: reads one file with ffprobe.  The reservation ledger: nothing
calls it.  Preflight, the smoke gate, the preparation of a resume directory and
of the UCF101 manifests, the efficiency monitor: one pass over files that ends
in a report.  In the scheduler, the metrics shown in the status file.  Reuse of
a pid by a program that is not a build.  The normalisation of video ids in pair
ids (they are taken to be distinct).  `reuse_count` of a lease (read, added to
and written back in two transactions; only a log line shows it).  Wall-clock
time: deadlines may expire at any moment they are waited for.

## Plan

Done, in this order: `JsonlStore` with its abstraction and proofs, `RunLock`,
`WindowedBuild`, `ProviderCalls`, `MediaLease`, each with its proofs; then
`FactPipeline` with `ReviewedPairs`, `AgentCalls` with `BudgetGuard`, and the
dataset tools.

Open: the ranking of `select_faithful_relative` (which selection, not whether it
is one); the preparation of a resume directory.
