# Verification of cctv-memory

TLA+ specifications of the analysis pipeline of cctv-memory, checked by TLC on
small instances and, where marked, proved with TLAPS for every instance. The
specifications are translated from `src/cctv_memory`; `PROJECT.json` maps each
definition to its lines.

## 1. The system

A video is submitted over HTTP. Ingestion commits a job, its scale tasks and a
queue task in one transaction. Worker processes claim queue tasks under a lease
that a heartbeat thread renews, plan time windows ("units") per scale, and run
the units in a bounded thread pool: frames are selected, an optional gate
decides, a vision-language model is called through one shared scheduler, and the
result is published as a searchable observation record. Principals then search
within what access policies let them see. Everything durable is in SQLite (one
writer at a time) or PostgreSQL (READ COMMITTED).

| Component | State | Operations | Hard part | What makes it correct |
|---|---|---|---|---|
| Job lifecycle (`workers/analysis_worker.py`, `domain/state_machine.py`, `application/analysis_orchestrator.py`) | job, scale and unit rows, counters, per-worker tally | claim, start, motion scan, plan, dispatch, reconcile, finalize, required failure, orphan sweep | crash between any two transactions; reclaim and sweep beside a live worker | a finished task has a settled job; a usable job has a baseline record; published windows stay; every job settles |
| Task queue and heartbeat (`repositories/task_queue.py`, `workers/lease_heartbeat.py`) | task rows with owner and lease | enqueue, claim, refresh, mark succeeded / failed | clocks read before a delayed write; lost renewals; shared worker ids | one worker per task; abandoned tasks come back |
| Unit execution (`workers/default_segment.py`, `workers/high_freq_event.py`, `workers/retry.py`, gates) | unit row, record, model-call and gate logs | frames, gate, attempts, publish, lifecycle guard | any write may fail for good; two workers on one unit | status, record and logs agree |
| VLM scheduler and retry (`workers/vlm_scheduler.py`, `workers/retry.py`) | semaphore, interval lock, budgets | acquire, wait, stamp, call, retry | threads interleave around two locks; mixed failures | cap, spacing, bounded retries, every call ends |
| Publication (`repositories/publication.py`, `repositories/postgres.py`) | records by natural key, full-text rows, job summary, audit events | replace, index, summarise, audit | overlapping transactions | one active record per key, index matches, gapless history |
| Search contexts (`application/search.py`, `repositories/search_context.py`) | context, revisions, candidates | start, refine, batch, facets, close, sweep | reads before a late commit; a raising request rolls back; stale candidates | nothing unauthorised or replaced is returned; limits; ended stays ended |
| Ingestion (`application/ingestion.py`) | sources, jobs, scale and queue tasks by their unique keys | submit | concurrent and repeated submissions, lost answers | one job per key with its tasks; the same request gets the same job |
| Sequential path (`workers/analysis_worker.py`, `default_segment.py`) | the same rows as the job lifecycle | drain, scales in order, pool, serial or shared session | crashes, reclaims, an escaping unit | a finished pass is settled, a usable job has records |
| Planning and dispatch (`domain/policies`, `workers/motion_scan.py`, `workers/cross_scale_scheduler.py`) | triggers, durations, windows, queue of two scales | scan, probe, plan, dispatch | boundaries; a duration that becomes known in between; starvation | every instant is looked at; fair mix |
| Frames and gates (`infrastructure/video`, `workers/frame_selection.py`, `infrastructure/pre_vlm_gate`) | frame files, the OpenCV import, gate log | import, decode, select, extract, detect, decide, clean up | runs share directories; import race; detector outage | a unit reads its own frames; selection covers the window; outages are recorded |
| Timeline (`services/timeline_recorder.py`, `ops/timeline_export.py`) | events, folded curves | record, fold, hint | events lost or missing, processes die | peaks are real, ended units are closed |
| Provisioning (`workers/common.py`, `application/seed.py`) | locations, cameras, policies | placeholder, seed, upsert | first jobs of a camera race with each other and with the seed | no job fails, a registration survives |
| Vector index (`application/maintenance.py`, `repositories/index_store.py`) | vectors by record, channel, model | reindex, publish, compare | long session beside publications, failing provider | vectors belong to their text; a reindex is effective |
| Reading records (`application/auth.py`, `locator.py`, `playback.py`, exports) | policies, principals, tokens, audit events | details, locators, playback, overlap, exports | grants and records change between and within requests | nothing on the strength of an old grant; what was shown is audited |
| Backup (`application/backup.py`, `infrastructure/db/backup.py`) | main file, write-ahead log, copy, manifest | backup, restore | other writers and checkpoints; death at any step; a log that outlives the file it belongs to | a vouched copy has the counts of its manifest and, before the first restore, is a content some commit left |
| Ranking (`domain/ranking.py`, `application/search.py`, reranker) | channel ranks, fused order | rank, fuse, rerank | channels and the reranker fail or answer in part | a better match comes first, nothing is lost |
| API, CLI, settings, diagnostics, migrations | none of their own, or I/O | | | session commit or rollback appears in the modules |

Components interact through the database (every module's rows), through the
queue task (ingestion to worker), through in-process calls (worker, unit,
scheduler, publication) and through two background activities that touch rows
other actors are using: the orphan sweep and the maintenance sweep.

`PROJECT.json` lists every component with its status and the hazards at the
lines where they bite.

## 2. Modules

| Module | Models | Composes |
|---|---|---|
| `StateMachine` | the two transition tables and the orchestrator's rule | |
| `JobLifecycle` | one job, its scales and units, the queue row, all workers | extends `StateMachine`; its pool keeps `UnitContract` for each unit |
| `TaskLease` | abstract: what a queue promises its workers | |
| `TaskQueue` | the queue with real lease arithmetic and heartbeats | refines `TaskLease` |
| `UnitContract` | abstract: what executing a unit promises | |
| `UnitExecution` | the inside of one unit, over several executions of it | refines `UnitContract` |
| `VlmCalls` | the retry loops of concurrent units through the shared scheduler | |
| `Publication` | publishing transactions of many units, both backends | |
| `SearchContexts` | one search context, its requests and its surroundings | |
| `SequentialPath` | the path with `cross_scale.enabled = false` and the direct call of a processor | extends `StateMachine` |
| `UnitPlanning` | from a video to the ordered queue of its units | |
| `PreVlmGate` | detector reply, signal and rules of the gate, as operators | |
| `FrameStore` | the frame files of concurrent units, up to the cleanup | extends `PreVlmGate` |
| `CallTimeline` | events of units and calls, and the curves folded from them | |
| `Backend` | which database the node runs on | |
| `Submission` | requests to analyse videos, statement by statement | extends `Backend` |
| `Provisioning` | cold start of a camera beside the seed | extends `Backend` |
| `VectorIndex` | reindex beside publications | extends `Backend` |
| `RecordAccess` | reading records while policies and records change | |
| `Backup` | backup and restore beside writers | |
| `Ranking` | the order of a search's answer | |
| `*_proofs` | theorems about the module of that name; `VlmCalls_proofs` also about `UnitPlanning`, `SearchContexts_proofs` also about `Ranking`, `Node_proofs` about the seven other parts of `MCNode` | `Node_proofs` extends `Submission`, `Provisioning`, `RecordAccess`, `Backup`, `FrameStore`, `CallTimeline` and `VectorIndex` |
| `MC*` | instances for TLC (symmetry sets, a worker-id function, the inputs of the node) | `MCNode` composes the ten modules from `UnitPlanning` to `Ranking` |

Definitions called "Seeded fault" in a module are variants of the definition
that follows them, changed the way a plausible bug would; each makes the
property named in `PROJECT.json` fail.

### JobLifecycle

A step of a worker is one committed transaction or one in-memory step of
`_process_cross_scale`; `pc[w]` is the phase. `partial`, `hfActive` and `run[w]`
are the locals `any_partial`, `high_freq_active` and the unit tally, which are
lost with the worker. Time is reduced to what the code compares: a lease is
`valid` or `expired`, and `stale` is the set of units whose `started_at` lies
before the sweep's cutoff (`mark_running` keeps the first `started_at`, so a row
never leaves it). The constant `Faults` selects what the environment may inject.
A write outside a unit that exhausts its retries inside the try-blocks of the motion
scan or of planning goes to that phase's handler (faults `motion` and `plan`, which also
stand for the scan and the planner raising); any other one escapes `process_one`, which is the same as a
crash. The sweep takes any batch of stale rows: its order by
`started_at` is abstracted. The trigger counters of the motion scan are left out,
since no rule reads them. The path with `cross_scale.enabled = false` is
`SequentialPath`. `Contract(u)` maps the pool to `UnitContract`: the executors are the
workers, planned is not begun, an attempt in flight is running, and executions exclude
each other unless the fault `lease` is on. A crash or the end of a pass forgets the
attempts; reconciliation and the sweep are the contract's `Recover`, which may hit a row
whose attempt is alive.

### TaskQueue and TaskLease

Discrete time. `left[t]` is the time until `lease_expires_at`; a write reads its
clock first and lands up to `WriteDelay` later, a heartbeat wakes up to
`WakeDelay` late and may lose `MaxMisses` renewals in a row. `RenewSeconds` is
the clamp of `LeaseHeartbeat.__init__`. Stopping a heartbeat is assumed to end
within its five second join. `TaskLease` says what workers may rely on: a task is
granted to one worker at a time, again only after that worker gave it up, and
never after it was settled. The mapping takes a settled status to `settled` and
the slots processing a task to its holders.

### UnitExecution

One unit row and the runs `1..MaxRuns` that execute it. A run is a program
counter through `_run_unit_in_fresh_session`; every database write is one step
that may fail after its bounded retries. `setting` is chosen once: the scale,
whether runs overlap (a lease was lost), and `timeline_fail_open`. Workers with
and without a gate may run the same unit, since the configuration may change
between runs. If the first transaction, which creates and claims the row, exhausts its
retries (`StartFails`), the run reports failed and has stored nothing. A call id is `<<run, attempt>>`; `<<run, 1>>` is the run's
`mcall_id`. A missing job row is not modelled: jobs are never deleted.

`UnitContract` says what `JobLifecycle` takes an execution to be: what is succeeded or
skipped is declined, row, record and outcome become final in one step, and an attempt
whose write is lost is reported as failed or not at all. The executors are the runs: one
that has written its end has its outcome, a crashed one has none, any other begun one is
running. With `timeline_fail_open = false` an event that raises after the terminal write
makes the guard write again, the contract's `Reopen`.

### VlmCalls

One thread per unit. Each attempt passes the semaphore, then the interval lock
(held across the sleep), stamps, releases the lock and calls. `gap` counts ticks
since the last stamp and saturates at `MinInterval`, beyond which nothing compares
it. The backoff between attempts holds no permit and is not timed.

### Publication

Each publisher executes the statements of one transaction: read the job, select
the active record of the natural key, archive and insert, index, summarise, audit,
commit or roll back. `backend` never changes. On `"sqlite"` the lock, the write intent and
`BEGIN IMMEDIATE` admit one transaction at a time; on `"postgres"` they overlap
and only the unique constraint and row locks order them. The job row may be read
again within a session, because the identity map holds it weakly. A command
carries one record, as both processors build it.

### SearchContexts

One context; `req[r]` is what request thread `r` is doing. A request's reads see
what is committed when they run; its writes are committed at the end or rolled
back by any exception. A session that has written the context's row keeps other
writers of the row waiting. `scope` is the set of records the owner may see,
`ChangeScope` and `PublishRecord` may change the surroundings at any step. A
ranking may keep any part of its input. Requests turned away before they reach the
context (capability, `top_k`, another principal) change nothing and are left out.

### SequentialPath

One worker slot at a time (leases are timely, so a reclaim follows a crash), or a
caller that runs a processor in one session. A unit in a fresh session ends in one
of the outcomes of `UnitExecution`; in the shared session its frames, gate, calls
and publication are steps that become visible with the commit. `rows` are the
committed unit rows, records and call logs; `sess` those of the open session. Starting
or finalizing a scale may raise whatever its status is, since the write may exhaust its
retries, and the handler of the phase then takes over.

### UnitPlanning, PreVlmGate, FrameStore

`UnitPlanning` has the planners as operators and around them the orders in which
the worker calls them: a scan repeated after a crash, a probe that fails, another
job of the video that records its duration. `timed` remembers that a scan knew the
duration: without it triggers are clamped to the last sample, whose own instant then
lies outside them. `FrameStore` runs units of one window
through OpenCV import, decode, ring buffer and selection, JPEG files, fallback,
gate and cleanup; a frame is its position, whether it passes the quality gate and
its score. Positions are in ticks, `Ticks` to the millisecond: a frame is kept when it is
no more than `Slack` short of the next sampling time (the code's `1e-6`) and its
timestamp is rounded half to even, as Python's `round` does. An OpenCV works,
is absent, fails to import (`broken`), or imports and fails the sanity encode
(`unsound`), which leaves the module cached. A file is known by who wrote it. `PreVlmGate` has the detector's
adapters, the schema retry, the signal and the rules.

### CallTimeline

The events that a unit and its VLM calls record, in the order of their time stamps,
with the folds of the export kept up to date event by event. An event may be lost
(the recorder is fail-open) and the process may die. `free` are the permits really
left and `saturated` the history of them, against which peaks and hints are compared.

### Submission, Provisioning, VectorIndex

Each is written per statement where the backends differ. In `Submission` a request's
reads are autocommitted on SQLite and its first INSERT takes the lock; on PostgreSQL
an INSERT waits for an open one of the same unique value. In `Provisioning` the
insert of `upsert_by_pk` is committed with its savepoint on SQLite, as the driver
opens no transaction before it. In `VectorIndex` a reindex holds SQLite's lock from
its first audit event to its end, the provider's calls included. A vector is known
by the text it was computed from.

### RecordAccess, Backup, Ranking

`RecordAccess` resolves principal and scope, reads through the scope's filter, adds
audit events, commits and then answers; `answer` is the history of what a client saw,
the grants its principal had during the request and the audit events committed with it. `Backup` has
the database in WAL mode (`engine.py:47`), page by page: a commit appends pages to the
log, a checkpoint moves some of them to the main file of the connection that performs
it, and a read takes a page from the log before it takes it from the file. A connection
keeps the main file it has opened, whereas log and write lock go by the database's name;
so `os.replace` changes the file in place and neither the log nor what is open. In the
manifest `file` and `settled` are history: the main file in place when the backup began,
and that no process had a replaced one open. How SQLite treats the log of a file that is
gone is external to the repository and taken as: it is left behind. `Ranking` computes exact integer multiples of the code's
floats; bm25 is abstracted to the number of terms found. A failing call of the reranker is
retried, a body of the wrong shape is not (`siliconflow_reranker.py:64`).

## 3. Runs

| Run | Result | What it shows |
|---|---|---|
| `job_faults` | pass | two workers, two baseline windows and one event window, every fault but lost leases, two crashes, the sweep on: the job's rows stay consistent, and the pool keeps `UnitContract` |
| `job_settles` | pass | with fairness the job reaches a terminal status and its task leaves the queue, through two crashes |
| `job_lease_loss` | pass | with lost leases, where the other invariants do fail (section 6), a usable job still has a baseline record, as long as planning does not fail |
| `job_motion_reclaim` | violation | a crash after the motion scan leaves the job running for ever |
| `queue_timely` | pass | leases hold under `Timely`, refinement of `TaskLease`, abandoned tasks are reclaimed |
| `vlm_calls` | pass | spacing of the stamps; every call ends with an output or an error (no permit leaks, and the retry loop returns from inside) |
| `publication` | pass | consistency of records, index and history on both backends; on SQLite also of the job summaries |
| `unit_execution` | pass | status, record, logs and call ids of a unit agree, whatever fails; refinement of `UnitContract` |
| `search_contexts` | pass | two requests, publications, policy changes and the sweep: what is returned is current, refinements narrow, limit and end of a context hold |
| `sequential_path` | pass | the path without the cross-scale scheduler, in three execution modes |
| `node` | pass | the other parts of a node, see below |
| `media_source` | violation | whole-clip analysis with audio deletes the source video |

`node` is one run over ten modules that share no state (`MCNode`): the constant-like
variable `part` says which of them is explored, from all of its initial states, while
the others rest in one state of theirs. It is the sum of the parts, not their product,
so each part is explored completely within its bounds. Its properties, by part:

- planning: `QueueCoversVideo` (every instant of the video in a default window, every
  reported motion in a high_freq window, no window outside), `DispatchIsFair`;
- frames: `SelectionIsFaithful`, `WorkingFilesAreOwn`, `NoImportRace`,
  `OutageIsRecorded`;
- timeline: `PeaksAreReal`, `EndedUnitsAreClosed`;
- requests: `SubmissionIsIdempotent`, `DisclosureIsAuthorized`, `DisclosureIsAudited`,
  `BetterMatchesComeFirst`;
- administration: `ColdStartIsSafe`, `ReindexIsEffective`, `BackupIsFaithful`.

### Bounds

- `job_*`: two workers are what a reclaim or a sweep beside a live worker needs;
  two baseline windows separate partial from full success and make a one-row sweep
  batch a strict part; one event window suffices, since event windows interact only
  through their scale. Two crashes allow a crash in the reclaim of a crash.
  `job_lease_loss` and `job_settles` have the baseline scale only.
- `queue_timely`: lease 7 is the least that is `Timely` for one lost renewal with
  delays of one tick; two tasks are needed for one to wait behind the other.
  `MaxGiveUps` bounds crashes and escaped exceptions. It is needed for liveness too:
  a task that always raises is claimed before a younger abandoned one.
- `vlm_calls`: three threads for two permits, an interval of two ticks, both budgets.
- `publication`: three publishers, two jobs, two keys, four records, either backend:
  two transactions may share a key, a job or both, with a third in between.
- `unit_execution`: two runs, three attempts. A third run would meet the same rows.
- `search_contexts`: two records for one replacement, two requests, a limit of two
  revisions, one tick: with a lifetime of zero that is enough to expire a context
  under a request.
- `sequential_path`: three default and two high_freq units over a pool of two, so that
  a unit waits while another one fails; two crashes or further calls.
- `node`, planning: videos of up to nine milliseconds and four samples, windows of four
  with an overlap of one, so that remainders, merged and clamped triggers occur; frames:
  two units, streams of up to four frames with every quality, a ring of two, streams
  without positions, late seeks and empty windows, every decode mode and installation,
  positions in quarter milliseconds with a tolerance of one, so that both directions of
  rounding and both sides of the tolerance occur;
  timeline: one unit of each scale, one permit, two attempts, one fault; submission: two
  clients that send twice, eight requests that share video, anchor, key or nothing;
  provisioning: two planners and the seed; vectors: four records, a pool of three,
  batches of two, two models, three runs; access: one request at a time against two
  changes of policies and a republication (a scope is fixed within a request, so
  requests meet only through what is committed); backup: two writers, two pages, two
  commits, three commands; ranking: three candidates (`MaxCandidates`), a reranked head of two.

`CHECK_DEADLOCK FALSE` is set where the modelled activity really ends: a settled
job, used-up records, ended runs, an ended context, an answered request. The queue and the VLM runs
check for deadlock (their clocks always tick).

### Fairness

Fairness is of steps a live process takes. In `JobLifecycle` and `VlmCalls` it is weak:
phases and units of a worker (they have timeouts), some worker's claim (the drain loop
polls; any worker may win the race), the sweep (run before each pass), the passing of
time. In `TaskQueue` the steps of a claim, a pass and a heartbeat are weakly fair for
each worker, and the claim itself is strongly fair for each worker: a claim whose clock
was read is disabled and enabled again as other workers claim, finish and lose tasks,
and a worker that polls for ever takes a task it is offered again and again. Faults and
crashes are never fair. `job_settles` leaves out
the fault `write`: if a unit's writes fail for ever, no bounded retry settles the job.

## 4. What is proved

For every value of the constants that satisfies the named assumptions of the
module: sets of units and requests are finite, the two scales of units are disjoint,
security levels are the four of `SecurityLevel`, the seed command is no planning
worker, limits and budgets are natural numbers. Numbers are integers: scores, positions
and durations are multiples of the precision that matters, and streams and scores are
sequences of any length. Windows, overlaps and ratios are within the bounds whose
violation makes the planners raise `ValueError`; the merge gap is a natural number
(`settings.py:209`), scan intervals and batch sizes are positive. The time between two
sampled frames is more than a millisecond and the tolerance, which means `sample_fps`
below 1000 (the default is 8; `settings.py:313` asks for a positive number): from 1000 on two
frames could be given one timestamp. The ids of embedding models are compared by the order the database sorts them
in. In `Ranking`, `Unit` is a common multiple of the `k + rank` that up to
`MaxCandidates` candidates can have, so that the reciprocal ranks are exact, the reranker is
tried at least once, and the cosines of the vectors given are natural numbers, which TLC
evaluates on the instance. `DefaultUnits # {}` restricts
the two job modules to videos of positive duration: `plan_default_segments` returns no
window for the others, whose job ends succeeded with nothing to publish. `FrameAssumption` takes
`pipeline.decode_backend` to be one of the two values the configuration contract names
(`opencv`, `ffmpeg`). The setting is a plain string: any other value is served by OpenCV
(`analysis_worker.py:131`) without the warm-up (`:342`), and `NoImportRace` would not
hold for it. A theorem about `JobLifecycle` that needs timely
heartbeats says so with `"lease" \notin Faults`; `LeaseBudgetSuffices` is the theorem
of the queue that discharges it.

| Theorem | Statement |
|---|---|
| `JobLifecycle_proofs!TypeCorrect` | the lifecycle keeps its types |
| `JobLifecycle_proofs!LeaseSafety` | with timely heartbeats at most one worker is inside `process_one`, under a running row and a valid lease |
| `JobLifecycle_proofs!PublishedWindowsStay` | with timely heartbeats no step takes a succeeded unit back |
| `JobLifecycle_proofs!UsableJobs` | a usable job has a baseline record; with lost leases too, if planning does not fail |
| `JobLifecycle_proofs!FinishedTasks`, `SucceededJobs`, `CountersBacked` | with timely heartbeats: a finished task has a settled job, a succeeded job hides no failure, counters claim nothing that rows and records do not back |
| `JobLifecycle_proofs!PoolKeepsContract` | whatever planning, crashes, reclaims and sweeps do to all units at once, each unit is treated as `UnitContract` says, with lost leases too |
| `TaskQueue_proofs!QueueTypeCorrect` | types, consistent slots, heartbeats and clocks |
| `TaskQueue_proofs!LeaseBudgetSuffices` | `(MaxMisses+1) * (RenewSeconds+WakeDelay+WriteDelay) + WriteDelay <= LeaseSeconds` is enough to keep every held lease |
| `TaskQueue_proofs!QueueImplementsTaskLease` | a timely queue implements `TaskLease` |
| `UnitExecution_proofs!UnitInvHolds` | types, and the log of each run is the history of its attempts |
| `UnitExecution_proofs!OutcomeBacked`, `CallsAccountedFor`, `RunningOwned` | a unit's status, record, call logs and gate logs agree, for any number of runs and any failing writes |
| `UnitExecution_proofs!RunsImplementContract` | any number of executions of a unit, overlapping or not, implement `UnitContract` |
| `VlmCalls_proofs!CapHolds`, `StampSpacing`, `LoopNeverFallsThrough` | cap, spacing and retry budgets |
| `VlmCalls_proofs!QueueCovers` | the dispatched windows cover every instant of the video and all reported motion and stay inside it, for any video and any settings |
| `VlmCalls_proofs!DispatchFair` | every planned unit is dispatched once, in order, and neither scale starves, for any quota |
| `Publication_proofs!PublicationIsConsistent` | one active record per key, an exact index, each published record active or archived once, on both backends |
| `Publication_proofs!SqliteSummariesComplete` | with one writer no id is lost from a job's summary |
| `SearchContexts_proofs!SearchTypeCorrect` | types; default and base revisions are committed ones |
| `SearchContexts_proofs!ReturnedRecordsAreCurrent` | a request returns nothing outside its scope and nothing replaced before it came |
| `SearchContexts_proofs!EndedStaysEnded` | no request under way revives a closed or expired context |
| `SearchContexts_proofs!RefinementNarrows` | every revision is within its parent and within the scope of the context |
| `SearchContexts_proofs!RevisionLimit` | the revision limit is exceeded by at most one for every other request thread |
| `SearchContexts_proofs!BetterMatchesFirst` | a search loses and repeats nothing it found, a better match comes first in the fused order, the cross-encoder only permutes the head |
| `SequentialPath_proofs!FinishedPasses`, `BackedJobs` | a finished pass is settled and a usable job is backed, in all three execution modes |
| `Node_proofs!IdempotentSubmission` | one complete job per key, and the same request gets the same job, on both backends |
| `Node_proofs!ColdStart` | planners of a new camera and the seed: nobody fails, and a registration is lost only to a planner that looked before it |
| `Node_proofs!DisclosuresAreAuthorized`, `DisclosuresAreAudited` | what is shown is covered by grants of the request, and audited before the answer |
| `Node_proofs!BackupsAreFaithful` | a backup its manifest vouches for has the row counts of the manifest, unless a process still had a replaced file open; before the first restore it is what some commit left |
| `Node_proofs!FilesAreOwn` | the gate and the VLM read files their own unit wrote, and a published unit leaves none of its selected ones behind outside debug retention |
| `Node_proofs!SelectionsAreFaithful` | selected frames have increasing timestamps inside the window and are as many as possible, usable where any is, and spread over the window |
| `Node_proofs!ImportsAreOver` | no unit meets a half imported `cv2` when OpenCV can be imported |
| `Node_proofs!OutagesAreRecorded` | the log row of a gate decision tells an outage of the detector from a quiet scene |
| `Node_proofs!EndedUnits` | a unit that ended in a complete run is gone from every curve of the export |
| `Node_proofs!Peaks` | exported peaks stay within the permits but for runs with incomplete events; the saturation hint is true; scales and total agree |
| `Node_proofs!ReindexesAreEffective` | after a successful reindex the listed records are compared by vectors of its model and their own text |

The arguments:

- **Lease safety of a job.** Types and mutual exclusion are inductive together: a
  claim needs a queued row or an expired lease, and without the fault `lease` a lease
  expires only when nobody is inside.
- **Published windows stay.** The invariant `AttemptInv` relates rows and attempts:
  a unit whose attempt is in flight has a row that is not succeeded, so no terminal
  write and no sweep can hit a succeeded one. It uses lease safety: two workers on
  one job would break it.
- **Usable jobs.** `BaselineInv` says that succeeded rows have records, that a worker
  in its final phase has seen a baseline record, and that a default scale that is
  terminal in a running job was counted (`TerminalBaselineIsCounted`). The last part is what fails with lost leases and failing planning together (section 5),
  and the hypothesis of the theorem excludes exactly that combination.
- **Settled jobs.** `SettledInv` says what a pass knows at each phase about scales and
  units (`PassInv`: its tally agrees with the rows, nothing runs once it was joined, the
  scales it finalized have the status of its tally) and that statuses and counters
  claim only settled units. Under a timely lease only one pass is under way
  (`LeaseSafety`), and the sweep beside it can only settle what the pass would find
  settled.
- **Lease budget.** `QueueInv` bounds the time left of a held lease from below by
  what the current heartbeat cycle can still take: the wait, its lateness, the write
  and the misses that remain. `Timely` keeps the bound above zero. A claim that read
  its clock early can then not see the lease as expired.
- **Refinement.** The mapped initial state is initial; each action maps to the
  abstract action of its effect or to a stutter, under `QueueInv`.
- **Units.** `UnitInv` says of each run what its program counter implies: the calls
  made are its two failure counts plus the one that succeeded or is open, its logs are
  the calls it has logged, and the row points at a call of some run. Runs touch
  only log entries of their own, so with any number of runs each step disturbs one
  run's part and the row.
- **VLM.** Permits out are the threads between two program points, counted with the
  cardinality theorems; the holder of the interval lock is the only sleeper; attempts
  made are the two failure counts plus the one under way.
- **Unit contract.** Each action is one step of the contract or a stutter. That
  executions exclude each other is, in `UnitExecution`, that without overlap at most one run is live
  (`Alone`), and in `JobLifecycle` lease safety with `AttemptInv`; without timely leases the contract
  does not ask for it. A step of the job that touches many units at once is a contract step of each.
- **Planning.** Tiles that are at least as long as they are apart leave no gap up to the
  first that reaches the end, and there is such a first one. Every sample above the
  threshold lies in a run, from the greatest first sample before it to the least last one
  after it, and the trigger of the run reaches the sample's instant whichever bound clamped
  it. `PlanInv` carries this from the scans (`ScanInv`) to the plans (`PlansInv`), through
  scans that are repeated under another bound.
- **Dispatch.** The places of the two scales are increasing, disjoint and, by counting, all
  places; so each place has one unit, and the turns of a scale are its plan in order.
- **Publication.** `PubInv` says what each transaction knows at its program counter:
  a publisher that has written faces the record it selected as the key's active one,
  and no other open transaction has written that key. The summaries need `SumInv`:
  between a read of the job row and the commit, nobody else commits, which is where
  one writer is used.
- **Search.** `SearchInv` adds to the types what holds of a request wherever it is:
  its working set and its result are within its scope and apart from the records
  replaced before it came, which needs that a replaced record is never active again;
  and the one request that starts the search runs before the context exists, every
  other one after, so no step but the creation makes a context active. `NarrowInv`
  carries narrowing to the pending revisions of requests: their parents are committed
  or earlier pending ones. `LimitInv` counts the committed revisions, those pending in the one session that
  holds the row, and the requests that have passed the test and wait for the row: a
  request counts its own revisions again, so only its first can exceed the limit.
- **Ranking.** Ranks are one more than the number of records in front, which is a bijection
  for a total order on a finite set; a better score has a smaller rank and, `Unit` being a
  common multiple, a strictly larger share, so dominance is carried to the sum. The same
  bijection shows that ordering loses and repeats nothing.
- **Sequential path.** `SeqInv` is split by mode, since worker and direct caller share
  no step. `WorkerInv` relates place, tally, rows, scale statuses and the job;
  `DirectInv` says that rows, records and logs agree in the session and in what is
  committed, so that a commit at any return is consistent.
- **Submission.** `SubInv` says what a client has learnt at each statement. On
  SQLite nothing commits beside the lock's holder; on PostgreSQL an open insert keeps
  others of the same unique value waiting, so a row read as missing is either still
  missing at the insert or the insert fails. A job, its scale tasks and its queue task
  become visible in one commit.
- **Cold start.** `ProvInv` orders the savepoints: a camera is written only in a session
  that has seen or written its location, and a planner's placeholder is written over a
  registration only if the planner's read came before the seed's commit.
- **Access.** `AccessInv` keeps for each request the grants its principal has held since
  it was resolved: everything read through the scope filter is covered by them, and the
  audit events of a session name what it will answer. A token only leads to the same filter again.
- **Backup.** `BackupInv`: while the command holds the write lock through its audit event, nothing
  is appended to the log, and a checkpoint changes where a page is but not what a
  connection to the file in place reads. So copy and counts are of one content as long as
  nobody checkpoints to another file, which is what `settled` says; and before the first
  restore there is one file, whose reading is always what the last commit left.
- **Frame files.** `FrameInv` has three parts that no step mixes. `FilesInv`: every working
  file carries the key of a unit that has it in `wrote`, so what one unit replaces or
  deletes is never in another's set, and a run that cleaned up has none of its media
  left. `ImportInv`: with an OpenCV that can be imported the bootstrap is never under way once a unit
  runs. `LogsInv`: the media of a unit at the gate are not empty, so that a failed batch has
  an image to fail.
- **Selection.** The kept samples of a prefix of the stream have increasing positions inside
  the window, by induction on the length of the prefix (`BoundedInduction`: of the lengths
  for which it fails there would be a least one). Rounding moves a position by at most half
  a millisecond, and kept positions are more than a millisecond apart, so that timestamps
  increase as well. Sorting is numbering by rank again, the
  uniform strides are distinct positions, and bins have one best frame each, the rest of the
  budget being filled from the others; `SelectedInv` carries it to the write phase.
- **Reindex.** `VectorInv`: the rows of the vector table belong to their record's text; while a
  reindex runs, the listed records that live have both channels under its model in what its
  session sees once their batch is over, and are else among the pairs of the batch under way. The pool and the pending keys are numbered by rank, so no key of a
  batch is skipped.
- **Timeline.** `ExportInv` is about the folds alone: every open key belongs to a unit of
  the group's scale, the curve of all events is the union of the two scales, and peaks
  bound what is open. `RunsInv` ties the curves to the threads: every earlier run of a
  unit is marked as incomplete, and a complete current run is shown only where its
  thread is. With the permits counted (`PermitsInv`), the calls shown as outbound are
  units inside the semaphore or incomplete runs; the peak moves only to such a count.

Only model-checked are the liveness properties `JobSettles`, `AbandonedTaskIsReclaimed`
and `CallsEnd`: they need fairness and `ENABLED`, which the prover does not reason about.
Every invariant, action property and refinement of the passing runs is stated by a theorem. Two theorems
state consequences of a run's property that are worth having for themselves: a window that
was published stays (`SucceededUnitsStay`, of `PoolKeepsUnitContract` with exclusive
attempts), and the retry loop returns from inside (`NeverFallsThrough`, the safety part of
`CallsEnd`).
Recursion and sorting over data are within reach because the models write a sort as
numbering by rank and the one true recursion (`Sampled`) as a function on `0..n`, whose
existence and unfolding are proved before it is used.

The types of the proved modules are part of their invariants and not repeated in the
runs.

## 5. Divergences

Where documentation, comments or tests say something the code does not do. Two are
runs; the others were found the same way and are kept as definitions in their modules,
each violated when it is added to the run named here.

| Statement | Property | Run | Behaviour |
|---|---|---|---|
| `analysis_worker.py:1399`: never left silently running | `JobSettles` | `job_motion_reclaim` | after `motion_scan` succeeded a reclaim's transition to running raises, the handler's to failed raises again, and so does each later reclaim |
| `analysis_worker.py:1514`: no successful baseline unit means failed | `UsableJobHasBaseline` | `job_lease_loss` with the fault `plan` added | a lost lease lets two workers overlap; planning fails in one, which fails scale and job with zero counters; the other marks the job running again and the sweep, which tests `total_units > 0`, reports it partial_failed |
| `frame_selection.py:70`: the cleanup deletes working files | `SourceSurvives` | `media_source` | with whole-clip media and audio the selected file is the source itself |
| `test_repositories.py:112`: same key, other video is a conflict | `AnswerIsAboutItsVideo` | `node` | `submit` returns the job it finds by the key before `create_job` could compare |
| `data-storage-and-retrieval-design.md:814`: a job records the ids it published | `SummariesListAll` | `publication` | on PostgreSQL the lists are read, extended and written back without a lock on the row |
| `job-state-machine-contract.md:66`: a job fails only if nothing was published | `FailedJobHasNoBaseline` | `job_faults` | crash between the end of the scales and of the job; the reclaim cannot restart `default_segment` and fails the job |
| `settings.py:156`: only abandoned units are swept | `OnlyAbandonedUnitsSwept` | `job_faults` | `started_at` survives a rerun, so the sweep fails a live unit |
| `job-state-machine-contract.md:302`: `retry_scheduled -> queued` | `RetryReturnsToQueue` | `job_settles` | nothing performs that transition |
| `lease_heartbeat.py:11`: a worker that lost the lease cannot extend another's | `OnlyGranteeExtends` | `queue_timely` with lease 3, wake delay 3, no misses | owners are compared by `worker_id`, which slots share |
| `vlm_scheduler.py:32`: a gap between successive call starts | `CallsAreSpaced` | `vlm_calls` | the lock is released between the stamp and the call |
| `job-state-machine-contract.md:116`: `attempt_count` is the number of model attempts | `AttemptCountIsReal` | `unit_execution` | `mark_running` adds one before any call |
| `infrastructure/db/backup.py:85`: "replace the target DB with the backup" | `RestoreBringsBackupBack` | `node` | only the main file is replaced: the log of the old database stays under its name, the next connection reads its pages over the restored file, and even the restore's own audit commit goes to the old log |
| `domain/policies/__init__.py:317`: "short blips are dropped" | `ShortRunsAreDropped` | `node` | lines 371-373 extend a run that is too short to `min_duration_ms`; `QueueCoversVideo` is stated for what the code does, so that every hot sample has its window |
| `search-contract.md:344`: an expired context becomes `expired` | `RefusedContextIsEnded` | `search_contexts` | the request that finds it raises, and its session is rolled back |
| `search-contract.md:300`: over the revision limit is refused | `RevisionLimitHolds` is the bound that holds | `search_contexts` | requests that count together exceed the limit, by one each |

Also seen while modelling; the models behave the same way and the properties are
stated around it:

- Sequential path: high_freq units are stored without a scale task id, so their
  reconciliation does not find them (`analysis_worker.py:1081`); an exception that
  escapes a unit ends the serial drain; after a crash, a reclaim of a job with a
  partly failed default scale and a succeeded motion scan escapes every time.
- Media: files written by OpenCV before the ffmpeg fallback are forgotten
  (`opencv_frame_stream.py:444`); a scan repeated after a crash with another bound may
  store triggers that overlap earlier ones; a spike at the last sample is dropped while
  the duration is unknown; a detector outage suppresses the VLM like a quiet scene.
- Timeline: calls of a process that died stay outbound in the curves; a unit ended by
  the lifecycle guard records no `unit_finished`; the export keeps the oldest events
  when it reaches its limit.
- Submission: the loser of a race with the same payload is refused (409 on SQLite, 500
  on PostgreSQL) instead of being given the winner's job; SQLite compares the anchor as
  text with its offset, so one instant in two zones is two videos.
- Provisioning: a planner that looked before the seed committed replaces the
  registration by the placeholder; `seed.py:35` says the upsert keeps an existing row
  untouched, and it updates it; records of the automatic location have no location
  policy and are visible to nobody.
- Vectors: `maintenance.py:97` says reindex is resumable, and an embedding error rolls
  the earlier batches back with the event that reports it; on PostgreSQL rows of a model
  whose id sorts later win over the current one; SQLite keeps vectors of deleted records.
- Access: the token placed in details can not be redeemed; exported `video_sources` are
  always empty; overlap queries are not audited; the playback key is random per process.
- Backup: processes that are running during a restore append to the log of the
  database's name and checkpoint it to the file that was replaced, so that their writes
  may vanish from the database in place, and a later backup may have counts that differ
  from its copy; `restore_failed` is rolled back; counts and copy agree only because
  the first audit event holds the write lock.
- Ranking: without a query the order is oldest first (`search.py:418` speaks of a
  recency proxy); one matched tag outweighs all rank components; an empty reranker
  answer orders the head by record id.
- Search: facets do not refresh `last_accessed_at` (search-contract 9.5.2) and
  `max_active_contexts_per_principal` is not enforced.

## 6. Limits

With lost leases (fault `lease`) two workers may process one job; then
`FinishedTaskIsSettled`, `SucceededJobIsComplete`, `CountersAreBacked` and
`SucceededUnitsStay` fail, and if planning may fail as well so does
`UsableJobHasBaseline` (section 5); without that it holds (`job_lease_loss`, `UsableJobs`). `LeaseBudgetSuffices` says which settings exclude this; no validator of
`config/settings.py` enforces the inequality. `UnitExecution` with a raising timeline recorder can fail a unit that has published, which is why
`OutcomeIsBacked` assumes `timeline_fail_open` for failed units.

Not modelled: decoding, pixel differences, HTTP clients and the VLM adapters (their
outcomes are choices of the environment), ORM mappings and contracts (copies of
fields), migrations, settings validation, diagnostics, capacity estimation, and the
benchmark and experiment commands (read-only or data copies). Nothing in them keeps
state that another component reads while it changes.

## 7. Plan

Every component that keeps state is modelled, and every safety property of the passing runs
is proved. What would come next:

1. `SequentialPath` against `UnitContract`: its pool and serial modes abstract a unit to the
   same outcomes, its shared session commits several units at once.
2. A liveness argument for `JobSettles` on paper, from the lattice of phases that the
   lemmas of `PassInv` already describe.
