---------------------------- MODULE JobLifecycle ----------------------------
(***************************************************************************)
(* One analysis job driven by the workers of the queue: the job row, its   *)
(* scale tasks, its analysis units, the queue task that carries it, and    *)
(* the phases of AnalysisWorker._process_cross_scale, each of which is one *)
(* committed transaction (or one in-memory step) of the worker holding it. *)
(* Workers crash, leases lapse and are reclaimed, and any idle worker may  *)
(* run the orphan sweep between two steps of another.                      *)
(*                                                                         *)
(* Time is abstracted to what the code compares.  A lease is "valid" or    *)
(* "expired".  A unit row is in stale once its started_at lies before the  *)
(* sweep's cutoff; mark_running keeps the first started_at, so a row never *)
(* leaves stale.                                                           *)
(***************************************************************************)
EXTENDS Naturals, FiniteSets, StateMachine

CONSTANTS
  Workers,         \* the process_one slots, of one process or of several
  DefaultUnits,    \* windows planned for default_segment
  HighFreqUnits,   \* windows planned for high_freq_event once triggers exist
  Scales,          \* the scale tasks that ingestion created for the job
  PoolSize,        \* worker.max_unit_workers_per_job
  MaxRetries,      \* Task.max_retries; retry_count is 0 in every row
  OrphanRecovery,  \* worker.orphan_recovery_enabled
  OrphanBatch,     \* worker.orphan_batch_limit
  Faults,          \* which of FaultKinds the environment may inject
  MaxCrashes       \* bound on the number of crashes

FaultKinds ==
  {"motion",   \* the motion scan, or a write of its scale's status, raises
   "plan",     \* probing, planning or the write that starts a scale raises
   "unit",     \* a unit's frames or its VLM call fail
   "skip",     \* a unit window has no usable frames
   "write",    \* a unit's own database writes exhaust their retries
   "lease",    \* heartbeats may come too late to keep a lease alive
   "slow"}     \* a unit attempt may outlast worker.orphan_stale_seconds

DEFAULT == "default_segment"
MOTION == "motion_scan"
HIGHFREQ == "high_freq_event"

ASSUME ConstantsAssumption ==
  /\ IsFiniteSet(DefaultUnits) /\ DefaultUnits # {}
  /\ IsFiniteSet(HighFreqUnits)
  /\ DefaultUnits \cap HighFreqUnits = {}
  /\ Scales \in {{DEFAULT}, {DEFAULT, MOTION, HIGHFREQ}}
  /\ PoolSize \in Nat \ {0}
  /\ MaxRetries \in Nat
  /\ OrphanRecovery \in BOOLEAN
  /\ OrphanBatch \in Nat \ {0}
  /\ Faults \subseteq FaultKinds
  /\ MaxCrashes \in Nat

Units == DefaultUnits \cup HighFreqUnits
UnitsOf(s) == CASE s = DEFAULT -> DefaultUnits
                [] s = HIGHFREQ -> HighFreqUnits
                [] OTHER -> {}

VARIABLES
  job,        \* AnalysisJob.job_status
  scale,      \* AnalysisScaleTask.status, by scale
  counts,     \* the scale task's total/succeeded/failed unit counters (those
              \* of motion_scan count triggers; no rule reads them)
  unit,       \* AnalysisUnit.status; "none" until the row is created
  stale,      \* units whose started_at lies before the sweep's cutoff
  published,  \* units with an active ObservationRecord
  triggers,   \* whether the job has HighFreqTrigger rows
  video,      \* VideoSource.source_status
  task,       \* the queue row's status
  lease,      \* the queue row's lease
  pc,         \* where each worker is in process_one
  partial,    \* workers whose local any_partial is True
  hfActive,   \* workers whose local high_freq_active is True
  run,        \* run[w][u]: w's attempt at u, then its tallied outcome
  crashes     \* how many crashes have happened

db == <<job, scale, counts, unit, stale, published, triggers, video, task,
        lease>>
vars == <<job, scale, counts, unit, stale, published, triggers, video, task,
          lease, pc, partial, hfActive, run, crashes>>

Phases ==
  {"idle", "claimed", "motion_start", "motion_scan", "motion_finalize",
   "motion_failed", "has_triggers", "high_freq_skip", "default_start",
   "default_plan", "high_freq_start", "high_freq_plan", "high_freq_failed",
   "dispatch", "reconcile", "finalize_scales", "finalize_job",
   "required_failure"}

\* A planned unit runs its "first" attempt when this attempt stamped
\* started_at, a "rerun" when the row had one already.
Attempt == {"none", "planned", "first", "rerun"}
Outcome == {"succeeded", "failed", "skipped"}
NoAttempts == [u \in Units |-> "none"]
InFlight(w, u) == run[w][u] \in {"first", "rerun"}

NoCounts == [total |-> 0, succeeded |-> 0, failed |-> 0]

\* The rows committed by IngestionService.submit, before any worker looks.
Init ==
  /\ job = "queued"
  /\ scale = [s \in Scales |-> "pending"]
  /\ counts = [s \in Scales |-> NoCounts]
  /\ unit = [u \in Units |-> "none"]
  /\ stale = {}
  /\ published = {}
  /\ triggers = "none"
  /\ video = "pending"
  /\ task = "queued"
  /\ lease = "none"
  /\ pc = [w \in Workers |-> "idle"]
  /\ partial = {}
  /\ hfActive = {}
  /\ run = [w \in Workers |-> NoAttempts]
  /\ crashes = 0

-----------------------------------------------------------------------------
(* Control of one worker. *)

At(w, phase) == pc[w] = phase
GoTo(w, phase) == pc' = [pc EXCEPT ![w] = phase]

\* process_one returns or raises: the worker is idle again, its heartbeat is
\* stopped and its local variables are gone.
Leave(w) ==
  /\ pc' = [pc EXCEPT ![w] = "idle"]
  /\ partial' = partial \ {w}
  /\ hfActive' = hfActive \ {w}
  /\ run' = [run EXCEPT ![w] = NoAttempts]
  /\ UNCHANGED crashes

\* An exception that escapes process_one; the open transaction is rolled back.
Escape(w) == Leave(w) /\ UNCHANGED db

\* What a step that only moves the worker on leaves alone.
locals == <<partial, hfActive, run, crashes>>

SetScale(s, status) == scale' = [scale EXCEPT ![s] = status]

-----------------------------------------------------------------------------
(* The queue row. *)

\* What a claim writes.
Take(w) ==
  /\ task' = "running"
  /\ lease' = "valid"
  /\ GoTo(w, "claimed")
  /\ UNCHANGED <<job, scale, counts, unit, stale, published, triggers, video,
                 locals>>

\* Seeded fault: the lease of a running task is not looked at.
ClaimIgnoringLease(w) ==
  At(w, "idle") /\ task \in {"queued", "running"} /\ Take(w)

\* Seeded fault: a running task is never claimed again.
ClaimQueuedOnly(w) ==
  At(w, "idle") /\ task = "queued" /\ Take(w)

\* TaskQueueRepository.claim_task: a queued task, or a running one whose lease
\* has lapsed.
Claim(w) ==
  /\ At(w, "idle")
  /\ \/ task = "queued"
     \/ task = "running" /\ lease = "expired"
  /\ Take(w)

\* LeaseHeartbeat renews the lease as long as some worker is inside
\* process_one, so it lapses only when none is, unless heartbeats are late.
LeaseExpires ==
  /\ lease = "valid"
  /\ "lease" \in Faults \/ \A w \in Workers : At(w, "idle")
  /\ lease' = "expired"
  /\ UNCHANGED <<job, scale, counts, unit, stale, published, triggers, video,
                 task, pc, locals>>

\* A heartbeat that does arrive; refresh_lease checks the owner only, and the
\* workers of a deployment share the configured worker_id.
RefreshLease(w) ==
  /\ ~At(w, "idle")
  /\ lease = "expired"
  /\ lease' = "valid"
  /\ UNCHANGED <<job, scale, counts, unit, stale, published, triggers, video,
                 task, pc, locals>>

\* mark_succeeded and mark_failed write the row whatever its state is.
MarkTaskSucceeded == task' = "succeeded" /\ lease' = "none"
MarkTaskFailed ==
  /\ task' = IF 0 < MaxRetries THEN "retry_scheduled" ELSE "failed"
  /\ lease' = "none"

-----------------------------------------------------------------------------
(* _process_claimed_task and _process_cross_scale, phase by phase. *)

\* _mark_job_running
MarkJobRunning(w) ==
  /\ At(w, "claimed")
  /\ \/ /\ JobMayBecome(job, "running")
        /\ job' = "running"
        /\ GoTo(w, IF MOTION \in Scales THEN "motion_start"
                                        ELSE "default_start")
        /\ UNCHANGED <<scale, counts, unit, stale, published, triggers, video,
                       task, lease, locals>>
     \/ ~JobMayBecome(job, "running") /\ Escape(w)

\* Phase 1: _process_scale_task(motion_scan) sets the scale running; the
\* exception of an illegal transition, or of a write that exhausts its retries,
\* lands in the handler of Phase 1.
MotionStart(w) ==
  /\ At(w, "motion_start")
  /\ \/ /\ ScaleMayBecome(scale[MOTION], "running")
        /\ SetScale(MOTION, "running")
        /\ GoTo(w, "motion_scan")
        /\ UNCHANGED partial
     \/ /\ "motion" \in Faults \/ ~ScaleMayBecome(scale[MOTION], "running")
        /\ GoTo(w, "motion_failed")
        /\ partial' = partial \cup {w}
        /\ UNCHANGED scale
  /\ UNCHANGED <<job, counts, unit, stale, published, triggers, video, task,
                 lease, hfActive, run, crashes>>

\* MotionScanProcessor.process commits the triggers it finds, if any, with its
\* session; a scan that raises commits nothing.
MotionScan(w) ==
  /\ At(w, "motion_scan")
  /\ \/ /\ triggers' \in {triggers, "some"}
        /\ GoTo(w, "motion_finalize")
        /\ UNCHANGED partial
     \/ /\ "motion" \in Faults
        /\ GoTo(w, "motion_failed")
        /\ partial' = partial \cup {w}
        /\ UNCHANGED triggers
  /\ UNCHANGED <<job, scale, counts, unit, stale, published, video, task,
                 lease, hfActive, run, crashes>>

\* _finalize_scale_task of motion_scan, which counts triggers and no failure.
MotionFinalize(w) ==
  /\ At(w, "motion_finalize")
  /\ \/ /\ ScaleMayBecome(scale[MOTION], "succeeded")
        /\ SetScale(MOTION, "succeeded")
        /\ GoTo(w, "has_triggers")
        /\ UNCHANGED partial
     \/ /\ "motion" \in Faults \/ ~ScaleMayBecome(scale[MOTION], "succeeded")
        /\ GoTo(w, "motion_failed")
        /\ partial' = partial \cup {w}
        /\ UNCHANGED scale
  /\ UNCHANGED <<job, counts, unit, stale, published, triggers, video, task,
                 lease, hfActive, run, crashes>>

\* _fail_scale_task inside an exception handler: an illegal transition raises
\* again, out of process_one.
FailScale(w, s, next) ==
  \/ /\ ScaleMayBecome(scale[s], "failed")
     /\ SetScale(s, "failed")
     /\ GoTo(w, next)
     /\ UNCHANGED <<job, counts, unit, stale, published, triggers, video,
                    task, lease, locals>>
  \/ ~ScaleMayBecome(scale[s], "failed") /\ Escape(w)

MotionFailed(w) ==
  /\ At(w, "motion_failed")
  /\ FailScale(w, MOTION, "has_triggers")

\* Phase 2: _has_triggers decides whether high_freq_event runs in this pass.
HasTriggers(w) ==
  /\ At(w, "has_triggers")
  /\ hfActive' = IF triggers = "some" THEN hfActive \cup {w} ELSE hfActive
  /\ GoTo(w, IF triggers = "some" THEN "default_start" ELSE "high_freq_skip")
  /\ UNCHANGED <<db, partial, run, crashes>>

\* _skip_scale_task(high_freq_event, no_motion_trigger), outside any handler.
HighFreqSkip(w) ==
  /\ At(w, "high_freq_skip")
  /\ \/ /\ ScaleMayBecome(scale[HIGHFREQ], "skipped")
        /\ SetScale(HIGHFREQ, "skipped")
        /\ GoTo(w, "default_start")
        /\ UNCHANGED <<job, counts, unit, stale, published, triggers, video,
                       task, lease, locals>>
     \/ ~ScaleMayBecome(scale[HIGHFREQ], "skipped") /\ Escape(w)

\* Phase 3: any exception while starting or planning default_segment goes to
\* _handle_required_failure.
DefaultStart(w) ==
  /\ At(w, "default_start")
  /\ \/ /\ ScaleMayBecome(scale[DEFAULT], "running")
        /\ SetScale(DEFAULT, "running")
        /\ GoTo(w, "default_plan")
     \/ /\ "plan" \in Faults \/ ~ScaleMayBecome(scale[DEFAULT], "running")
        /\ GoTo(w, "required_failure")
        /\ UNCHANGED scale
  /\ UNCHANGED <<job, counts, unit, stale, published, triggers, video, task,
                 lease, locals>>

Plan(w, s) ==
  run' = [run EXCEPT ![w] = [u \in Units |->
            IF u \in UnitsOf(s) THEN "planned" ELSE run[w][u]]]

DefaultPlan(w) ==
  /\ At(w, "default_plan")
  /\ \/ /\ Plan(w, DEFAULT)
        /\ GoTo(w, IF w \in hfActive THEN "high_freq_start" ELSE "dispatch")
     \/ /\ "plan" \in Faults
        /\ GoTo(w, "required_failure")
        /\ UNCHANGED run
  /\ UNCHANGED <<db, partial, hfActive, crashes>>

\* The optional scale: an exception makes the job partial and drops the scale
\* from this pass.
HighFreqStart(w) ==
  /\ At(w, "high_freq_start")
  /\ \/ /\ ScaleMayBecome(scale[HIGHFREQ], "running")
        /\ SetScale(HIGHFREQ, "running")
        /\ GoTo(w, "high_freq_plan")
        /\ UNCHANGED <<partial, hfActive>>
     \/ /\ "plan" \in Faults \/ ~ScaleMayBecome(scale[HIGHFREQ], "running")
        /\ GoTo(w, "high_freq_failed")
        /\ partial' = partial \cup {w}
        /\ hfActive' = hfActive \ {w}
        /\ UNCHANGED scale
  /\ UNCHANGED <<job, counts, unit, stale, published, triggers, video, task,
                 lease, run, crashes>>

HighFreqPlan(w) ==
  /\ At(w, "high_freq_plan")
  /\ \/ /\ Plan(w, HIGHFREQ)
        /\ GoTo(w, "dispatch")
        /\ UNCHANGED <<partial, hfActive>>
     \/ /\ "plan" \in Faults
        /\ GoTo(w, "high_freq_failed")
        /\ partial' = partial \cup {w}
        /\ hfActive' = hfActive \ {w}
        /\ UNCHANGED run
  /\ UNCHANGED <<db, crashes>>

HighFreqFailed(w) ==
  /\ At(w, "high_freq_failed")
  /\ FailScale(w, HIGHFREQ, "dispatch")

-----------------------------------------------------------------------------
(* Phase 4: the unit pool. *)

\* w's attempt at u ends with row status s, tallied as outcome o.
EndUnit(w, u, s, o) ==
  /\ unit' = [unit EXCEPT ![u] = s]
  /\ run' = [run EXCEPT ![w][u] = o]
  /\ UNCHANGED <<job, scale, counts, stale, triggers, video, task, lease, pc,
                 partial, hfActive, crashes>>

\* w's attempt at u writes row status s and goes in flight.
BeginUnit(w, u, s) ==
  /\ unit' = [unit EXCEPT ![u] = s]
  /\ run' = [run EXCEPT ![w][u] = IF unit[u] = "none" THEN "first"
                                                      ELSE "rerun"]

\* CrossScaleUnitScheduler.run starts at most PoolSize units of one job at a time.
MayStart(w, u) ==
  /\ At(w, "dispatch")
  /\ run[w][u] = "planned"
  /\ Cardinality({v \in Units : InFlight(w, v)}) < PoolSize

\* Seeded fault: finished units are run again.
UnitStartAgain(w, u) ==
  /\ MayStart(w, u)
  /\ BeginUnit(w, u, "running")
  /\ UNCHANGED <<job, scale, counts, stale, published, triggers, video, task,
                 lease, pc, partial, hfActive, crashes>>

\* The first transaction of _run_unit_in_fresh_session: a unit that already
\* succeeded or was skipped is not run again; any other row is created or
\* re-marked running.
UnitStart(w, u) ==
  /\ MayStart(w, u)
  /\ \/ /\ unit[u] \in {"succeeded", "skipped"}
        /\ run' = [run EXCEPT ![w][u] = unit[u]]
        /\ UNCHANGED unit
     \/ /\ unit[u] \notin {"succeeded", "skipped"}
        /\ BeginUnit(w, u, "running")
  /\ UNCHANGED <<job, scale, counts, stale, published, triggers, video, task,
                 lease, pc, partial, hfActive, crashes>>

\* That transaction fails: _safe_run tallies a failed unit, the row is as it was.
UnitStartFails(w, u) ==
  /\ At(w, "dispatch")
  /\ "write" \in Faults
  /\ run[w][u] = "planned"
  /\ EndUnit(w, u, unit[u], "failed")
  /\ UNCHANGED published

\* _publish_and_mark: the record and the unit's status in one transaction.
UnitSucceeds(w, u) ==
  /\ InFlight(w, u)
  /\ EndUnit(w, u, "succeeded", "succeeded")
  /\ published' = published \cup {u}

UnitFails(w, u) ==
  /\ "unit" \in Faults
  /\ InFlight(w, u)
  /\ EndUnit(w, u, "failed", "failed")
  /\ UNCHANGED published

UnitSkipped(w, u) ==
  /\ "skip" \in Faults
  /\ InFlight(w, u)
  /\ EndUnit(w, u, "skipped", "skipped")
  /\ UNCHANGED published

\* The terminal write and the lifecycle guard's own write both exhaust their
\* retries: failed in the tally, still running in the database.
UnitWriteLost(w, u) ==
  /\ "write" \in Faults
  /\ InFlight(w, u)
  /\ EndUnit(w, u, unit[u], "failed")
  /\ UNCHANGED published

\* CrossScaleUnitScheduler.run returns once every unit has an outcome.
Joined(w) == \A u \in Units : run[w][u] \in {"none"} \cup Outcome

Join(w) ==
  /\ At(w, "dispatch")
  /\ Joined(w)
  /\ GoTo(w, "reconcile")
  /\ UNCHANGED <<db, locals>>

-----------------------------------------------------------------------------
(* Phases 4.5 to 6. *)

\* Seeded fault: Phase 4.5 is left out.
ReconcileNothing(w) ==
  At(w, "reconcile") /\ GoTo(w, "finalize_scales") /\ UNCHANGED <<db, locals>>

\* _reconcile_running_units_for_job: every row of this job still running is
\* failed from database truth.
ReconcileRunningUnits(w) ==
  /\ At(w, "reconcile")
  /\ unit' = [u \in Units |-> IF unit[u] = "running" THEN "failed"
                                                     ELSE unit[u]]
  /\ GoTo(w, "finalize_scales")
  /\ UNCHANGED <<job, scale, counts, stale, published, triggers, video, task,
                 lease, locals>>

\* _finalize_scale_task: the status a scale reaches from its counters.
FinalStatus(c) ==
  CASE c.failed > 0 /\ c.succeeded > 0 -> "partial_failed"
    [] c.failed > 0 /\ c.succeeded = 0 -> "failed"
    [] OTHER -> "succeeded"

\* Seeded fault: whatever did not fail counts as a success.
TallyNotFailed(w, s) ==
  [total     |-> Cardinality({u \in UnitsOf(s) : run[w][u] # "none"}),
   succeeded |-> Cardinality({u \in UnitsOf(s) :
                                run[w][u] \notin {"none", "failed"}}),
   failed    |-> Cardinality({u \in UnitsOf(s) : run[w][u] = "failed"})]

\* The scheduler's per-scale result.
Tally(w, s) ==
  [total     |-> Cardinality({u \in UnitsOf(s) : run[w][u] # "none"}),
   succeeded |-> Cardinality({u \in UnitsOf(s) : run[w][u] = "succeeded"}),
   failed    |-> Cardinality({u \in UnitsOf(s) : run[w][u] = "failed"})]

ScalesToFinalize(w) ==
  {DEFAULT} \cup (IF w \in hfActive THEN {HIGHFREQ} ELSE {})

\* Seeded fault: only a baseline whose every unit failed counts as empty.
EmptyBaselineAllFailed(c) == c.total > 0 /\ c.failed = c.total

\* Phase 6: a baseline that planned units and produced no record.
EmptyBaseline(c) == c.total > 0 /\ c.succeeded = 0

\* Phase 5: both scales in one transaction; one illegal transition rolls back
\* both and escapes.
FinalizeScales(w) ==
  /\ At(w, "finalize_scales")
  /\ LET S == ScalesToFinalize(w)
         legal == \A s \in S :
                    ScaleMayBecome(scale[s], FinalStatus(Tally(w, s)))
     IN \/ /\ legal
           /\ counts' = [s \in Scales |-> IF s \in S THEN Tally(w, s)
                                                     ELSE counts[s]]
           /\ scale' = [s \in Scales |-> IF s \in S
                                         THEN FinalStatus(Tally(w, s))
                                         ELSE scale[s]]
           /\ GoTo(w, IF EmptyBaseline(Tally(w, DEFAULT))
                      THEN "required_failure" ELSE "finalize_job")
           /\ UNCHANGED <<job, unit, stale, published, triggers, video, task,
                          lease, locals>>
        \/ ~legal /\ Escape(w)

\* Seeded fault: failed units do not make the job partial.
AnyPartialPhasesOnly(w) == w \in partial

\* any_partial at the end of the pass.
AnyPartial(w) ==
  \/ w \in partial
  \/ \E s \in ScalesToFinalize(w) : Tally(w, s).failed > 0

\* _finalize_job: job, video and queue row in one transaction.
FinalizeJob(w) ==
  /\ At(w, "finalize_job")
  /\ LET final == IF AnyPartial(w) THEN "partial_failed" ELSE "succeeded"
     IN \/ /\ JobMayBecome(job, final)
           /\ job' = final
           /\ video' = "ready"
           /\ MarkTaskSucceeded
           /\ Leave(w)
           /\ UNCHANGED <<scale, counts, unit, stale, published, triggers>>
        \/ ~JobMayBecome(job, final) /\ Escape(w)

\* _handle_required_failure
HandleRequiredFailure(w) ==
  /\ At(w, "required_failure")
  /\ \/ /\ JobMayBecome(job, "failed")
        /\ job' = "failed"
        /\ SetScale(DEFAULT, IF scale[DEFAULT] = "running" THEN "failed"
                                                          ELSE scale[DEFAULT])
        /\ MarkTaskFailed
        /\ Leave(w)
        /\ UNCHANGED <<counts, unit, stale, published, triggers, video>>
     \/ ~JobMayBecome(job, "failed") /\ Escape(w)

-----------------------------------------------------------------------------
(* Orphan recovery, crashes and the passing of time. *)

\* list_stale_running: at most OrphanBatch of the running rows whose
\* started_at precedes the cutoff.
StaleBatches ==
  LET S == {u \in Units : unit[u] = "running" /\ u \in stale}
  IN {B \in SUBSET S : /\ B # {}
                       /\ Cardinality(B) <= OrphanBatch
                       /\ B = S \/ Cardinality(B) = OrphanBatch}

\* The counters _reconcile_scale_task derives from the unit rows un.
RowCounts(un, s) ==
  [total     |-> Cardinality({u \in UnitsOf(s) : un[u] # "none"}),
   succeeded |-> Cardinality({u \in UnitsOf(s) : un[u] = "succeeded"}),
   failed    |-> Cardinality({u \in UnitsOf(s) : un[u] = "failed"})]

\* The scales that _reconcile_scale_task finalizes after the batch B was
\* failed: those still RUNNING that have no unfinished unit row left.
SweptScales(un, B) ==
  {s \in Scales : /\ UnitsOf(s) \cap B # {}
                  /\ scale[s] = "running"
                  /\ \A u \in UnitsOf(s) : un[u] \notin {"pending", "running"}}

\* _reconcile_job: the status of a RUNNING job whose scales sc, with counters
\* ct, are all terminal.
ReconciledJob(sc, ct) ==
  IF job = "running" /\ \A s \in Scales : sc[s] \notin {"pending", "running"}
  THEN IF EmptyBaseline(ct[DEFAULT]) THEN "failed"
       ELSE IF \E s \in Scales : sc[s] \in {"failed", "partial_failed"}
            THEN "partial_failed" ELSE "succeeded"
  ELSE job

\* recover_orphans, run at startup and before each drain pass by a worker that
\* is not processing a task: one transaction.
RecoverOrphans(w) ==
  /\ OrphanRecovery
  /\ At(w, "idle")
  /\ \E B \in StaleBatches :
       LET un == [u \in Units |-> IF u \in B THEN "failed" ELSE unit[u]]
           S  == SweptScales(un, B)
           ct == [s \in Scales |-> IF s \in S THEN RowCounts(un, s)
                                              ELSE counts[s]]
           sc == [s \in Scales |-> IF s \in S THEN FinalStatus(ct[s])
                                              ELSE scale[s]]
       IN /\ unit' = un
          /\ counts' = ct
          /\ scale' = sc
          /\ job' = ReconciledJob(sc, ct)
  /\ UNCHANGED <<stale, published, triggers, video, task, lease, pc, locals>>

\* The process dies, or a lifecycle write outside any handler exhausts its
\* BUSY retries and escapes: every attempt of w is gone, its rows stay.
Crash(w) ==
  /\ ~At(w, "idle")
  /\ crashes < MaxCrashes
  /\ crashes' = crashes + 1
  /\ pc' = [pc EXCEPT ![w] = "idle"]
  /\ partial' = partial \ {w}
  /\ hfActive' = hfActive \ {w}
  /\ run' = [run EXCEPT ![w] = NoAttempts]
  /\ UNCHANGED db

\* A started row falls behind the sweep's cutoff.  While its first attempt is
\* still in flight this needs an attempt longer than orphan_stale_seconds.
BecomeStale(u) ==
  /\ OrphanRecovery
  /\ u \notin stale
  /\ unit[u] \in {"running", "failed"}
  /\ "slow" \in Faults \/ \A w \in Workers : run[w][u] # "first"
  /\ stale' = stale \cup {u}
  /\ UNCHANGED <<job, scale, counts, unit, published, triggers, video, task,
                 lease, pc, locals>>

-----------------------------------------------------------------------------
UnitStep(w, u) ==
  \/ UnitStart(w, u)
  \/ UnitStartFails(w, u)
  \/ UnitSucceeds(w, u)
  \/ UnitFails(w, u)
  \/ UnitSkipped(w, u)
  \/ UnitWriteLost(w, u)

PhaseStep(w) ==
  \/ MarkJobRunning(w)
  \/ MotionStart(w)
  \/ MotionScan(w)
  \/ MotionFinalize(w)
  \/ MotionFailed(w)
  \/ HasTriggers(w)
  \/ HighFreqSkip(w)
  \/ DefaultStart(w)
  \/ DefaultPlan(w)
  \/ HighFreqStart(w)
  \/ HighFreqPlan(w)
  \/ HighFreqFailed(w)
  \/ Join(w)
  \/ ReconcileRunningUnits(w)
  \/ FinalizeScales(w)
  \/ FinalizeJob(w)
  \/ HandleRequiredFailure(w)

Next ==
  \/ \E w \in Workers :
       \/ Claim(w)
       \/ RefreshLease(w)
       \/ PhaseStep(w)
       \/ RecoverOrphans(w)
       \/ Crash(w)
       \/ \E u \in Units : UnitStep(w, u)
  \/ \E u \in Units : BecomeStale(u)
  \/ LeaseExpires

Spec == Init /\ [][Next]_vars

\* A live worker keeps executing its phases and its units, polls the queue,
\* and sweeps orphans on every drain pass; clocks advance, so an abandoned
\* lease lapses and an abandoned row grows stale.  Crashes are not fair.
Fairness ==
  /\ \A w \in Workers :
       /\ WF_vars(PhaseStep(w))
       /\ WF_vars(RecoverOrphans(w))
       /\ \A u \in Units : WF_vars(UnitStep(w, u))
  /\ WF_vars(\E w \in Workers : Claim(w))
  /\ WF_vars(LeaseExpires)
  /\ \A u \in Units : WF_vars(BecomeStale(u))

FairSpec == Spec /\ Fairness

-----------------------------------------------------------------------------
(* Properties. *)

\* Every variable holds a value of the vocabulary the code writes.
TypeOK ==
  /\ job \in JobStatus
  /\ scale \in [Scales -> TaskStatus]
  /\ counts \in [Scales -> [total : Nat, succeeded : Nat, failed : Nat]]
  /\ unit \in [Units -> {"none", "running", "succeeded", "failed", "skipped"}]
  /\ stale \subseteq Units
  /\ published \subseteq Units
  /\ triggers \in {"none", "some"}
  /\ video \in {"pending", "ready"}
  /\ task \in {"queued", "running", "succeeded", "retry_scheduled", "failed"}
  /\ lease \in {"none", "valid", "expired"}
  /\ pc \in [Workers -> Phases]
  /\ partial \subseteq Workers
  /\ hfActive \subseteq Workers
  /\ run \in [Workers -> [Units -> Attempt \cup Outcome]]
  /\ crashes \in 0..MaxCrashes

Processing(w) == ~At(w, "idle")
UnitsWith(status) == {u \in Units : unit[u] = status}

\* With timely heartbeats a job has at most one worker inside process_one, and
\* that worker's queue row is running under an unexpired lease, whatever
\* crashes, reclaims and sweeps happen around it.
LeaseProtectsJob ==
  "lease" \notin Faults =>
    \A w \in Workers : Processing(w) =>
      /\ task = "running" /\ lease = "valid"
      /\ \A v \in Workers : Processing(v) => v = w

\* The queue row is marked succeeded only over a settled job: the job and every
\* scale are terminal, no unit row is left running and the video is ready.
\* (_finalize_job writes the three rows from
\* an in-memory tally after crashes, lost unit writes and concurrent sweeps.)
FinishedTaskIsSettled ==
  task = "succeeded" =>
    /\ job \in {"succeeded", "partial_failed"}
    /\ video = "ready"
    /\ \A s \in Scales : scale[s] \notin {"pending", "running"}
    /\ UnitsWith("running") = {}

\* A job reported succeeded hides no failure: every baseline window was
\* published or skipped, each scale succeeded or was skipped, and a high_freq
\* scale that succeeded has no unfinished window.
SucceededJobIsComplete ==
  job = "succeeded" =>
    /\ \A u \in DefaultUnits : unit[u] \in {"succeeded", "skipped"}
    /\ \A s \in Scales : scale[s] \in {"succeeded", "skipped"}
    /\ HIGHFREQ \in Scales =>
         IF scale[HIGHFREQ] = "succeeded"
         THEN \A u \in HighFreqUnits : unit[u] \in {"succeeded", "skipped"}
         ELSE \A u \in HighFreqUnits : unit[u] = "none"

\* A job reported usable, by a worker or by the sweep, has a baseline record
\* to search; a job without one is failed.
UsableJobHasBaseline ==
  job \in {"succeeded", "partial_failed"} => DefaultUnits \cap published # {}

\* The counters a finished job shows never claim a success that is not backed
\* by a unit row and its record.
CountersAreBacked ==
  task = "succeeded" =>
    \A s \in Scales \ {MOTION} :
      counts[s].succeeded
        <= Cardinality(UnitsOf(s) \cap UnitsWith("succeeded") \cap published)

\* A unit that succeeded stays succeeded: no rerun, reconciliation or sweep
\* takes a published window back.
SucceededUnitsStay ==
  [][\A u \in Units : unit[u] = "succeeded" => unit'[u] = "succeeded"]_vars

\* An attempt as the scheduler sees it: planned is not begun.
AttemptAt(w, u) ==
  CASE run[w][u] \in {"none", "planned"} -> "none"
    [] InFlight(w, u) -> "running"
    [] OTHER -> run[w][u]
Attempts(u) == [w \in Workers |-> AttemptAt(w, u)]

Contract(u) == INSTANCE UnitContract WITH
  Executors <- Workers,
  status <- unit[u],
  published <- u \in published,
  attempt <- Attempts(u),
  exclusive <- "lease" \notin Faults,
  trusted <- TRUE

ContractInit == \A u \in Units : Contract(u)!Init
ContractStep == \A u \in Units : [Contract(u)!Next]_(Contract(u)!vars)

\* The pool treats each unit as UnitContract says, whatever planning, crashes,
\* reclaims, reconciliation and sweeps do to all units at once.  UnitExecution
\* shows that the inside of a unit keeps the same contract.
PoolKeepsUnitContract == ContractInit /\ [][ContractStep]_vars

\* The queue row of a job never stays claimable for ever: some worker brings
\* the job to a terminal status and the row out of queued and running.
JobSettles ==
  <>[](/\ task \notin {"queued", "running"}
       /\ job \notin {"queued", "running"})

-----------------------------------------------------------------------------
(* Statements of the contract and of comments that the code does not meet. *)

\* The job is failed only when the baseline published nothing.
FailedJobHasNoBaseline ==
  job = "failed" => DefaultUnits \cap published = {}

\* A task scheduled for retry returns to the queue.
RetryReturnsToQueue ==
  (task = "retry_scheduled") ~> (task = "queued")

\* The sweep fails only units that no live worker is executing.
OnlyAbandonedUnitsSwept ==
  [][(\E w \in Workers : RecoverOrphans(w)) =>
       \A u \in Units : unit'[u] # unit[u] =>
         ~\E w \in Workers : InFlight(w, u)]_vars
=============================================================================
