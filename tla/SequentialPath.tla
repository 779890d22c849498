--------------------------- MODULE SequentialPath ---------------------------
(***************************************************************************)
(* The path of AnalysisWorker with pipeline.cross_scale.enabled = False:   *)
(* drain claims tasks one after another and _process_claimed_task runs the *)
(* scales in _SCALE_ORDER.  The units of a scale run in fresh sessions, in *)
(* a pool or one by one.  A processor built without a runtime is called    *)
(* directly and runs its units in the caller's session, which commits or   *)
(* rolls back as a whole; here that caller takes the worker's place.       *)
(*                                                                         *)
(* The body of a unit in a fresh session is UnitExecution's; here it ends  *)
(* in one of its outcomes.  Leases are timely, so a running task can be    *)
(* claimed only after the worker that held it has died.                    *)
(***************************************************************************)
EXTENDS Naturals, FiniteSets, StateMachine

CONSTANTS
  DefaultUnits,   \* windows planned for default_segment
  HighFreqUnits,  \* windows planned for high_freq_event
  PoolSize,       \* worker.max_unit_workers_per_job, in pool mode
  MaxAttempts,    \* vlm.unit_max_attempts
  MaxRestarts     \* bound on crashes and on further calls of process()

ASSUME SequentialAssumption ==
  /\ DefaultUnits \cap HighFreqUnits = {}
  /\ IsFiniteSet(DefaultUnits) /\ DefaultUnits # {} /\ IsFiniteSet(HighFreqUnits)
  /\ PoolSize \in Nat \ {0} /\ MaxAttempts \in Nat \ {0}
  /\ MaxRestarts \in Nat

DEFAULT == "default_segment"
MOTION == "motion_scan"
HIGHFREQ == "high_freq_event"

\* _SCALE_ORDER of the scales that ingestion creates.
Order == <<DEFAULT, MOTION, HIGHFREQ>>
Scales == {DEFAULT, MOTION, HIGHFREQ}
Units == DefaultUnits \cup HighFreqUnits
UnitsOf(s) == CASE s = DEFAULT -> DefaultUnits
                [] s = HIGHFREQ -> HighFreqUnits
                [] OTHER -> {}

VARIABLES
  mode,      \* "pool" or "serial" under the worker, "shared" without a runtime
  job,       \* AnalysisJob.job_status
  scale,     \* AnalysisScaleTask.status, by scale
  counts,    \* the unit counters of default_segment's scale task
  rows,      \* committed rows of the units, see NoRows
  sess,      \* the same rows as the uncommitted shared session sees them
  triggers,  \* whether the job has HighFreqTrigger rows
  task,      \* the queue row; "failed" also stands for retry_scheduled
  pc,        \* where the worker, or the direct caller, is
  cur,       \* index in Order of the scale being processed
  partial,   \* any_partial
  run,       \* the current process() call's progress on each unit
  restarts

jobRows == <<job, scale, counts, triggers, task>>
vars == <<mode, job, scale, counts, rows, sess, triggers, task, pc, cur,
          partial, run, restarts>>

Outcome == {"succeeded", "failed", "skipped"}
NoRun == [u \in Units |-> "none"]

\* A unit's status ("none" before its row is created), the units with an
\* active record, with a succeeded and with a failed model call log.
NoRows == [unit |-> NoRun, published |-> {}, ok |-> {}, bad |-> {}]

Init ==
  /\ mode \in {"pool", "serial", "shared"}
  /\ job = "queued"
  /\ scale = [s \in Scales |-> "pending"]
  /\ counts = [total |-> 0, succeeded |-> 0]
  /\ rows = NoRows
  /\ sess = NoRows
  /\ triggers = FALSE
  /\ task = "queued"
  /\ pc = IF mode = "shared" THEN "direct" ELSE "out"
  /\ cur \in IF mode = "shared" THEN {1, 3} ELSE {1}
  /\ partial = FALSE
  /\ run = NoRun
  /\ restarts = 0

At(place) == pc = place
Scale == Order[cur]
SetScale(s, status) == scale' = [scale EXCEPT ![s] = status]
With(u, status) == [rows EXCEPT !.unit[u] = status]

-----------------------------------------------------------------------------
(* drain and _process_claimed_task. *)

\* An exception out of process_one ends the serial drain as well.
Escape ==
  /\ pc' = "out"
  /\ run' = NoRun
  /\ partial' = FALSE
  /\ UNCHANGED <<mode, jobRows, rows, sess, cur, restarts>>

\* The rows' counters that _reconcile_scale_task derives for default_segment.
RowCounts(un) ==
  [total     |-> Cardinality({u \in DefaultUnits : un[u] # "none"}),
   succeeded |-> Cardinality({u \in DefaultUnits : un[u] = "succeeded"}),
   failed    |-> Cardinality({u \in DefaultUnits : un[u] = "failed"})]

\* _finalize_scale_task: the status a scale reaches from its counters.
FinalStatus(c) ==
  CASE c.failed > 0 /\ c.succeeded > 0 -> "partial_failed"
    [] c.failed > 0 /\ c.succeeded = 0 -> "failed"
    [] OTHER -> "succeeded"

\* result.total > 0 and result.succeeded == 0
EmptyBaseline(c) == c.total > 0 /\ c.succeeded = 0

\* drain: recover_orphans fails a batch of stale running rows, then the task
\* loop starts.  The rows of high_freq_event name no scale task, so their
\* sweep reconciles the job alone.
Drain ==
  /\ At("out")
  /\ \E B \in SUBSET {u \in Units : rows.unit[u] = "running"} :
       LET un == [u \in Units |-> IF u \in B THEN "failed" ELSE rows.unit[u]]
           c  == RowCounts(un)
           swept == /\ B \cap DefaultUnits # {}
                    /\ scale[DEFAULT] = "running"
                    /\ \A u \in DefaultUnits : un[u] \notin {"pending", "running"}
           sc == IF swept THEN [scale EXCEPT ![DEFAULT] = FinalStatus(c)]
                          ELSE scale
           ct == IF swept THEN [total |-> c.total, succeeded |-> c.succeeded]
                          ELSE counts
           over == /\ B # {}
                   /\ job = "running"
                   /\ \A s \in Scales : sc[s] \notin {"pending", "running"}
       IN /\ rows' = [rows EXCEPT !.unit = un]
          /\ scale' = sc
          /\ counts' = ct
          /\ job' = IF ~over THEN job
                    ELSE IF EmptyBaseline(ct) THEN "failed"
                    ELSE IF \E s \in Scales : sc[s] \in {"failed", "partial_failed"}
                         THEN "partial_failed" ELSE "succeeded"
  /\ pc' = "idle"
  /\ UNCHANGED <<mode, sess, triggers, task, cur, partial, run, restarts>>

\* The loop of drain ends: nothing is claimable, or should_stop() is true.
DrainEnds ==
  /\ At("idle")
  /\ pc' = "out"
  /\ UNCHANGED <<mode, jobRows, rows, sess, cur, partial, run, restarts>>

\* claim_task, then _mark_job_running.
ProcessOne ==
  /\ At("idle")
  /\ task \in {"queued", "running"}
  /\ \/ /\ JobMayBecome(job, "running")
        /\ job' = "running"
        /\ task' = "running"
        /\ pc' = "scale"
        /\ cur' = 1
        /\ UNCHANGED <<mode, scale, counts, rows, sess, triggers, partial, run,
                       restarts>>
     \/ ~JobMayBecome(job, "running") /\ Escape

\* The exception handler of the scale loop: an illegal transition, a write that
\* exhausts its retries, or the scale itself raised.
Raise ==
  /\ pc' = IF Scale = DEFAULT THEN "required" ELSE "fail_scale"
  /\ partial' = (partial \/ Scale # DEFAULT)
  /\ run' = NoRun

\* _has_triggers
HasTriggers == triggers

\* _process_scale_task up to its session: skip, or _transition_running.
StartScale ==
  /\ At("scale")
  /\ cur \in 1..3
  /\ LET skip == Scale = HIGHFREQ /\ ~HasTriggers
         target == IF skip THEN "skipped" ELSE "running"
     IN \/ /\ ScaleMayBecome(scale[Scale], target)
           /\ SetScale(Scale, target)
           /\ cur' = IF skip THEN cur + 1 ELSE cur
           /\ pc' = IF skip THEN "scale" ELSE "plan"
           /\ UNCHANGED <<partial, run>>
        \/ /\ Raise
           /\ UNCHANGED <<scale, cur>>
  /\ UNCHANGED <<mode, job, counts, rows, sess, triggers, task, restarts>>

\* _run_motion_scan: the triggers are committed with the session, or it raises.
RunMotionScan ==
  /\ At("plan")
  /\ Scale = MOTION
  /\ \/ triggers' \in {triggers, TRUE} /\ pc' = "finalize"
        /\ UNCHANGED <<partial, run>>
     \/ Raise /\ UNCHANGED triggers
  /\ UNCHANGED <<mode, job, scale, counts, task, rows, sess, cur, restarts>>

Planned == [u \in Units |-> IF u \in UnitsOf(Scale) THEN "planned" ELSE "none"]

\* DefaultSegmentProcessor.process up to commit_before_concurrent: probe,
\* windows, unit templates.
PlanDefault ==
  /\ At("plan")
  /\ Scale = DEFAULT
  /\ \/ run' = Planned /\ pc' = "run" /\ UNCHANGED partial
     \/ Raise
  /\ UNCHANGED <<mode, jobRows, rows, sess, cur, restarts>>

\* HighFreqEventProcessor.process: the windows of the job's triggers, each
\* once; nothing is planned without a trigger.
PlanHighFreq ==
  /\ At("plan")
  /\ Scale = HIGHFREQ
  /\ \/ /\ run' = IF triggers THEN Planned ELSE NoRun
        /\ pc' = "run"
        /\ UNCHANGED partial
     \/ Raise
  /\ UNCHANGED <<mode, jobRows, rows, sess, cur, restarts>>

-----------------------------------------------------------------------------
(* The units of one process() call in fresh sessions. *)

InFlight == {u \in Units : run[u] = "running"}
Broken == \E u \in Units : run[u] = "raised"

MayStart(u) ==
  /\ At("run")
  /\ run[u] = "planned"
  /\ IF mode = "pool" THEN Cardinality(InFlight) < PoolSize
                      ELSE InFlight = {} /\ ~Broken

\* The first transaction of _run_unit_in_fresh_session; its exception is not
\* caught there but comes out of future.result().
UnitStart(u) ==
  /\ MayStart(u)
  /\ \/ /\ rows.unit[u] \in {"succeeded", "skipped"}
        /\ run' = [run EXCEPT ![u] = rows.unit[u]]
        /\ UNCHANGED rows
     \/ /\ rows.unit[u] \notin {"succeeded", "skipped"}
        /\ rows' = With(u, "running")
        /\ run' = [run EXCEPT ![u] = "running"]
     \/ run' = [run EXCEPT ![u] = "raised"] /\ UNCHANGED rows
  /\ UNCHANGED <<mode, jobRows, sess, pc, cur, partial, restarts>>

\* The unit is published with its status, or fails, or has no frames; or its
\* last write is lost, which leaves the row running.
UnitEnds(u) ==
  /\ run[u] = "running"
  /\ \E o \in Outcome \cup {"lost"} :
       /\ run' = [run EXCEPT ![u] = IF o = "lost" THEN "failed" ELSE o]
       /\ rows' = CASE o = "lost" -> rows
                    [] o = "succeeded" ->
                         [With(u, o) EXCEPT !.published = @ \cup {u}]
                    [] OTHER -> With(u, o)
  /\ UNCHANGED <<mode, jobRows, sess, pc, cur, partial, restarts>>

\* The executor's pool waits for every future before the exception of one
\* goes on.
JoinPool ==
  /\ At("run")
  /\ mode = "pool"
  /\ \A u \in Units : run[u] \in Outcome \cup {"raised", "none"}
  /\ IF Broken THEN Raise ELSE pc' = "finalize" /\ UNCHANGED <<partial, run>>
  /\ UNCHANGED <<mode, jobRows, rows, sess, cur, restarts>>

\* The serial loop stops at an exception, or after its last unit.
JoinSerial ==
  /\ At("run")
  /\ mode = "serial"
  /\ Broken \/ \A u \in Units : run[u] \in Outcome \cup {"none"}
  /\ IF Broken THEN Raise ELSE pc' = "finalize" /\ UNCHANGED <<partial, run>>
  /\ UNCHANGED <<mode, jobRows, rows, sess, cur, restarts>>

-----------------------------------------------------------------------------
(* The end of a scale and of the job. *)

\* ScaleProcessResult; the triggers that motion_scan counts never fail.
Tally ==
  [total     |-> Cardinality({u \in UnitsOf(Scale) : run[u] # "none"}),
   succeeded |-> Cardinality({u \in UnitsOf(Scale) : run[u] = "succeeded"}),
   failed    |-> Cardinality({u \in UnitsOf(Scale) : run[u] = "failed"})]

\* _finalize_scale_task, and what the scale loop makes of the result.
FinalizeScale ==
  /\ At("finalize")
  /\ \/ /\ ScaleMayBecome(scale[Scale], FinalStatus(Tally))
        /\ SetScale(Scale, FinalStatus(Tally))
        /\ counts' = IF Scale = DEFAULT
                     THEN [total |-> Tally.total, succeeded |-> Tally.succeeded]
                     ELSE counts
        /\ run' = NoRun
        /\ IF Scale = DEFAULT /\ EmptyBaseline(Tally)
           THEN pc' = "required" /\ UNCHANGED <<cur, partial>>
           ELSE /\ pc' = "scale"
                /\ cur' = cur + 1
                /\ partial' = (partial \/ Tally.failed > 0)
     \/ /\ Raise
        /\ UNCHANGED <<scale, counts, cur>>
  /\ UNCHANGED <<mode, job, triggers, task, rows, sess, restarts>>

\* _fail_scale_task in the handler: an illegal transition escapes.
FailScale ==
  /\ At("fail_scale")
  /\ \/ /\ ScaleMayBecome(scale[Scale], "failed")
        /\ SetScale(Scale, "failed")
        /\ pc' = "scale"
        /\ cur' = cur + 1
        /\ UNCHANGED <<mode, job, counts, triggers, task, rows, sess, partial,
                       run, restarts>>
     \/ ~ScaleMayBecome(scale[Scale], "failed") /\ Escape

\* The scale_task_id that the units of a processor carry: _run_default_segment
\* passes its own, _run_high_freq_event none, so that the default "" is stored.
DefaultScaleId == DEFAULT
HighFreqScaleId == ""
RecordedScale(u) == IF u \in DefaultUnits THEN DefaultScaleId ELSE HighFreqScaleId

\* Seeded fault: the pass is finished without reconciliation.
ReconcileNothing ==
  /\ At("scale") /\ cur = 4 /\ pc' = "finish"
  /\ UNCHANGED <<mode, jobRows, rows, sess, cur, partial, run, restarts>>

\* _reconcile_running_units_for_job: the rows are found by scale task.
Reconcile ==
  /\ At("scale")
  /\ cur = 4
  /\ rows' = [rows EXCEPT !.unit = [u \in Units |->
                IF rows.unit[u] = "running" /\ RecordedScale(u) \in Scales
                THEN "failed" ELSE rows.unit[u]]]
  /\ pc' = "finish"
  /\ UNCHANGED <<mode, jobRows, sess, cur, partial, run, restarts>>

\* _finalize_job
FinalizeJob ==
  /\ At("finish")
  /\ LET final == IF partial THEN "partial_failed" ELSE "succeeded"
     IN \/ /\ JobMayBecome(job, final)
           /\ job' = final
           /\ task' = "succeeded"
           /\ pc' = "idle"
           /\ partial' = FALSE
           /\ UNCHANGED <<mode, scale, counts, triggers, rows, sess, cur, run,
                          restarts>>
        \/ ~JobMayBecome(job, final) /\ Escape

\* _handle_required_failure
RequiredFailure ==
  /\ At("required")
  /\ \/ /\ JobMayBecome(job, "failed")
        /\ job' = "failed"
        /\ SetScale(DEFAULT, IF scale[DEFAULT] = "running" THEN "failed"
                                                           ELSE scale[DEFAULT])
        /\ task' = "failed"
        /\ pc' = "idle"
        /\ partial' = FALSE
        /\ UNCHANGED <<mode, counts, triggers, rows, sess, cur, run, restarts>>
     \/ ~JobMayBecome(job, "failed") /\ Escape

\* The worker process dies; its rows stay and the lease lapses.
Crash ==
  /\ mode # "shared"
  /\ pc \notin {"out", "idle"}
  /\ restarts < MaxRestarts
  /\ restarts' = restarts + 1
  /\ pc' = "out"
  /\ run' = NoRun
  /\ partial' = FALSE
  /\ UNCHANGED <<mode, jobRows, rows, sess, cur>>

-----------------------------------------------------------------------------
(* A direct call of process() without a runtime: _run_unit, unit by unit, in *)
(* the session of the caller.                                                *)

shared == <<mode, jobRows, rows, cur, partial, restarts>>
SessWith(u, status) == [sess EXCEPT !.unit[u] = status]
Ends(u, status) == run' = [run EXCEPT ![u] = status]
Goes(u, place) == run' = [run EXCEPT ![u] = place] /\ UNCHANGED sess

\* process(): create_or_get_by_idempotency of every planned unit.
SharedPlan ==
  /\ At("direct")
  /\ sess' = [rows EXCEPT !.unit = [u \in Units |->
                IF u \in UnitsOf(Scale) /\ rows.unit[u] = "none"
                THEN "pending" ELSE rows.unit[u]]]
  /\ run' = Planned
  /\ pc' = "shared"
  /\ UNCHANGED shared

\* Seeded fault: commit_after_mark_running commits the shared session.
RunUnitCommitting(u) ==
  /\ At("shared")
  /\ run[u] = "planned"
  /\ \A v \in Units : run[v] \in Outcome \cup {"none", "planned"}
  /\ sess' = SessWith(u, "running")
  /\ rows' = sess'
  /\ Ends(u, "frames")
  /\ UNCHANGED <<mode, jobRows, cur, partial, restarts, pc>>

\* _run_unit: the early returns, then mark_running.
RunUnit(u) ==
  /\ At("shared")
  /\ run[u] = "planned"
  /\ \A v \in Units : run[v] \in Outcome \cup {"none", "planned"}
  /\ IF sess.unit[u] \in {"succeeded", "skipped"}
     THEN Ends(u, sess.unit[u]) /\ UNCHANGED sess
     ELSE Ends(u, "frames") /\ sess' = SessWith(u, "running")
  /\ UNCHANGED <<shared, pc>>

\* Frame selection: none usable is skipped, an error is logged and failed.
RunUnitFrames(u) ==
  /\ run[u] = "frames"
  /\ \/ Goes(u, IF Scale = HIGHFREQ THEN "gate" ELSE "call")
     \/ Ends(u, "skipped") /\ sess' = SessWith(u, "skipped")
     \/ Ends(u, "failed")
        /\ sess' = [SessWith(u, "failed") EXCEPT !.bad = @ \cup {u}]
  /\ UNCHANGED <<shared, pc>>

\* run_pre_vlm_gate, in high_freq_event only: a schema error fails the unit
\* without a log, a suppressed one is skipped.
RunUnitGate(u) ==
  /\ run[u] = "gate"
  /\ \/ Goes(u, "call")
     \/ \E o \in {"failed", "skipped"} : Ends(u, o) /\ sess' = SessWith(u, o)
  /\ UNCHANGED <<shared, pc>>

\* execute_vlm_with_retry: every failed attempt is logged; the last one fails
\* the unit.  Attempts are not counted here.
RunUnitCall(u) ==
  /\ run[u] = "call"
  /\ \/ Goes(u, "publish")
     \/ /\ MaxAttempts > 1
        /\ sess' = [sess EXCEPT !.bad = @ \cup {u}]
        /\ UNCHANGED run
     \/ /\ sess' = [SessWith(u, "failed") EXCEPT !.bad = @ \cup {u}]
        /\ Ends(u, "failed")
  /\ UNCHANGED <<shared, pc>>

\* publish, the success log and mark_succeeded.
RunUnitPublish(u) ==
  /\ run[u] = "publish"
  /\ sess' = [SessWith(u, "succeeded") EXCEPT !.published = @ \cup {u},
                                              !.ok = @ \cup {u}]
  /\ Ends(u, "succeeded")
  /\ UNCHANGED <<shared, pc>>

\* process() returned and the caller commits its session.
SharedCommit ==
  /\ At("shared")
  /\ \A u \in UnitsOf(Scale) : run[u] \in Outcome
  /\ rows' = sess
  /\ run' = NoRun
  /\ pc' = "returned"
  /\ UNCHANGED <<mode, jobRows, sess, cur, partial, restarts>>

\* A database error in any unit leaves process() and rolls everything back.
SharedAbort ==
  /\ At("shared")
  /\ sess' = rows
  /\ run' = NoRun
  /\ pc' = "returned"
  /\ UNCHANGED shared

\* The caller runs process() again.
SharedAgain ==
  /\ At("returned")
  /\ restarts < MaxRestarts
  /\ restarts' = restarts + 1
  /\ pc' = "direct"
  /\ UNCHANGED <<mode, jobRows, rows, sess, cur, partial, run>>

-----------------------------------------------------------------------------
WorkerStep ==
  \/ Drain \/ DrainEnds \/ ProcessOne
  \/ StartScale \/ RunMotionScan \/ PlanDefault \/ PlanHighFreq
  \/ JoinPool \/ JoinSerial
  \/ FinalizeScale \/ FailScale \/ Reconcile \/ FinalizeJob \/ RequiredFailure
  \/ \E u \in Units : UnitStart(u) \/ UnitEnds(u)

SharedStep ==
  \/ SharedPlan \/ SharedCommit \/ SharedAbort \/ SharedAgain
  \/ \E u \in Units :
       \/ RunUnit(u) \/ RunUnitFrames(u) \/ RunUnitGate(u)
       \/ RunUnitCall(u) \/ RunUnitPublish(u)

Next == WorkerStep \/ Crash \/ SharedStep

Spec == Init /\ [][Next]_vars

-----------------------------------------------------------------------------
(* Properties. *)

\* A pass that ends normally leaves a settled job: every scale is terminal and
\* the residual running rows were failed.  Only a high_freq_event row, which
\* names no scale task, can still be running, and then the job is not reported
\* as succeeded.
FinishedPassIsSettled ==
  task = "succeeded" =>
    /\ job \in {"succeeded", "partial_failed"}
    /\ \A s \in Scales : scale[s] \notin {"pending", "running"}
    /\ \A u \in Units : rows.unit[u] = "running" =>
         u \in HighFreqUnits /\ job = "partial_failed"

\* A job reported usable has a baseline record, and one reported succeeded has
\* every baseline window published or skipped and its triggers looked at,
\* whatever crashes, sweeps and reclaims came before.  What a shared session
\* leaves behind is complete: no row is pending or running, a unit succeeded
\* exactly when its record and its success log are there, and a failed
\* default_segment unit has a failed call log.
UsableJobIsBacked ==
  /\ job \in {"succeeded", "partial_failed"} =>
       DefaultUnits \cap rows.published # {}
  /\ job = "succeeded" =>
       /\ \A u \in DefaultUnits : rows.unit[u] \in {"succeeded", "skipped"}
       /\ triggers => \A u \in HighFreqUnits :
                        rows.unit[u] \in {"succeeded", "skipped"}
  /\ mode = "shared" =>
       \A u \in Units :
         /\ rows.unit[u] \notin {"pending", "running"}
         /\ rows.unit[u] = "succeeded" <=> u \in rows.published
         /\ rows.published = rows.ok
         /\ rows.unit[u] = "failed" /\ u \in DefaultUnits => u \in rows.bad
=============================================================================
