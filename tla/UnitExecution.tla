---------------------------- MODULE UnitExecution ---------------------------
(***************************************************************************)
(* One analysis unit and the runs that execute it, from mark_running to    *)
(* the terminal write: frames, gate, VLM attempts, publication, lifecycle  *)
(* guard.  Both processors follow this control flow; setting.scale says    *)
(* which one.  Workers with and without a gate may run the same unit.      *)
(*                                                                         *)
(* Each database write is one step and may fail for good, after its        *)
(* bounded retries.  Ids: a run's attempt a logs under <<run, a>>, where   *)
(* <<run, 1>> is the run's mcall_id; the guard's log is <<run, 0>>.        *)
(***************************************************************************)
EXTENDS Naturals, FiniteSets

CONSTANTS
  MaxRuns,      \* bound: executions of the unit, over reclaims and reruns
  MaxAttempts,  \* vlm.unit_max_attempts
  SchemaMax     \* vlm.schema_regenerate_max_attempts

ASSUME UnitAssumption ==
  /\ MaxRuns \in Nat
  /\ MaxAttempts \in Nat \ {0}
  /\ SchemaMax \in Nat

\* What does not change while the unit is executed: its scale, whether a lease
\* may be lost so that two runs overlap, and observability.timeline_fail_open.
Settings ==
  [scale : {"default_segment", "high_freq_event"},
   overlap : BOOLEAN, failOpen : BOOLEAN]

Runs == 1..MaxRuns
NoCall == <<0, 0>>
MCall(x) == <<x, 1>>
GuardCall(x) == <<x, 0>>

VARIABLES
  setting,   \* one of Settings
  unit,      \* the AnalysisUnit row
  record,    \* the run whose record is active for the window, 0 for none
  logs,      \* ModelCallLog rows
  gateLogs,  \* PreVlmGateLog and DetectorGateLog rows
  run        \* where each execution is

rows == <<unit, record, logs, gateLogs>>
vars == <<setting, unit, record, logs, gateLogs, run>>

Init ==
  /\ setting \in Settings
  /\ unit = [status |-> "pending", attempts |-> 0, latest |-> NoCall,
             success |-> NoCall, produced |-> 0, error |-> "none"]
  /\ record = 0
  /\ logs = {}
  /\ gateLogs = {}
  /\ run = [x \in Runs |-> [pc |-> "idle", calls |-> 0, provider |-> 0,
                            schema |-> 0, end |-> "none"]]

At(x, place) == run[x].pc = place
Live(x) == run[x].pc \notin {"idle", "done"}

Goto(x, place) == run' = [run EXCEPT ![x].pc = place]

\* The terminal write is done; the events of the end are still to be recorded.
Settle(x, how) ==
  run' = [run EXCEPT ![x].pc = "settled", ![x].end = how]

\* process_one gets the outcome, and nothing more happens in run x.
Leave(x, how) == run' = [run EXCEPT ![x].pc = "done", ![x].end = how]

LogRow(x, id, n, s) == [run |-> x, id |-> id, attempt |-> n, status |-> s]

Failed(x, code) ==
  [unit EXCEPT !.status = "failed", !.latest = MCall(x), !.error = code]
Skipped(x, reason) ==
  [unit EXCEPT !.status = "skipped", !.latest = MCall(x), !.error = reason]
Succeeded(x, call, n) ==
  [status |-> "succeeded", attempts |-> n, latest |-> call, success |-> call,
   produced |-> x, error |-> "none"]

-----------------------------------------------------------------------------
\* Seeded fault: a finished unit is executed again.
StartAgain(x) ==
  /\ At(x, "idle")
  /\ \A y \in Runs : y < x => ~At(y, "idle")
  /\ setting.overlap \/ \A y \in Runs : ~Live(y)
  /\ unit' = [unit EXCEPT !.status = "running", !.attempts = @ + 1,
                          !.latest = MCall(x)]
  /\ Goto(x, "started")
  /\ UNCHANGED <<record, logs, gateLogs>>

\* The first transaction: a unit that is succeeded or skipped is left alone and
\* its status is the outcome; any other becomes running and belongs to this run.
Start(x) ==
  /\ At(x, "idle")
  /\ \A y \in Runs : y < x => ~At(y, "idle")
  /\ setting.overlap \/ \A y \in Runs : ~Live(y)
  /\ IF unit.status \in {"succeeded", "skipped"}
     THEN Leave(x, unit.status) /\ UNCHANGED rows
     ELSE /\ unit' = [unit EXCEPT !.status = "running", !.attempts = @ + 1,
                                  !.latest = MCall(x)]
          /\ Goto(x, "started")
          /\ UNCHANGED <<record, logs, gateLogs>>

\* That transaction fails for good: the scheduler counts a failed unit, whatever
\* the row says, and nothing is stored.
StartFails(x) ==
  /\ At(x, "idle")
  /\ \A y \in Runs : y < x => ~At(y, "idle")
  /\ setting.overlap \/ \A y \in Runs : ~Live(y)
  /\ Leave(x, "unstarted")
  /\ UNCHANGED rows

\* Frame selection and media refs.
SelectFrames(x) ==
  /\ At(x, "started")
  /\ \/ Goto(x, "gate")
     \/ Goto(x, "no_frames")       \* an empty selection, inside the try
     \/ Goto(x, "insufficient")    \* InsufficientFramesError
     \/ Goto(x, "frames_failed")   \* any other exception
  /\ UNCHANGED rows

\* Seeded fault: the skip is reported to the scheduler but not written.
SkipUnitUnwritten(x) ==
  /\ run[x].pc \in {"no_frames", "insufficient", "suppressed"}
  /\ Settle(x, "skipped")
  /\ UNCHANGED rows

\* _terminalize_unit_skipped.
SkipUnit(x) ==
  /\ run[x].pc \in {"no_frames", "insufficient", "suppressed"}
  /\ unit' = Skipped(x, IF At(x, "suppressed") THEN "pre_vlm_gate_suppressed"
                        ELSE "insufficient_frames")
  /\ Settle(x, IF At(x, "no_frames") THEN "no_frames" ELSE "skipped")
  /\ UNCHANGED <<record, logs, gateLogs>>

\* A skip write that fails inside the try is taken for a frame failure.
SkipUnitFails(x) ==
  /\ run[x].pc \in {"no_frames", "insufficient", "suppressed"}
  /\ Goto(x, IF At(x, "no_frames") THEN "frames_failed" ELSE "guard")
  /\ UNCHANGED rows

\* _terminalize_unit_failed: log and unit in one transaction.
FailFrames(x) ==
  /\ At(x, "frames_failed")
  /\ unit' = Failed(x, "frame_extraction_failed")
  /\ logs' = logs \cup {LogRow(x, MCall(x), 1, "failed")}
  /\ Settle(x, "frame_failed")
  /\ UNCHANGED <<record, gateLogs>>

-----------------------------------------------------------------------------
\* No gate is configured.
NoGate(x) ==
  /\ At(x, "gate")
  /\ Goto(x, "vlm")
  /\ UNCHANGED rows

\* Where a run goes after the decision of the gate.
AfterGate(x) ==
  {"vlm", IF setting.scale = "default_segment" THEN "detector_only" ELSE "suppressed"}

\* The gate decides and its log is written.
GateDecides(x) ==
  /\ At(x, "gate")
  /\ gateLogs' = gateLogs \cup {[run |-> x, status |-> "succeeded"]}
  /\ \E place \in AfterGate(x) : Goto(x, place)
  /\ UNCHANGED <<unit, record, logs>>

\* Seeded fault: the failed gate is not logged.
GateSchemaFailsUnlogged(x) ==
  /\ At(x, "gate")
  /\ Goto(x, "gate_failed")
  /\ UNCHANGED rows

\* The detections do not fit their schema: a failed gate log, then the error.
GateSchemaFails(x) ==
  /\ At(x, "gate")
  /\ gateLogs' = gateLogs \cup {[run |-> x, status |-> "failed"]}
  /\ Goto(x, "gate_failed")
  /\ UNCHANGED <<unit, record, logs>>

\* The unit fails with no model attempt and no ModelCallLog.
FailGate(x) ==
  /\ At(x, "gate_failed")
  /\ unit' = [Failed(x, "object_detection_schema_validation_failed")
                EXCEPT !.attempts = 0]
  /\ Settle(x, "gate_failed")
  /\ UNCHANGED <<record, logs, gateLogs>>

-----------------------------------------------------------------------------
\* A VLM attempt returns an output.
AttemptSucceeds(x) ==
  /\ At(x, "vlm")
  /\ run' = [run EXCEPT ![x].pc = "publish", ![x].calls = @ + 1]
  /\ UNCHANGED rows

\* The budget of each kind of error, after the failure was counted.
WillRetry(kind, provider, schema) ==
  \/ kind = "provider" /\ provider < MaxAttempts
  \/ kind = "schema" /\ schema <= SchemaMax

\* An attempt fails; its log is still to be written.
AttemptFails(x, kind) ==
  /\ At(x, "vlm")
  /\ LET provider == run[x].provider + (IF kind = "provider" THEN 1 ELSE 0)
         schema == run[x].schema + (IF kind = "schema" THEN 1 ELSE 0)
     IN run' = [run EXCEPT
          ![x].pc = IF WillRetry(kind, provider, schema)
                    THEN "log_retry" ELSE "log_last",
          ![x].calls = @ + 1,
          ![x].provider = provider,
          ![x].schema = schema]
  /\ UNCHANGED rows

\* _log_failed_attempt: one FAILED ModelCallLog for each failed attempt.
LogFailedAttempt(x) ==
  /\ run[x].pc \in {"log_retry", "log_last"}
  /\ logs' = logs \cup
       {LogRow(x, <<x, run[x].calls>>, run[x].calls, "failed")}
  /\ Goto(x, IF At(x, "log_retry") THEN "vlm" ELSE "vlm_failed")
  /\ UNCHANGED <<unit, record, gateLogs>>

\* _mark_unit_failed with the real number of attempts.
FailVlm(x) ==
  /\ At(x, "vlm_failed")
  /\ unit' = [Failed(x, "vlm_error") EXCEPT !.attempts = run[x].calls]
  /\ Settle(x, "vlm_failed")
  /\ UNCHANGED <<record, logs, gateLogs>>

\* _publish_and_mark: record, log and unit in one transaction.
Publish(x) ==
  /\ At(x, "publish")
  /\ record' = x
  /\ logs' = logs \cup
       {LogRow(x, <<x, run[x].calls>>, run[x].calls, "succeeded")}
  /\ unit' = Succeeded(x, <<x, run[x].calls>>, run[x].calls)
  /\ Settle(x, "published")
  /\ UNCHANGED gateLogs

\* _publish_detector_only_unit: a record without a model call.
PublishDetectorOnly(x) ==
  /\ At(x, "detector_only")
  /\ record' = x
  /\ unit' = Succeeded(x, NoCall, 0)
  /\ Settle(x, "detector_only")
  /\ UNCHANGED <<logs, gateLogs>>

-----------------------------------------------------------------------------
\* Places outside the try of the frames where an exception reaches the guard.
Guarded ==
  {"frames_failed", "gate", "gate_failed", "log_retry", "log_last",
   "vlm_failed", "publish", "detector_only"}

\* Seeded fault: the publication was committed before the failing write.
BodyRaisesPublished(x) ==
  /\ run[x].pc \in Guarded
  /\ record' = IF At(x, "publish") THEN x ELSE record
  /\ Goto(x, "guard")
  /\ UNCHANGED <<unit, logs, gateLogs>>

\* A write fails for good, or the gate raises: nothing of it is stored.
BodyRaises(x) ==
  /\ run[x].pc \in Guarded
  /\ Goto(x, "guard")
  /\ UNCHANGED rows

\* _force_terminalize_running: log and unit in one transaction.
ForceTerminalize(x) ==
  /\ At(x, "guard")
  /\ logs' = logs \cup {LogRow(x, GuardCall(x), 1, "failed")}
  /\ unit' = Failed(x, "analysis_unit_failed")
  /\ Leave(x, "guard")
  /\ UNCHANGED <<record, gateLogs>>

\* The guard's own write fails and is swallowed.
ForceTerminalizeFails(x) ==
  /\ At(x, "guard")
  /\ Leave(x, "lost")
  /\ UNCHANGED rows

\* The outcome is returned.
Return(x) ==
  /\ At(x, "settled")
  /\ Leave(x, run[x].end)
  /\ UNCHANGED rows

\* Inside the try of the frames.
InFrames(x) ==
  \/ run[x].pc \in {"started", "no_frames"}
  \/ At(x, "settled") /\ run[x].end = "no_frames"

\* A timeline event raises, if the recorder is configured to.  The first event
\* lies outside the guard; those of the frames lie inside their try.
TimelineRaises(x) ==
  /\ ~setting.failOpen
  /\ run[x].pc \in {"started", "no_frames", "vlm", "publish", "detector_only",
                    "settled"}
  /\ \/ At(x, "started") /\ Leave(x, "escaped")
     \/ InFrames(x) /\ Goto(x, "frames_failed")
     \/ ~InFrames(x) /\ Goto(x, "guard")
  /\ UNCHANGED rows

\* The worker process dies.
Crash(x) ==
  /\ Live(x)
  /\ Leave(x, "crashed")
  /\ UNCHANGED rows

\* Reconciliation and the orphan sweep: what is still running has failed.
Reconcile ==
  /\ unit.status = "running"
  /\ setting.overlap \/ \A x \in Runs : ~Live(x)
  /\ unit' = [unit EXCEPT !.status = "failed", !.error = "residual"]
  /\ UNCHANGED <<record, logs, gateLogs, run>>

Step(x) ==
  \/ Start(x) \/ StartFails(x) \/ SelectFrames(x)
  \/ SkipUnit(x) \/ SkipUnitFails(x) \/ FailFrames(x)
  \/ NoGate(x) \/ GateDecides(x) \/ GateSchemaFails(x) \/ FailGate(x)
  \/ AttemptSucceeds(x)
  \/ \E kind \in {"provider", "schema", "other"} : AttemptFails(x, kind)
  \/ LogFailedAttempt(x) \/ FailVlm(x)
  \/ Publish(x) \/ PublishDetectorOnly(x)
  \/ BodyRaises(x) \/ ForceTerminalize(x) \/ ForceTerminalizeFails(x)
  \/ Return(x) \/ TimelineRaises(x) \/ Crash(x)

Next == UNCHANGED setting /\ (Reconcile \/ \E x \in Runs : Step(x))

Spec == Init /\ [][Next]_vars

-----------------------------------------------------------------------------
(* Properties. *)

\* How a unit ended agrees with what was stored.  A succeeded unit names the
\* active record of its window and, unless a gate suppressed the model, a
\* succeeded model call, also after two workers ran it.  A unit that ended as
\* failed or skipped has published nothing: no path publishes and fails
\* afterwards, as long as one worker runs the unit and the recorder swallows
\* its errors (_execute_running_unit, _force_terminalize_running).
OutcomeIsBacked ==
  /\ unit.status = "succeeded" =>
       /\ record # 0
       /\ unit.produced = record
       /\ \/ \E l \in logs : l.id = unit.success /\ l.status = "succeeded"
          \/ /\ unit.success = NoCall
             /\ [run |-> record, status |-> "succeeded"] \in gateLogs
  /\ (/\ ~setting.overlap /\ setting.failOpen
      /\ unit.status \in {"failed", "skipped"})
     => record = 0

\* Every failure can be traced.  The run that failed a unit left a failed model
\* call or a failed gate log, unless reconciliation found the unit abandoned;
\* call ids are unique; and a run that ended by its VLM calls has logged every
\* attempt once, under its number, all failed but the last one of a success,
\* within the two retry budgets together (_log_failed_attempt, _log_success).
CallsAreAccountedFor ==
  /\ unit.status = "failed" /\ unit.error # "residual" =>
       \/ \E l \in logs : l.run = unit.latest[1] /\ l.status = "failed"
       \/ [run |-> unit.latest[1], status |-> "failed"] \in gateLogs
  /\ \A l, m \in logs : l.id = m.id => l = m
  /\ \A x \in Runs :
       /\ run[x].calls <= MaxAttempts + SchemaMax
       /\ run[x].end \in {"vlm_failed", "published"} =>
            {l \in logs : l.run = x} =
              {LogRow(x, <<x, a>>, a,
                      IF a = run[x].calls /\ run[x].end = "published"
                      THEN "succeeded" ELSE "failed") : a \in 1..run[x].calls}

\* A unit stays running only with a run in it, or after a crash, a lost guard
\* write or an event that escaped.
RunningIsOwned ==
  unit.status = "running" =>
    \E x \in Runs :
      Live(x) \/ run[x].end \in {"crashed", "lost", "escaped"}

\* What the scheduler is told of run x: its UnitOutcome once it has written its
\* end, and nothing when the process died.
OutcomeOf(end) ==
  CASE end \in {"published", "detector_only", "succeeded"} -> "succeeded"
    [] end \in {"skipped", "no_frames"} -> "skipped"
    [] OTHER -> "failed"
AttemptOf(x) ==
  CASE At(x, "idle") \/ (At(x, "done") /\ run[x].end = "crashed") -> "none"
    [] At(x, "settled") \/ (At(x, "done") /\ run[x].end # "crashed") ->
         OutcomeOf(run[x].end)
    [] OTHER -> "running"
Attempts == [x \in Runs |-> AttemptOf(x)]

Contract == INSTANCE UnitContract WITH
  Executors <- Runs,
  status <- unit.status,
  published <- record # 0,
  attempt <- Attempts,
  exclusive <- ~setting.overlap,
  trusted <- setting.failOpen

\* However its writes fail, executing a unit keeps the contract on which the
\* unit pool of JobLifecycle relies: record, row and outcome become final in one
\* step, nothing reported as succeeded or skipped lacks its write, and what is
\* final is declined (_run_unit_in_fresh_session, _force_terminalize_running).
ImplementsUnitContract == Contract!Spec

\* The contract's reading of attempt_count: the model attempts that were made
\* by the run that ended the unit.  The code does not meet this: see the README.
AttemptCountIsReal ==
  unit.status \in {"succeeded", "failed"} /\ unit.error # "residual" =>
    unit.latest = NoCall \/ unit.attempts = run[unit.latest[1]].calls
=============================================================================
