---------------------------- MODULE StateMachine ----------------------------
(***************************************************************************)
(* The status vocabularies of jobs and scale tasks, and the transition     *)
(* tables every lifecycle write consults.                                  *)
(***************************************************************************)

\* JobStatus.  The code never writes "cancelled", but the table names it.
JobStatus ==
  {"queued", "running", "succeeded", "partial_failed", "failed", "cancelled"}

\* TaskStatus, shared by scale tasks and analysis units.
TaskStatus ==
  {"pending", "running", "succeeded", "partial_failed", "failed", "skipped"}

\* _JOB_TRANSITIONS
JobEdges ==
  [queued         |-> {"running", "cancelled"},
   running        |-> {"succeeded", "partial_failed", "failed", "cancelled"},
   partial_failed |-> {"running", "succeeded"},
   failed         |-> {"running"},
   succeeded      |-> {},
   cancelled      |-> {}]

\* _TASK_TRANSITIONS
TaskEdges ==
  [pending        |-> {"running", "skipped"},
   running        |-> {"succeeded", "partial_failed", "failed"},
   partial_failed |-> {"running"},
   failed         |-> {"running"},
   succeeded      |-> {},
   skipped        |-> {}]

\* AnalysisOrchestrator.transition_job returns normally exactly when the job
\* already has the target status (a no-op) or the edge is legal; it raises
\* InvalidStateTransitionError otherwise.
JobMayBecome(current, target) ==
  current = target \/ target \in JobEdges[current]

\* The same rule for AnalysisOrchestrator.transition_scale_task.
ScaleMayBecome(current, target) ==
  current = target \/ target \in TaskEdges[current]
=============================================================================
