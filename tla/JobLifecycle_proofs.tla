------------------------ MODULE JobLifecycle_proofs -------------------------
(***************************************************************************)
(* Theorems about JobLifecycle for every set of workers, every plan and    *)
(* every bound.                                                            *)
(***************************************************************************)
EXTENDS JobLifecycle, FiniteSetTheorems, TLAPS

Counters == [total : Nat, succeeded : Nat, failed : Nat]

\* Every subset of a scale's windows has a natural number of elements.
LEMMA UnitsFinite ==
  ASSUME NEW s, NEW S \in SUBSET UnitsOf(s)
  PROVE  IsFiniteSet(S) /\ Cardinality(S) \in Nat
<1>1. IsFiniteSet(UnitsOf(s))
  <2>1. IsFiniteSet({})
    BY FS_EmptySet
  <2> QED BY <2>1, ConstantsAssumption DEF UnitsOf
<1>2. IsFiniteSet(S)
  BY <1>1, FS_Subset
<1> QED BY <1>2, FS_CardinalityType

\* The worker's tally and the sweep's recount are triples of naturals.
LEMMA CountersType ==
  /\ \A w, s : Tally(w, s) \in Counters
  /\ \A un, s : RowCounts(un, s) \in Counters
<1>1. ASSUME NEW w, NEW s PROVE Tally(w, s) \in Counters
  <2> DEFINE A == {u \in UnitsOf(s) : run[w][u] # "none"}
             B == {u \in UnitsOf(s) : run[w][u] = "succeeded"}
             C == {u \in UnitsOf(s) : run[w][u] = "failed"}
  <2>1. /\ A \in SUBSET UnitsOf(s)
        /\ B \in SUBSET UnitsOf(s)
        /\ C \in SUBSET UnitsOf(s)
    OBVIOUS
  <2>2. Cardinality(A) \in Nat /\ Cardinality(B) \in Nat /\ Cardinality(C) \in Nat
    BY <2>1, UnitsFinite
  <2> QED BY <2>2 DEF Tally, Counters
<1>2. ASSUME NEW un, NEW s PROVE RowCounts(un, s) \in Counters
  <2> DEFINE A == {u \in UnitsOf(s) : un[u] # "none"}
             B == {u \in UnitsOf(s) : un[u] = "succeeded"}
             C == {u \in UnitsOf(s) : un[u] = "failed"}
  <2>1. /\ A \in SUBSET UnitsOf(s)
        /\ B \in SUBSET UnitsOf(s)
        /\ C \in SUBSET UnitsOf(s)
    OBVIOUS
  <2>2. Cardinality(A) \in Nat /\ Cardinality(B) \in Nat /\ Cardinality(C) \in Nat
    BY <2>1, UnitsFinite
  <2> QED BY <2>2 DEF RowCounts, Counters
<1> QED BY <1>1, <1>2

\* _finalize_scale_task always chooses a terminal status of the vocabulary.
LEMMA FinalStatusType ==
  ASSUME NEW c \in Counters
  PROVE  FinalStatus(c) \in {"partial_failed", "failed", "succeeded"}
BY DEF FinalStatus, Counters

-----------------------------------------------------------------------------
(* Type correctness. *)

\* The ways a worker leaves or moves on, with the types they keep.
LocalsType ==
  /\ partial \subseteq Workers
  /\ hfActive \subseteq Workers
  /\ run \in [Workers -> [Units -> Attempt \cup Outcome]]
  /\ crashes \in 0..MaxCrashes

\* The type of the database rows.
DbType ==
  /\ job \in JobStatus
  /\ scale \in [Scales -> TaskStatus]
  /\ counts \in [Scales -> Counters]
  /\ unit \in [Units -> {"none", "running", "succeeded", "failed", "skipped"}]
  /\ stale \subseteq Units
  /\ published \subseteq Units
  /\ triggers \in {"none", "some"}
  /\ video \in {"pending", "ready"}
  /\ task \in {"queued", "running", "succeeded", "retry_scheduled", "failed"}
  /\ lease \in {"none", "valid", "expired"}

\* TypeOK falls into the database, the program counters and the locals.
LEMMA TypeParts ==
  /\ TypeOK <=> DbType /\ pc \in [Workers -> Phases] /\ LocalsType
  /\ TypeOK' <=> DbType' /\ pc' \in [Workers -> Phases] /\ LocalsType'
BY DEF TypeOK, DbType, LocalsType, Counters

\* Returning from process_one keeps the worker's variables well typed.
LEMMA LeaveType ==
  ASSUME TypeOK, NEW w \in Workers, Leave(w)
  PROVE  pc' \in [Workers -> Phases] /\ LocalsType'
BY DEF TypeOK, Leave, LocalsType, Phases, NoAttempts, Attempt

\* An escaping exception changes no row at all.
LEMMA EscapeType ==
  ASSUME TypeOK, NEW w \in Workers, Escape(w)
  PROVE  TypeOK'
<1>1. DbType'
  BY TypeParts DEF Escape, db, DbType
<1> QED BY <1>1, LeaveType, TypeParts DEF Escape

\* Failing a scale inside a handler keeps the types.
LEMMA FailScaleType ==
  ASSUME TypeOK, NEW w \in Workers, NEW s, NEW next \in Phases,
         FailScale(w, s, next)
  PROVE  TypeOK'
<1>1. CASE Escape(w)
  BY <1>1, EscapeType
<1>2. CASE ~Escape(w)
  BY <1>2, ZenonT(60) DEF FailScale, TypeOK, SetScale, GoTo, locals, TaskStatus
<1> QED BY <1>1, <1>2

\* Planning a scale writes "planned" into the worker's own attempts only.
LEMMA PlanType ==
  ASSUME TypeOK, NEW w \in Workers, NEW s, Plan(w, s)
  PROVE  run' \in [Workers -> [Units -> Attempt \cup Outcome]]
<1> DEFINE f == [u \in Units |-> IF u \in UnitsOf(s) THEN "planned"
                                                   ELSE run[w][u]]
<1>1. f \in [Units -> Attempt \cup Outcome]
  BY DEF TypeOK, Attempt
<1>2. run' = [run EXCEPT ![w] = f]
  BY DEF Plan
<1> HIDE DEF f
<1> QED BY <1>1, <1>2 DEF TypeOK

\* One step of a worker's control keeps the types.
LEMMA PhaseStepType ==
  ASSUME TypeOK, NEW w \in Workers, PhaseStep(w)
  PROVE  TypeOK'
<1>a. CASE Escape(w)
  BY <1>a, EscapeType
<1>b. CASE ~Escape(w)
  <2>1. CASE MarkJobRunning(w)
    BY <1>b, <2>1 DEF MarkJobRunning, TypeOK, GoTo, Phases, JobStatus, locals
  <2>2. CASE MotionStart(w)
    BY <1>b, <2>2 DEF MotionStart, TypeOK, GoTo, SetScale, Phases, TaskStatus
  <2>3. CASE MotionScan(w)
    BY <1>b, <2>3 DEF MotionScan, TypeOK, GoTo, Phases
  <2>4. CASE MotionFinalize(w)
    BY <1>b, <2>4 DEF MotionFinalize, TypeOK, GoTo, SetScale, Phases, TaskStatus
  <2>5. CASE HasTriggers(w)
    BY <1>b, <2>5 DEF HasTriggers, TypeOK, GoTo, Phases, db
  <2>6. CASE HighFreqSkip(w)
    BY <1>b, <2>6 DEF HighFreqSkip, TypeOK, GoTo, SetScale, Phases, TaskStatus, locals
  <2>7. CASE DefaultStart(w)
    BY <1>b, <2>7 DEF DefaultStart, TypeOK, GoTo, SetScale, Phases, TaskStatus, locals
  <2>8. CASE DefaultPlan(w)
    BY <1>b, <2>8, PlanType
    DEF DefaultPlan, TypeOK, GoTo, Phases, db
  <2>9. CASE HighFreqStart(w)
    BY <1>b, <2>9 DEF HighFreqStart, TypeOK, GoTo, SetScale, Phases, TaskStatus
  <2>10. CASE HighFreqPlan(w)
    BY <1>b, <2>10, PlanType
    DEF HighFreqPlan, TypeOK, GoTo, Phases, db
  <2>11. CASE Join(w)
    BY <1>b, <2>11 DEF Join, TypeOK, GoTo, Phases, db, locals
  <2>12. CASE ReconcileRunningUnits(w)
    BY <1>b, <2>12 DEF ReconcileRunningUnits, TypeOK, GoTo, Phases, locals
  <2>13. CASE MotionFailed(w)
    BY <2>13, FailScaleType DEF MotionFailed, Phases
  <2>14. CASE HighFreqFailed(w)
    BY <2>14, FailScaleType DEF HighFreqFailed, Phases
  <2>15. CASE FinalizeScales(w)
    <3>1. /\ counts' \in [Scales -> Counters]
          /\ scale' \in [Scales -> TaskStatus]
      BY <1>b, <2>15, CountersType, FinalStatusType
      DEF FinalizeScales, TypeOK, TaskStatus, Counters
    <3> QED BY <1>b, <2>15, <3>1
            DEF FinalizeScales, TypeOK, GoTo, Phases, Counters, locals
  <2>16. CASE FinalizeJob(w)
    <3>1. pc' \in [Workers -> Phases] /\ LocalsType'
      BY <1>b, <2>16, LeaveType DEF FinalizeJob
    <3> QED BY <1>b, <2>16, <3>1
            DEF FinalizeJob, TypeOK, LocalsType, MarkTaskSucceeded, JobStatus
  <2>17. CASE HandleRequiredFailure(w)
    <3>1. pc' \in [Workers -> Phases] /\ LocalsType'
      BY <1>b, <2>17, LeaveType DEF HandleRequiredFailure
    <3> QED BY <1>b, <2>17, <3>1
            DEF HandleRequiredFailure, TypeOK, LocalsType, MarkTaskFailed,
                SetScale, JobStatus, TaskStatus
  <2> QED BY <2>1, <2>2, <2>3, <2>4, <2>5, <2>6, <2>7, <2>8, <2>9, <2>10,
            <2>11, <2>12, <2>13, <2>14, <2>15, <2>16, <2>17
          DEF PhaseStep
<1> QED BY <1>a, <1>b

\* Setting one attempt keeps the attempts well typed.
LEMMA AttemptType ==
  ASSUME TypeOK, NEW w \in Workers, NEW u \in Units,
         NEW o \in Attempt \cup Outcome, run' = [run EXCEPT ![w][u] = o]
  PROVE  run' \in [Workers -> [Units -> Attempt \cup Outcome]]
BY DEF TypeOK

\* One step of a unit attempt keeps the types.
LEMMA UnitStepType ==
  ASSUME TypeOK, NEW w \in Workers, NEW u \in Units, UnitStep(w, u)
  PROVE  TypeOK'
<1> USE DEF TypeOK, Attempt, Outcome
<1>1. CASE UnitStart(w, u)
  <2>1. PICK o \in Attempt \cup Outcome : run' = [run EXCEPT ![w][u] = o]
    BY <1>1 DEF UnitStart, BeginUnit
  <2>2. run' \in [Workers -> [Units -> Attempt \cup Outcome]]
    BY <2>1, AttemptType
  <2>3. unit' \in [Units -> {"none", "running", "succeeded", "failed", "skipped"}]
    BY <1>1 DEF UnitStart, BeginUnit
  <2> QED BY <1>1, <2>2, <2>3 DEF UnitStart
<1>2. CASE UnitStartFails(w, u)
  BY <1>2 DEF UnitStartFails, EndUnit
<1>3. CASE UnitSucceeds(w, u)
  BY <1>3 DEF UnitSucceeds, EndUnit
<1>4. CASE UnitFails(w, u)
  BY <1>4 DEF UnitFails, EndUnit
<1>5. CASE UnitSkipped(w, u)
  BY <1>5 DEF UnitSkipped, EndUnit
<1>6. CASE UnitWriteLost(w, u)
  BY <1>6 DEF UnitWriteLost, EndUnit
<1> QED BY <1>1, <1>2, <1>3, <1>4, <1>5, <1>6 DEF UnitStep

\* The sweep recounts and re-finalizes within the types.
LEMMA RecoverOrphansType ==
  ASSUME TypeOK, NEW w \in Workers, RecoverOrphans(w)
  PROVE  TypeOK'
<1>1. PICK B \in StaleBatches :
        LET un == [u \in Units |-> IF u \in B THEN "failed" ELSE unit[u]]
            S  == SweptScales(un, B)
            ct == [s \in Scales |-> IF s \in S THEN RowCounts(un, s)
                                               ELSE counts[s]]
            sc == [s \in Scales |-> IF s \in S THEN FinalStatus(ct[s])
                                               ELSE scale[s]]
        IN /\ unit' = un
           /\ counts' = ct
           /\ scale' = sc
           /\ job' = ReconciledJob(sc, ct)
  BY DEF RecoverOrphans
<1>2. unit' \in [Units -> {"none", "running", "succeeded", "failed", "skipped"}]
  BY <1>1 DEF TypeOK
<1>3. counts' \in [Scales -> Counters]
  BY <1>1, CountersType DEF TypeOK, Counters
<1>4. scale' \in [Scales -> TaskStatus]
  BY <1>1, CountersType, FinalStatusType DEF TypeOK, TaskStatus
<1>5. job' \in JobStatus
  BY <1>1 DEF ReconciledJob, TypeOK, JobStatus
<1> QED BY <1>2, <1>3, <1>4, <1>5 DEF RecoverOrphans, TypeOK, Counters, locals

\* Type correctness: every reachable state holds only values of the status
\* enums, and at most the planned units and workers, for any number of
\* workers, windows and crashes.
THEOREM TypeCorrect == Spec => []TypeOK
<1>1. Init => TypeOK
  BY ConstantsAssumption
  DEF Init, TypeOK, JobStatus, TaskStatus, NoCounts, NoAttempts, Attempt, Phases
<1>2. TypeOK /\ [Next]_vars => TypeOK'
  <2> SUFFICES ASSUME TypeOK, [Next]_vars PROVE TypeOK'
    OBVIOUS
  <2>1. ASSUME NEW w \in Workers, Claim(w) PROVE TypeOK'
    BY <2>1 DEF TypeOK, Claim, Take, GoTo, Phases, locals
  <2>2. ASSUME NEW w \in Workers, RefreshLease(w) PROVE TypeOK'
    BY <2>2 DEF TypeOK, RefreshLease, locals
  <2>3. ASSUME NEW w \in Workers, Crash(w) PROVE TypeOK'
    BY <2>3, ConstantsAssumption
    DEF TypeOK, Crash, Phases, NoAttempts, Attempt, db
  <2>4. ASSUME NEW u \in Units, BecomeStale(u) PROVE TypeOK'
    BY <2>4 DEF TypeOK, BecomeStale, locals
  <2>5. CASE LeaseExpires
    BY <2>5 DEF TypeOK, LeaseExpires, locals
  <2>6. CASE UNCHANGED vars
    BY <2>6 DEF TypeOK, vars
  <2> QED BY <2>1, <2>2, <2>3, <2>4, <2>5, <2>6,
             PhaseStepType, UnitStepType, RecoverOrphansType DEF Next
<1> QED BY <1>1, <1>2, PTL DEF Spec

-----------------------------------------------------------------------------
(* Exclusion of workers, and what it protects. *)

\* A control step of w that keeps it in process_one: only Plan touches the
\* attempts, and the queue row is left alone.
Moves(w) ==
  /\ \E phase \in Phases \ {"idle"} : GoTo(w, phase)
  /\ UNCHANGED <<task, lease>>
  /\ UNCHANGED run \/ Plan(w, DEFAULT) \/ Plan(w, HIGHFREQ)

\* What Phase 4.5 does to the rows.
FailsRunning ==
  unit' = [u \in Units |-> IF unit[u] = "running" THEN "failed" ELSE unit[u]]

\* Every control step is taken inside process_one, leaves dispatch only when
\* nothing is in flight, and either moves on or leaves.
LEMMA PhaseStepShape ==
  ASSUME NEW w \in Workers, PhaseStep(w)
  PROVE  /\ ~At(w, "idle")
         /\ At(w, "dispatch") => Joined(w)
         /\ Moves(w) \/ Leave(w)
         /\ UNCHANGED unit \/ FailsRunning
<1> USE DEF Moves, At, Phases
<1>1. CASE MarkJobRunning(w)
  BY <1>1 DEF MarkJobRunning, Escape, locals, db
<1>2. CASE MotionStart(w)
  BY <1>2 DEF MotionStart
<1>3. CASE MotionScan(w)
  BY <1>3 DEF MotionScan
<1>4. CASE MotionFinalize(w)
  BY <1>4 DEF MotionFinalize
<1>5. CASE MotionFailed(w)
  BY <1>5 DEF MotionFailed, FailScale, Escape, locals, db
<1>6. CASE HasTriggers(w)
  BY <1>6 DEF HasTriggers, db
<1>7. CASE HighFreqSkip(w)
  BY <1>7 DEF HighFreqSkip, Escape, locals, db
<1>8. CASE DefaultStart(w)
  BY <1>8 DEF DefaultStart, locals
<1>9. CASE DefaultPlan(w)
  BY <1>9 DEF DefaultPlan, db
<1>10. CASE HighFreqStart(w)
  BY <1>10 DEF HighFreqStart
<1>11. CASE HighFreqPlan(w)
  BY <1>11 DEF HighFreqPlan, db
<1>12. CASE HighFreqFailed(w)
  BY <1>12 DEF HighFreqFailed, FailScale, Escape, locals, db
<1>13. CASE Join(w)
  BY <1>13 DEF Join, db, locals
<1>14. CASE ReconcileRunningUnits(w)
  BY <1>14 DEF ReconcileRunningUnits, locals, FailsRunning
<1>15. CASE FinalizeScales(w)
  BY <1>15 DEF FinalizeScales, Escape, locals, db
<1>16. CASE FinalizeJob(w)
  BY <1>16 DEF FinalizeJob, Escape, db
<1>17. CASE HandleRequiredFailure(w)
  BY <1>17 DEF HandleRequiredFailure, Escape, db
<1> QED BY <1>1, <1>2, <1>3, <1>4, <1>5, <1>6, <1>7, <1>8, <1>9, <1>10,
          <1>11, <1>12, <1>13, <1>14, <1>15, <1>16, <1>17
        DEF PhaseStep

\* No control step touches another worker or puts an attempt in flight.
LEMMA PhaseStepFrame ==
  ASSUME TypeOK, NEW w \in Workers, PhaseStep(w)
  PROVE  /\ \A v \in Workers \ {w} : pc'[v] = pc[v] /\ run'[v] = run[v]
         /\ pc'[w] = "idle" => run'[w] = NoAttempts
         /\ pc'[w] # "idle" => UNCHANGED <<task, lease>>
         /\ \A u \in Units : InFlight(w, u)' => InFlight(w, u)
<1>1. CASE Leave(w)
  <2>1. \A v \in Workers \ {w} : pc'[v] = pc[v] /\ run'[v] = run[v]
    BY <1>1 DEF Leave, TypeOK
  <2>2. pc'[w] = "idle" /\ run'[w] = NoAttempts
    BY <1>1 DEF Leave, TypeOK
  <2>3. \A u \in Units : ~InFlight(w, u)'
    BY <2>2 DEF InFlight, NoAttempts
  <2> QED BY <2>1, <2>2, <2>3
<1>2. CASE Moves(w)
  <2>1. pc'[w] # "idle" /\ UNCHANGED <<task, lease>>
    BY <1>2 DEF Moves, GoTo, TypeOK
  <2>2. \A v \in Workers \ {w} : pc'[v] = pc[v] /\ run'[v] = run[v]
    BY <1>2 DEF Moves, GoTo, Plan, TypeOK
  <2>3. ASSUME NEW u \in Units, InFlight(w, u)' PROVE InFlight(w, u)
    BY <1>2, <2>3 DEF Moves, Plan, InFlight, TypeOK
  <2> QED BY <2>1, <2>2, <2>3
<1> QED BY <1>1, <1>2, PhaseStepShape

\* What one step of w's attempt at u can change.
LEMMA UnitStepFrame ==
  ASSUME TypeOK, NEW w \in Workers, NEW u \in Units, UnitStep(w, u)
  PROVE  /\ UNCHANGED <<task, lease, pc>>
         /\ At(w, "dispatch") \/ InFlight(w, u)
         /\ \A v \in Workers, x \in Units :
              <<v, x>> # <<w, u>> => run'[v][x] = run[v][x]
         /\ \A x \in Units : x # u => unit'[x] = unit[x]
         /\ run'[w][u] \in {"first", "rerun"} =>
              At(w, "dispatch") /\ unit'[u] = "running"
<1> USE DEF TypeOK, InFlight, EndUnit
<1>1. CASE UnitStart(w, u)
  BY <1>1 DEF UnitStart, BeginUnit, MayStart
<1>2. CASE UnitStartFails(w, u)
  BY <1>2 DEF UnitStartFails
<1>3. CASE UnitSucceeds(w, u)
  BY <1>3 DEF UnitSucceeds
<1>4. CASE UnitFails(w, u)
  BY <1>4 DEF UnitFails
<1>5. CASE UnitSkipped(w, u)
  BY <1>5 DEF UnitSkipped
<1>6. CASE UnitWriteLost(w, u)
  BY <1>6 DEF UnitWriteLost
<1> QED BY <1>1, <1>2, <1>3, <1>4, <1>5, <1>6 DEF UnitStep

\* LeaseProtectsJob is inductive: a claim needs a row that no worker can be
\* processing, and the lease lapses only when nobody is.
LEMMA LeaseStep ==
  ASSUME TypeOK, LeaseProtectsJob, [Next]_vars
  PROVE  LeaseProtectsJob'
<1> SUFFICES ASSUME "lease" \notin Faults,
                    NEW w \in Workers, Processing(w)'
             PROVE  /\ task' = "running" /\ lease' = "valid"
                    /\ \A v \in Workers : Processing(v)' => v = w
  BY DEF LeaseProtectsJob
<1> USE DEF LeaseProtectsJob, Processing, At
<1>1. ASSUME NEW x \in Workers, Claim(x)
      PROVE  /\ task' = "running" /\ lease' = "valid"
             /\ \A v \in Workers : Processing(v)' => v = w
  <2>1. \A v \in Workers : ~Processing(v)
    BY <1>1 DEF Claim
  <2>2. \A v \in Workers : Processing(v)' => v = x
    BY <1>1, <2>1 DEF Claim, Take, GoTo, TypeOK
  <2> QED BY <1>1, <2>2 DEF Claim, Take
<1>2. ASSUME NEW x \in Workers, RefreshLease(x)
      PROVE  /\ task' = "running" /\ lease' = "valid"
             /\ \A v \in Workers : Processing(v)' => v = w
  BY <1>2 DEF RefreshLease
<1>3. ASSUME NEW x \in Workers, PhaseStep(x)
      PROVE  /\ task' = "running" /\ lease' = "valid"
             /\ \A v \in Workers : Processing(v)' => v = w
  <2>1. Processing(x)
    BY <1>3, PhaseStepShape
  <2>2. \A v \in Workers \ {x} : pc'[v] = pc[v]
    BY <1>3, PhaseStepFrame
  <2>3. w = x
    BY <2>1, <2>2
  <2>4. UNCHANGED <<task, lease>>
    BY <1>3, <2>3, PhaseStepFrame
  <2> QED BY <2>1, <2>2, <2>3, <2>4
<1>4. ASSUME NEW x \in Workers, RecoverOrphans(x)
      PROVE  /\ task' = "running" /\ lease' = "valid"
             /\ \A v \in Workers : Processing(v)' => v = w
  BY <1>4 DEF RecoverOrphans
<1>5. ASSUME NEW x \in Workers, Crash(x)
      PROVE  /\ task' = "running" /\ lease' = "valid"
             /\ \A v \in Workers : Processing(v)' => v = w
  <2>1. \A v \in Workers \ {x} : pc'[v] = pc[v]
    BY <1>5 DEF Crash, TypeOK
  <2>2. pc'[x] = "idle" /\ UNCHANGED <<task, lease>>
    BY <1>5 DEF Crash, TypeOK, db
  <2> QED BY <2>1, <2>2
<1>6. ASSUME NEW x \in Workers, NEW u \in Units, UnitStep(x, u)
      PROVE  /\ task' = "running" /\ lease' = "valid"
             /\ \A v \in Workers : Processing(v)' => v = w
  BY <1>6, UnitStepFrame
<1>7. ASSUME NEW u \in Units, BecomeStale(u)
      PROVE  /\ task' = "running" /\ lease' = "valid"
             /\ \A v \in Workers : Processing(v)' => v = w
  BY <1>7 DEF BecomeStale
<1>8. ~LeaseExpires
  BY DEF LeaseExpires
<1>9. CASE UNCHANGED vars
  BY <1>9 DEF vars
<1> QED BY <1>1, <1>2, <1>3, <1>4, <1>5, <1>6, <1>7, <1>8, <1>9 DEF Next

\* With timely heartbeats, whatever crashes, reclaims and sweeps happen, a job
\* has at most one worker inside process_one, under a valid lease.
THEOREM LeaseSafety == Spec => []LeaseProtectsJob
<1>1. Init => LeaseProtectsJob
  BY DEF Init, LeaseProtectsJob, Processing, At
<1>2. TypeOK /\ LeaseProtectsJob /\ [Next]_vars => LeaseProtectsJob'
  BY LeaseStep
<1> QED BY <1>1, <1>2, TypeCorrect, PTL DEF Spec

-----------------------------------------------------------------------------
(* A published window is never taken back. *)

\* Only a worker inside process_one has attempts; one in flight belongs to the
\* dispatch phase and to a row that is running, or was failed under it.
AttemptInv ==
  \A w \in Workers, u \in Units :
    /\ run[w][u] # "none" => Processing(w)
    /\ InFlight(w, u) => At(w, "dispatch") /\ unit[u] \in {"running", "failed"}

\* AttemptInv is preserved as long as the lease excludes a second worker.
LEMMA AttemptStep ==
  ASSUME "lease" \notin Faults, TypeOK, LeaseProtectsJob, AttemptInv,
         [Next]_vars
  PROVE  AttemptInv'
<1> SUFFICES ASSUME NEW w \in Workers, NEW u \in Units
             PROVE  /\ run'[w][u] # "none" => Processing(w)'
                    /\ InFlight(w, u)' =>
                          At(w, "dispatch")' /\ unit'[u] \in {"running", "failed"}
  BY DEF AttemptInv
<1> DEFINE Goal == /\ run'[w][u] # "none" => Processing(w)'
                   /\ InFlight(w, u)' =>
                         At(w, "dispatch")' /\ unit'[u] \in {"running", "failed"}
<1> USE DEF AttemptInv, Processing, At, InFlight
<1>1. ASSUME NEW x \in Workers, Claim(x) PROVE Goal
  BY <1>1 DEF Claim, Take, GoTo, TypeOK, locals
<1>2. ASSUME NEW x \in Workers, RefreshLease(x) PROVE Goal
  BY <1>2 DEF RefreshLease, locals
<1>3. ASSUME NEW x \in Workers, PhaseStep(x) PROVE Goal
  <2>1. \A v \in Workers : Processing(v) => v = x
    BY <1>3, PhaseStepShape DEF LeaseProtectsJob
  <2>2. CASE w # x
    <3>1. run'[w] = run[w] /\ ~Processing(w)
      BY <1>3, <2>1, <2>2, PhaseStepFrame
    <3> QED BY <3>1
  <2>3. CASE w = x
    <3>1. ~InFlight(x, u)
      BY <1>3, PhaseStepShape DEF Joined, Outcome
    <3>2. ~InFlight(x, u)'
      BY <1>3, <3>1, PhaseStepFrame
    <3>3. pc'[x] = "idle" => run'[x][u] = "none"
      BY <1>3, PhaseStepFrame DEF NoAttempts
    <3> QED BY <2>3, <3>2, <3>3
  <2> QED BY <2>2, <2>3
<1>4. ASSUME NEW x \in Workers, RecoverOrphans(x) PROVE Goal
  <2>1. UNCHANGED <<pc, run>>
    BY <1>4 DEF RecoverOrphans, locals
  <2>2. unit'[u] \in {"failed", unit[u]}
    BY <1>4 DEF RecoverOrphans
  <2> QED BY <2>1, <2>2
<1>5. ASSUME NEW x \in Workers, Crash(x) PROVE Goal
  BY <1>5 DEF Crash, TypeOK, NoAttempts, db
<1>6. ASSUME NEW x \in Workers, NEW y \in Units, UnitStep(x, y) PROVE Goal
  <2>1. Processing(x)
    BY <1>6, UnitStepFrame
  <2>2. \A v \in Workers : Processing(v) => v = x
    BY <2>1 DEF LeaseProtectsJob
  <2>3. CASE w # x
    <3>1. ~Processing(w) /\ run'[w][u] = run[w][u]
      BY <1>6, <2>2, <2>3, UnitStepFrame
    <3> QED BY <3>1
  <2>4. CASE w = x /\ u # y
    <3>1. run'[w][u] = run[w][u] /\ unit'[u] = unit[u] /\ UNCHANGED pc
      BY <1>6, <2>4, UnitStepFrame
    <3> QED BY <3>1
  <2>5. CASE w = x /\ u = y
    BY <1>6, <2>1, <2>5, UnitStepFrame
  <2> QED BY <2>3, <2>4, <2>5
<1>7. ASSUME NEW y \in Units, BecomeStale(y) PROVE Goal
  BY <1>7 DEF BecomeStale, locals
<1>8. CASE LeaseExpires
  BY <1>8 DEF LeaseExpires, locals
<1>9. CASE UNCHANGED vars
  BY <1>9 DEF vars
<1> QED BY <1>1, <1>2, <1>3, <1>4, <1>5, <1>6, <1>7, <1>8, <1>9 DEF Next

\* Statuses that no later pass runs again.
Good == {"succeeded", "skipped"}

\* With timely heartbeats no step takes a succeeded or skipped unit back.
LEMMA GoodStays ==
  ASSUME TypeOK, AttemptInv, [Next]_vars,
         NEW u \in Units, unit[u] \in Good
  PROVE  unit'[u] = unit[u]
<1> USE DEF Good
<1>1. ASSUME NEW w \in Workers, PhaseStep(w) PROVE unit'[u] = unit[u]
  BY <1>1, PhaseStepShape DEF FailsRunning
<1>2. ASSUME NEW w \in Workers, RecoverOrphans(w) PROVE unit'[u] = unit[u]
  BY <1>2 DEF RecoverOrphans, StaleBatches
<1>3. ASSUME NEW w \in Workers, NEW y \in Units, UnitStep(w, y)
      PROVE  unit'[u] = unit[u]
  <2>1. ~InFlight(w, u)
    BY DEF AttemptInv
  <2>2. CASE y # u
    BY <1>3, <2>2, UnitStepFrame
  <2>3. CASE y = u
    BY <1>3, <2>1, <2>3
    DEF UnitStep, UnitStart, UnitStartFails, UnitSucceeds, UnitFails,
        UnitSkipped, UnitWriteLost, EndUnit, TypeOK
  <2> QED BY <2>2, <2>3
<1>4. ASSUME NEW w \in Workers, Claim(w) \/ RefreshLease(w) \/ Crash(w)
      PROVE  unit'[u] = unit[u]
  BY <1>4 DEF Claim, Take, RefreshLease, Crash, db
<1>5. ASSUME (\E y \in Units : BecomeStale(y)) \/ LeaseExpires \/ UNCHANGED vars
      PROVE  unit'[u] = unit[u]
  BY <1>5 DEF BecomeStale, LeaseExpires, vars
<1> QED BY <1>1, <1>2, <1>3, <1>4, <1>5 DEF Next

\* While no lease is lost, an attempt in flight belongs to the worker that leads
\* the task, in every reachable state.
LEMMA AttemptsAreOwned ==
  ASSUME "lease" \notin Faults
  PROVE  Spec => []AttemptInv
<1>1. Init => AttemptInv
  BY DEF Init, AttemptInv, InFlight, NoAttempts
<1>2. TypeOK /\ LeaseProtectsJob /\ AttemptInv /\ [Next]_vars => AttemptInv'
  BY AttemptStep
<1> QED BY <1>1, <1>2, TypeCorrect, LeaseSafety, PTL DEF Spec

\* With timely heartbeats a window that was published stays succeeded: no
\* rerun, reconciliation or orphan sweep takes it back.
THEOREM PublishedWindowsStay ==
  ASSUME "lease" \notin Faults
  PROVE  Spec => SucceededUnitsStay
<1>1. TypeOK /\ AttemptInv /\ [Next]_vars =>
        [\A u \in Units : unit[u] = "succeeded" => unit'[u] = "succeeded"]_vars
  BY GoodStays DEF Good
<1> QED BY <1>1, TypeCorrect, AttemptsAreOwned, PTL DEF Spec, SucceededUnitsStay

-----------------------------------------------------------------------------
(* A usable job has a baseline record. *)

HasBaseline == DefaultUnits \cap published # {}

\* The phases of a pass that has planned its baseline.
PlannedPhases ==
  {"high_freq_start", "high_freq_plan", "high_freq_failed", "dispatch",
   "reconcile", "finalize_scales", "finalize_job"}

\* A success, in a row or in a tally, has its record.
SuccessIsPublished ==
  /\ \A u \in Units : unit[u] = "succeeded" => u \in published
  /\ \A w \in Workers, u \in Units : run[w][u] = "succeeded" => u \in published

BaselineIsPlanned ==
  \A w \in Workers : pc[w] \in PlannedPhases =>
    \A u \in DefaultUnits : run[w][u] # "none"

\* A baseline scale is terminal with counters that say whether it is empty, or
\* planning it failed and nobody will ever run the job again.
TerminalBaselineIsCounted ==
  /\ counts[DEFAULT].succeeded > 0 => HasBaseline
  /\ scale[DEFAULT] \notin {"pending", "running"} =>
       \/ counts[DEFAULT].total > 0
       \/ /\ "plan" \in Faults
          /\ job = "failed" /\ task \notin {"queued", "running"}
  /\ "plan" \notin Faults =>
       \A w \in Workers : At(w, "required_failure") => counts[DEFAULT].total > 0

FinalizerHasBaseline == \A w \in Workers : At(w, "finalize_job") => HasBaseline

BaselineInv ==
  /\ SuccessIsPublished
  /\ BaselineIsPlanned
  /\ TerminalBaselineIsCounted
  /\ FinalizerHasBaseline
  /\ UsableJobHasBaseline

\* A tally or a recount is positive when something is counted, and only then.
LEMMA Counted ==
  ASSUME NEW s, NEW S \in SUBSET UnitsOf(s)
  PROVE  Cardinality(S) > 0 <=> S # {}
<1>1. IsFiniteSet(S) /\ Cardinality(S) \in Nat
  BY UnitsFinite
<1>2. Cardinality(S) = 0 <=> S = {}
  BY <1>1, FS_EmptySet
<1> QED BY <1>1, <1>2

\* The scales of a job: which there are, which units each has, and that the
\* motion scan and the events it feeds are enabled together.
LEMMA ScalesKnown ==
  /\ DEFAULT \in Scales /\ UnitsOf(DEFAULT) = DefaultUnits
  /\ UnitsOf(HIGHFREQ) = HighFreqUnits /\ UnitsOf(MOTION) = {}
  /\ DEFAULT # MOTION /\ DEFAULT # HIGHFREQ /\ MOTION # HIGHFREQ
  /\ DefaultUnits # {} /\ DefaultUnits \subseteq Units
  /\ HighFreqUnits \subseteq Units
  /\ MOTION \in Scales <=> HIGHFREQ \in Scales
  /\ Scales \subseteq {DEFAULT, MOTION, HIGHFREQ}
BY ConstantsAssumption DEF UnitsOf, DEFAULT, HIGHFREQ, MOTION, Units

\* What the tally of a planned baseline says about the records.
LEMMA BaselineTally ==
  ASSUME SuccessIsPublished, NEW w \in Workers,
         \A u \in DefaultUnits : run[w][u] # "none"
  PROVE  /\ Tally(w, DEFAULT).total > 0
         /\ Tally(w, DEFAULT).succeeded > 0 => HasBaseline
         /\ ~EmptyBaseline(Tally(w, DEFAULT)) => HasBaseline
<1> DEFINE A == {u \in DefaultUnits : run[w][u] # "none"}
           B == {u \in DefaultUnits : run[w][u] = "succeeded"}
<1>1. /\ Tally(w, DEFAULT).total = Cardinality(A)
      /\ Tally(w, DEFAULT).succeeded = Cardinality(B)
  BY ScalesKnown DEF Tally
<1>2. A \in SUBSET UnitsOf(DEFAULT) /\ B \in SUBSET UnitsOf(DEFAULT)
  BY ScalesKnown
<1>3. A # {}
  BY ScalesKnown
<1>4. B # {} => HasBaseline
  BY ScalesKnown DEF SuccessIsPublished, HasBaseline
<1>5. Cardinality(A) > 0 /\ (Cardinality(B) > 0 => HasBaseline)
  BY <1>2, <1>3, <1>4, Counted
<1>6. Cardinality(B) \in Nat
  BY <1>2, UnitsFinite
<1> QED BY <1>1, <1>5, <1>6 DEF EmptyBaseline

\* What the rows say about the records, after a batch of them was failed.
LEMMA BaselineRows ==
  ASSUME NEW un, NEW B, B \cap DefaultUnits # {},
         \A u \in DefaultUnits : u \in B => un[u] = "failed",
         \A u \in DefaultUnits : un[u] = "succeeded" => u \in published
  PROVE  /\ RowCounts(un, DEFAULT).total > 0
         /\ RowCounts(un, DEFAULT).succeeded > 0 => HasBaseline
<1> DEFINE A == {u \in DefaultUnits : un[u] # "none"}
           C == {u \in DefaultUnits : un[u] = "succeeded"}
<1>1. /\ RowCounts(un, DEFAULT).total = Cardinality(A)
      /\ RowCounts(un, DEFAULT).succeeded = Cardinality(C)
  BY ScalesKnown DEF RowCounts
<1>2. A \in SUBSET UnitsOf(DEFAULT) /\ C \in SUBSET UnitsOf(DEFAULT)
  BY ScalesKnown
<1>3. A # {} /\ (C # {} => HasBaseline)
  BY DEF HasBaseline
<1> QED BY <1>1, <1>2, <1>3, Counted

\* What no control step of w does to records, rows and attempts.
LEMMA PhaseStepKeeps ==
  ASSUME TypeOK, NEW w \in Workers, PhaseStep(w)
  PROVE  /\ UNCHANGED published
         /\ \A u \in Units : unit'[u] = "succeeded" => unit[u] = "succeeded"
         /\ \A u \in Units : run'[w][u] = "succeeded" => run[w][u] = "succeeded"
<1>1. UNCHANGED published
  BY DEF PhaseStep, MarkJobRunning, MotionStart, MotionScan, MotionFinalize,
         MotionFailed, FailScale, HasTriggers, HighFreqSkip, DefaultStart,
         DefaultPlan, HighFreqStart, HighFreqPlan, HighFreqFailed, Join,
         ReconcileRunningUnits, FinalizeScales, FinalizeJob,
         HandleRequiredFailure, Escape, db
<1>2. \A u \in Units : unit'[u] = "succeeded" => unit[u] = "succeeded"
  BY PhaseStepShape DEF FailsRunning
<1>3. CASE Leave(w)
  <2>1. \A u \in Units : run'[w][u] = "none"
    BY <1>3 DEF Leave, TypeOK, NoAttempts
  <2> QED BY <1>1, <1>2, <2>1
<1>4. CASE Moves(w)
  <2>1. \A u \in Units : run'[w][u] = run[w][u] \/ run'[w][u] = "planned"
    BY <1>4 DEF Moves, Plan, TypeOK
  <2> QED BY <1>1, <1>2, <2>1
<1> QED BY <1>3, <1>4, PhaseStepShape

\* Planning the baseline comes first, and nothing is unplanned.
LEMMA PlannedStays ==
  ASSUME TypeOK, BaselineIsPlanned, NEW w \in Workers, PhaseStep(w)
  PROVE  BaselineIsPlanned'
<1> SUFFICES ASSUME pc'[w] \in PlannedPhases, NEW u \in DefaultUnits
             PROVE  run'[w][u] # "none"
  BY PhaseStepFrame DEF BaselineIsPlanned
<1>0. pc[w] \in Phases /\ u \in Units
  BY ScalesKnown DEF TypeOK
<1>1. CASE DefaultPlan(w)
  BY <1>0, <1>1, ScalesKnown DEF DefaultPlan, Plan, TypeOK, GoTo, PlannedPhases
<1>2. CASE pc[w] \in PlannedPhases
  <2>1. run[w][u] # "none"
    BY <1>2 DEF BaselineIsPlanned
  <2>2. CASE Leave(w)
    BY <2>2 DEF Leave, TypeOK, PlannedPhases
  <2>3. CASE Moves(w)
    BY <1>0, <2>1, <2>3 DEF Moves, Plan, TypeOK
  <2> QED BY <2>2, <2>3, PhaseStepShape
<1>3. CASE ~DefaultPlan(w) /\ pc[w] \notin PlannedPhases
  <2>1. CASE Leave(w)
    BY <2>1 DEF Leave, TypeOK, PlannedPhases
  <2>2. CASE ~Leave(w)
    BY <1>3, <2>2
    DEF PhaseStep, MarkJobRunning, MotionStart, MotionScan, MotionFinalize,
        MotionFailed, FailScale, HasTriggers, HighFreqSkip, DefaultStart,
        HighFreqStart, HighFreqPlan, HighFreqFailed, Join, ReconcileRunningUnits,
        FinalizeScales, FinalizeJob, HandleRequiredFailure, Escape, GoTo, TypeOK,
        PlannedPhases, At
  <2> QED BY <2>1, <2>2
<1> QED BY <1>1, <1>2, <1>3

\* The control steps that have nothing to do with the outcome of the baseline.
LEMMA OtherPhases ==
  ASSUME TypeOK, NEW w \in Workers,
         \/ Escape(w) \/ MotionStart(w) \/ MotionScan(w) \/ MotionFinalize(w)
         \/ MotionFailed(w) \/ HasTriggers(w) \/ HighFreqSkip(w)
         \/ HighFreqStart(w) \/ HighFreqPlan(w) \/ HighFreqFailed(w)
         \/ Join(w) \/ ReconcileRunningUnits(w)
  PROVE  /\ UNCHANGED <<job, counts, task>> /\ scale'[DEFAULT] = scale[DEFAULT]
         /\ pc'[w] \notin {"finalize_job", "required_failure"}
<1> USE ScalesKnown DEF TypeOK, GoTo, SetScale
<1>0. CASE Escape(w)
  BY <1>0 DEF Escape, Leave, db
<1>1. CASE ~Escape(w) /\ (MotionFailed(w) \/ HighFreqFailed(w))
  BY <1>1 DEF MotionFailed, HighFreqFailed, FailScale
<1>2. CASE ~Escape(w) /\ (MotionStart(w) \/ MotionScan(w) \/ MotionFinalize(w))
  BY <1>2 DEF MotionStart, MotionScan, MotionFinalize
<1>3. CASE ~Escape(w) /\ (HasTriggers(w) \/ HighFreqSkip(w) \/ HighFreqStart(w)
                          \/ HighFreqPlan(w))
  BY <1>3 DEF HasTriggers, HighFreqSkip, HighFreqStart, HighFreqPlan, db
<1>4. CASE ~Escape(w) /\ (Join(w) \/ ReconcileRunningUnits(w))
  BY <1>4 DEF Join, ReconcileRunningUnits, db
<1> QED BY <1>0, <1>1, <1>2, <1>3, <1>4

\* The outcome of the baseline through the control steps of a worker.
LEMMA BaselinePhase ==
  ASSUME TypeOK, LeaseProtectsJob, BaselineInv, NEW w \in Workers, PhaseStep(w),
         "lease" \notin Faults \/ "plan" \notin Faults
  PROVE  BaselineInv'
<1>0. UNCHANGED published /\ Processing(w) /\ (HasBaseline' <=> HasBaseline)
  BY PhaseStepKeeps, PhaseStepShape DEF HasBaseline, Processing
<1>1. SuccessIsPublished'
  BY <1>0, PhaseStepKeeps, PhaseStepFrame DEF BaselineInv, SuccessIsPublished
<1>2. BaselineIsPlanned'
  BY PlannedStays DEF BaselineInv
<1>3. \A v \in Workers \ {w} : pc'[v] = pc[v]
  BY PhaseStepFrame
<1>t. "lease" \notin Faults => task = "running"
  BY <1>0 DEF LeaseProtectsJob
<1> SUFFICES /\ TerminalBaselineIsCounted' /\ FinalizerHasBaseline'
             /\ UsableJobHasBaseline'
  BY <1>1, <1>2 DEF BaselineInv
<1> USE DEF TerminalBaselineIsCounted, FinalizerHasBaseline, UsableJobHasBaseline,
            BaselineInv, At
<1>4. CASE /\ UNCHANGED <<job, counts, task>> /\ scale'[DEFAULT] = scale[DEFAULT]
           /\ pc'[w] \notin {"finalize_job", "required_failure"}
  BY <1>0, <1>3, <1>4 DEF HasBaseline
<1>5. CASE ~Escape(w) /\ MarkJobRunning(w)
  <2>1. /\ UNCHANGED <<scale, counts, task>> /\ job' = "running"
        /\ pc'[w] \notin {"finalize_job", "required_failure"}
    BY <1>5 DEF MarkJobRunning, GoTo, TypeOK
  <2>2. scale[DEFAULT] \notin {"pending", "running"} => counts[DEFAULT].total > 0
    BY <1>t
  <2> QED BY <1>0, <1>3, <2>1, <2>2
<1>6. CASE DefaultStart(w)
  <2>1. UNCHANGED <<job, counts, task>>
    BY <1>6 DEF DefaultStart
  <2>2. CASE SetScale(DEFAULT, "running") /\ GoTo(w, "default_plan")
    <3>1. scale'[DEFAULT] = "running" /\ pc'[w] = "default_plan"
      BY <2>2, ScalesKnown DEF GoTo, SetScale, TypeOK
    <3> QED BY <1>0, <1>3, <2>1, <3>1 DEF HasBaseline
  <2>3. CASE /\ UNCHANGED scale /\ GoTo(w, "required_failure")
             /\ "plan" \in Faults \/ ~ScaleMayBecome(scale[DEFAULT], "running")
    <3>1. UNCHANGED scale /\ pc'[w] = "required_failure"
      BY <2>3 DEF GoTo, TypeOK
    <3>2. "plan" \in Faults \/ scale[DEFAULT] \notin {"pending", "running"}
      BY <2>3 DEF ScaleMayBecome, TaskEdges
    <3> QED BY <1>0, <1>3, <2>1, <3>1, <3>2 DEF HasBaseline
  <2> QED BY <1>6, <2>2, <2>3 DEF DefaultStart
<1>7. CASE DefaultPlan(w)
  <2>1. /\ UNCHANGED <<job, scale, counts, task>> /\ pc'[w] # "finalize_job"
        /\ pc'[w] = "required_failure" => "plan" \in Faults
    BY <1>7 DEF DefaultPlan, db, GoTo, TypeOK
  <2> QED BY <1>0, <1>3, <2>1 DEF HasBaseline
<1>8. CASE ~Escape(w) /\ FinalizeScales(w)
  <2> DEFINE c == Tally(w, DEFAULT)
  <2>1. \A u \in DefaultUnits : run[w][u] # "none"
    BY <1>8 DEF FinalizeScales, BaselineIsPlanned, PlannedPhases
  <2>2. c.total > 0 /\ (c.succeeded > 0 => HasBaseline)
        /\ (~EmptyBaseline(c) => HasBaseline)
    BY <2>1, BaselineTally
  <2>3. /\ UNCHANGED <<job, task>> /\ counts'[DEFAULT] = c
        /\ pc'[w] = "finalize_job" => ~EmptyBaseline(c)
    BY <1>8, ScalesKnown DEF FinalizeScales, GoTo, TypeOK, ScalesToFinalize
  <2> HIDE DEF c
  <2> QED BY <1>0, <1>3, <2>2, <2>3 DEF HasBaseline
<1>9. CASE ~Escape(w) /\ FinalizeJob(w)
  <2>1. /\ UNCHANGED <<scale, counts>> /\ pc'[w] = "idle"
        /\ At(w, "finalize_job") /\ task' = "succeeded"
        /\ job' \in {"succeeded", "partial_failed"}
    BY <1>9 DEF FinalizeJob, Leave, TypeOK, MarkTaskSucceeded
  <2>2. scale[DEFAULT] \notin {"pending", "running"} => counts[DEFAULT].total > 0
    BY <1>t
  <2> QED BY <1>0, <1>3, <2>1, <2>2 DEF HasBaseline
<1>10. CASE ~Escape(w) /\ HandleRequiredFailure(w)
  <2>1. /\ UNCHANGED counts /\ pc'[w] = "idle" /\ job' = "failed"
        /\ At(w, "required_failure") /\ task' \notin {"queued", "running"}
    BY <1>10 DEF HandleRequiredFailure, Leave, TypeOK, MarkTaskFailed
  <2>2. "plan" \notin Faults => counts[DEFAULT].total > 0
    BY <2>1
  <2> QED BY <1>0, <1>3, <2>1, <2>2
<1> HIDE DEF TerminalBaselineIsCounted, FinalizerHasBaseline, UsableJobHasBaseline
<1>11. CASE \/ Escape(w) \/ MotionStart(w) \/ MotionScan(w) \/ MotionFinalize(w)
           \/ MotionFailed(w) \/ HasTriggers(w) \/ HighFreqSkip(w)
           \/ HighFreqStart(w) \/ HighFreqPlan(w) \/ HighFreqFailed(w)
           \/ Join(w) \/ ReconcileRunningUnits(w)
  <2>1. /\ UNCHANGED <<job, counts, task>> /\ scale'[DEFAULT] = scale[DEFAULT]
        /\ pc'[w] \notin {"finalize_job", "required_failure"}
    BY <1>11, OtherPhases
  <2> QED BY <1>4, <2>1
<1> QED BY <1>5, <1>6, <1>7, <1>8, <1>9, <1>10, <1>11 DEF PhaseStep

\* A unit step changes one row and one attempt, and publishes what succeeds.
LEMMA UnitStepPublishes ==
  ASSUME TypeOK, SuccessIsPublished, NEW w \in Workers, NEW u \in Units,
         UnitStep(w, u)
  PROVE  /\ published \subseteq published'
         /\ SuccessIsPublished'
         /\ UNCHANGED <<job, scale, counts, task, pc>>
         /\ run'[w][u] # "none" /\ run[w][u] # "none"
<1> USE DEF TypeOK, SuccessIsPublished, EndUnit, InFlight
<1>1. CASE UnitStart(w, u)
  BY <1>1 DEF UnitStart, BeginUnit, MayStart
<1>2. CASE UnitStartFails(w, u)
  BY <1>2 DEF UnitStartFails
<1>3. CASE UnitSucceeds(w, u)
  BY <1>3 DEF UnitSucceeds
<1>4. CASE UnitFails(w, u)
  BY <1>4 DEF UnitFails
<1>5. CASE UnitSkipped(w, u)
  BY <1>5 DEF UnitSkipped
<1>6. CASE UnitWriteLost(w, u)
  BY <1>6 DEF UnitWriteLost
<1> QED BY <1>1, <1>2, <1>3, <1>4, <1>5, <1>6 DEF UnitStep

\* A unit worker's step keeps the baseline invariant: it only adds records.
LEMMA BaselineUnit ==
  ASSUME TypeOK, BaselineInv, NEW w \in Workers, NEW u \in Units, UnitStep(w, u)
  PROVE  BaselineInv'
<1>1. /\ published \subseteq published' /\ SuccessIsPublished'
      /\ UNCHANGED <<job, scale, counts, task, pc>>
      /\ run'[w][u] # "none"
  BY UnitStepPublishes DEF BaselineInv
<1>2. HasBaseline => HasBaseline'
  BY <1>1 DEF HasBaseline
<1>3. BaselineIsPlanned'
  <2>1. \A v \in Workers, x \in Units : run[v][x] # "none" => run'[v][x] # "none"
    BY <1>1, UnitStepFrame
  <2> QED BY <1>1, <2>1, ScalesKnown DEF BaselineInv, BaselineIsPlanned
<1> QED BY <1>1, <1>2, <1>3
    DEF BaselineInv, TerminalBaselineIsCounted, FinalizerHasBaseline,
        UsableJobHasBaseline, HasBaseline, At

\* What the sweep writes.
LEMMA SweepShape ==
  ASSUME TypeOK, NEW w \in Workers, RecoverOrphans(w)
  PROVE  \E B \in SUBSET Units :
           LET S == SweptScales(unit', B)
           IN /\ B # {} /\ \A u \in B : unit[u] = "running"
              /\ \A u \in B : unit'[u] = "failed"
              /\ \A u \in Units \ B : unit'[u] = unit[u]
              /\ \A s \in Scales \ S : counts'[s] = counts[s] /\ scale'[s] = scale[s]
              /\ \A s \in Scales \cap S : /\ counts'[s] = RowCounts(unit', s)
                                        /\ scale'[s] = FinalStatus(counts'[s])
              /\ job' = ReconciledJob(scale', counts')
              /\ UNCHANGED <<stale, published, triggers, video, task, lease, pc,
                             partial, hfActive, run, crashes>>
<1>1. PICK B \in StaleBatches :
        LET un == [u \in Units |-> IF u \in B THEN "failed" ELSE unit[u]]
            S  == SweptScales(un, B)
            ct == [s \in Scales |-> IF s \in S THEN RowCounts(un, s)
                                               ELSE counts[s]]
            sc == [s \in Scales |-> IF s \in S THEN FinalStatus(ct[s])
                                               ELSE scale[s]]
        IN /\ unit' = un
           /\ counts' = ct
           /\ scale' = sc
           /\ job' = ReconciledJob(sc, ct)
  BY DEF RecoverOrphans
<1>2. B \in SUBSET Units /\ B # {} /\ \A u \in B : unit[u] = "running"
  BY DEF StaleBatches
<1>3. UNCHANGED <<stale, published, triggers, video, task, lease, pc, partial,
                  hfActive, run, crashes>>
  BY DEF RecoverOrphans, locals
<1>4. unit' = [u \in Units |-> IF u \in B THEN "failed" ELSE unit[u]]
  BY <1>1
<1>5. counts' = [s \in Scales |-> IF s \in SweptScales(unit', B)
                                 THEN RowCounts(unit', s) ELSE counts[s]]
  BY <1>1
<1>6. scale' = [s \in Scales |-> IF s \in SweptScales(unit', B)
                                THEN FinalStatus(counts'[s]) ELSE scale[s]]
  BY <1>1
<1>7. job' = ReconciledJob(scale', counts')
  BY <1>1
<1> USE <1>2
<1> WITNESS B \in SUBSET Units
<1> QED BY <1>3, <1>4, <1>5, <1>6, <1>7

\* The sweep recounts the baseline from its rows before it judges the job.
LEMMA BaselineSweep ==
  ASSUME TypeOK, BaselineInv, NEW w \in Workers, RecoverOrphans(w)
  PROVE  BaselineInv'
<1>1. PICK B \in SUBSET Units :
        LET S == SweptScales(unit', B)
        IN /\ B # {} /\ \A u \in B : unit[u] = "running"
           /\ \A u \in B : unit'[u] = "failed"
           /\ \A u \in Units \ B : unit'[u] = unit[u]
           /\ \A s \in Scales \ S : counts'[s] = counts[s] /\ scale'[s] = scale[s]
           /\ \A s \in Scales \cap S : /\ counts'[s] = RowCounts(unit', s)
                                     /\ scale'[s] = FinalStatus(counts'[s])
           /\ job' = ReconciledJob(scale', counts')
           /\ UNCHANGED <<stale, published, triggers, video, task, lease, pc,
                          partial, hfActive, run, crashes>>
  BY SweepShape
<1>2. SuccessIsPublished' /\ BaselineIsPlanned' /\ FinalizerHasBaseline'
      /\ (HasBaseline' <=> HasBaseline)
  BY <1>1 DEF BaselineInv, SuccessIsPublished, BaselineIsPlanned,
              FinalizerHasBaseline, HasBaseline, At
<1>3. /\ counts'[DEFAULT].succeeded > 0 => HasBaseline
      /\ counts'[DEFAULT].total > 0 \/ counts'[DEFAULT] = counts[DEFAULT]
      /\ counts'[DEFAULT].total > 0 \/ scale'[DEFAULT] = scale[DEFAULT]
  <2>1. CASE DEFAULT \in SweptScales(unit', B)
    <3>1. B \cap DefaultUnits # {}
      BY <2>1, ScalesKnown DEF SweptScales
    <3>2. \A u \in DefaultUnits : u \in B => unit'[u] = "failed"
      BY <1>1
    <3>3. \A u \in DefaultUnits : unit'[u] = "succeeded" => u \in published
      BY <1>1, <1>2, ScalesKnown DEF SuccessIsPublished
    <3>4. /\ RowCounts(unit', DEFAULT).total > 0
          /\ RowCounts(unit', DEFAULT).succeeded > 0 => HasBaseline
      BY <3>1, <3>2, <3>3, BaselineRows
    <3> QED BY <1>1, <2>1, <3>4, ScalesKnown
  <2>2. CASE DEFAULT \notin SweptScales(unit', B)
    BY <1>1, <2>2, ScalesKnown DEF BaselineInv, TerminalBaselineIsCounted
  <2> QED BY <2>1, <2>2
<1>4. /\ UNCHANGED <<task, pc>>
      /\ job' # job => job = "running"
      /\ job' \in {"succeeded", "partial_failed"} /\ job' # job =>
           /\ scale'[DEFAULT] \notin {"pending", "running"}
           /\ ~EmptyBaseline(counts'[DEFAULT])
  BY <1>1, ScalesKnown DEF ReconciledJob
<1>5. counts'[DEFAULT].succeeded \in Nat
  <2>1. TypeOK'
    BY RecoverOrphansType
  <2> QED BY <2>1, ScalesKnown DEF TypeOK
<1>6. TerminalBaselineIsCounted'
  BY <1>2, <1>3, <1>4 DEF BaselineInv, TerminalBaselineIsCounted, At
<1>7. UsableJobHasBaseline'
  <2> SUFFICES ASSUME job' \in {"succeeded", "partial_failed"} PROVE HasBaseline'
    BY DEF UsableJobHasBaseline, HasBaseline
  <2>1. CASE job' = job
    BY <1>2, <2>1 DEF BaselineInv, UsableJobHasBaseline, HasBaseline
  <2>2. CASE job' # job
    <3>1. counts'[DEFAULT].total > 0
      BY <1>4, <1>6, <2>2 DEF TerminalBaselineIsCounted
    <3> QED BY <1>2, <1>3, <1>4, <1>5, <2>2, <3>1 DEF EmptyBaseline
  <2> QED BY <2>1, <2>2
<1> QED BY <1>2, <1>6, <1>7 DEF BaselineInv

\* Every step keeps the baseline invariant, unless leases are lost and planning
\* fails in the same run: then two workers overlap and the invariant breaks.
LEMMA BaselineStep ==
  ASSUME "lease" \notin Faults \/ "plan" \notin Faults,
         TypeOK, LeaseProtectsJob, BaselineInv, [Next]_vars
  PROVE  BaselineInv'
<1>1. ASSUME UNCHANGED <<job, scale, counts, unit, published>>,
             task' = task \/ task \in {"queued", "running"},
             \A v \in Workers :
               \/ pc'[v] = pc[v] /\ run'[v] = run[v]
               \/ pc'[v] = "claimed" /\ run'[v] = run[v]
               \/ pc'[v] = "idle" /\ run'[v] = NoAttempts
      PROVE  BaselineInv'
  <2>1. SuccessIsPublished'
    BY <1>1 DEF BaselineInv, SuccessIsPublished, NoAttempts
  <2>2. BaselineIsPlanned'
    BY <1>1 DEF BaselineInv, BaselineIsPlanned, PlannedPhases
  <2>3. TerminalBaselineIsCounted' /\ FinalizerHasBaseline' /\ UsableJobHasBaseline'
    BY <1>1 DEF BaselineInv, TerminalBaselineIsCounted, FinalizerHasBaseline,
                UsableJobHasBaseline, HasBaseline, At
  <2> QED BY <2>1, <2>2, <2>3 DEF BaselineInv
<1>2. ASSUME NEW w \in Workers, Claim(w) PROVE BaselineInv'
  BY <1>1, <1>2 DEF Claim, Take, GoTo, TypeOK, locals
<1>3. ASSUME NEW w \in Workers, RefreshLease(w) PROVE BaselineInv'
  BY <1>1, <1>3 DEF RefreshLease, locals
<1>4. ASSUME NEW w \in Workers, Crash(w) PROVE BaselineInv'
  BY <1>1, <1>4 DEF Crash, TypeOK, db
<1>5. ASSUME (\E u \in Units : BecomeStale(u)) \/ LeaseExpires \/ UNCHANGED vars
      PROVE  BaselineInv'
  BY <1>1, <1>5 DEF BecomeStale, LeaseExpires, vars, locals
<1> QED BY <1>2, <1>3, <1>4, <1>5, BaselinePhase, BaselineUnit, BaselineSweep DEF Next

\* The baseline invariant holds in every reachable state.
LEMMA BaselineHolds ==
  ASSUME "lease" \notin Faults \/ "plan" \notin Faults
  PROVE  Spec => []BaselineInv
<1>1. Init => BaselineInv
  <2> SUFFICES ASSUME Init PROVE BaselineInv
    OBVIOUS
  <2>1. SuccessIsPublished /\ BaselineIsPlanned /\ FinalizerHasBaseline
        /\ UsableJobHasBaseline
    BY DEF Init, SuccessIsPublished, BaselineIsPlanned, FinalizerHasBaseline,
           UsableJobHasBaseline, NoAttempts, PlannedPhases, At
  <2>2. TerminalBaselineIsCounted
    BY ScalesKnown DEF Init, TerminalBaselineIsCounted, NoCounts, At
  <2> QED BY <2>1, <2>2 DEF BaselineInv
<1>2. TypeOK /\ LeaseProtectsJob /\ BaselineInv /\ [Next]_vars => BaselineInv'
  BY BaselineStep
<1> QED BY <1>1, <1>2, TypeCorrect, LeaseSafety, PTL DEF Spec

\* A job that a worker or the sweep reports usable has a baseline record,
\* whatever fails; also when leases are lost and several workers run the job,
\* as long as planning then never fails (_finalize_job, _reconcile_job).
THEOREM UsableJobs ==
  ASSUME "lease" \notin Faults \/ "plan" \notin Faults
  PROVE  Spec => []UsableJobHasBaseline
<1>1. BaselineInv => UsableJobHasBaseline
  BY DEF BaselineInv
<1> QED BY <1>1, BaselineHolds, PTL

-----------------------------------------------------------------------------
(* What a finished job says is true. *)

Terminal(status) == status \notin {"pending", "running"}
Settled(S) == \A u \in S : unit[u] \in Good

\* Phases that only a job with a motion scan has; phases after the motion scan
\* and after the decision on high_freq_event; phases of the unit pool.
MotionPhases ==
  {"motion_start", "motion_scan", "motion_finalize", "motion_failed",
   "has_triggers", "high_freq_skip", "high_freq_start", "high_freq_plan",
   "high_freq_failed"}
PastDecision ==
  {"default_start", "default_plan", "high_freq_start", "high_freq_plan",
   "dispatch", "reconcile", "finalize_scales", "finalize_job"}
PastMotion == PastDecision \cup {"has_triggers", "high_freq_skip", "high_freq_failed"}
PoolPhases == {"dispatch", "reconcile", "finalize_scales", "finalize_job"}

\* What a pass knows about the optional scales: the local any_partial and
\* high_freq_active remember what went wrong.
KnowsScales(w) ==
  /\ pc[w] \in MotionPhases => MOTION \in Scales
  /\ pc[w] \in PastMotion /\ MOTION \in Scales =>
       /\ Terminal(scale[MOTION])
       /\ w \notin partial => scale[MOTION] = "succeeded"
  /\ pc[w] \in PastDecision /\ MOTION \in Scales /\ w \notin hfActive =>
       /\ Terminal(scale[HIGHFREQ])
       /\ w \notin partial => scale[HIGHFREQ] = "skipped"
  /\ pc[w] \in {"motion_failed", "high_freq_failed"} => w \in partial
  /\ pc[w] \in {"high_freq_start", "high_freq_plan"} => w \in hfActive
  /\ At(w, "high_freq_failed") => w \notin hfActive
  /\ At(w, "high_freq_plan") => scale[HIGHFREQ] \notin {"pending", "skipped"}

\* What a pass knows about its units.
KnowsUnits(w) ==
  /\ pc[w] \in PoolPhases /\ w \in hfActive =>
       \A u \in HighFreqUnits : run[w][u] # "none"
  /\ \A u \in HighFreqUnits : run[w][u] # "none" =>
       MOTION \in Scales /\ scale[HIGHFREQ] \notin {"pending", "skipped"}
  /\ pc[w] \in PoolPhases \ {"dispatch"} => Joined(w)
  /\ \A u \in Units : run[w][u] \in Good => unit[u] = run[w][u]

\* What a pass knows when it writes the final statuses.
KnowsOutcome(w) ==
  /\ pc[w] \in {"finalize_scales", "finalize_job"} => UnitsWith("running") = {}
  /\ At(w, "finalize_job") =>
       \A s \in ScalesToFinalize(w) : scale[s] = FinalStatus(Tally(w, s))

PassInv(w) == KnowsScales(w) /\ KnowsUnits(w) /\ KnowsOutcome(w)

\* A scale says succeeded, skipped or nothing yet only of settled units.
ScalesAreHonest ==
  /\ scale[DEFAULT] = "succeeded" => Settled(DefaultUnits)
  /\ MOTION \in Scales /\ scale[HIGHFREQ] = "succeeded" => Settled(HighFreqUnits)
  /\ MOTION \notin Scales \/ scale[HIGHFREQ] \in {"pending", "skipped"} =>
       \A u \in HighFreqUnits : unit[u] = "none"

\* The job row is the last to be written.
JobIsHonest ==
  /\ scale[DEFAULT] # "skipped"
  /\ job = "succeeded" =>
       task = "succeeded" /\ \A s \in Scales : scale[s] \in Good

\* No counter claims more successes than rows and records show, at any time.
SuccessfulUnits(s) == {u \in UnitsOf(s) : unit[u] = "succeeded" /\ u \in published}
CountersHold ==
  \A s \in Scales \ {MOTION} :
    counts[s].succeeded <= Cardinality(SuccessfulUnits(s))

SettledInv ==
  /\ hfActive # {} => MOTION \in Scales
  /\ \A w \in Workers : Processing(w) => PassInv(w)
  /\ ScalesAreHonest
  /\ JobIsHonest
  /\ CountersHold
  /\ FinishedTaskIsSettled

\* What all steps of the proof start from.
Context ==
  /\ "lease" \notin Faults
  /\ TypeOK /\ LeaseProtectsJob /\ AttemptInv
  /\ SuccessIsPublished /\ BaselineIsPlanned
  /\ SettledInv

\* A tally or a recount that ends in success counts no failure.
LEMMA NoFailureCounted ==
  ASSUME NEW s, NEW f,
         FinalStatus([total |-> Cardinality({u \in UnitsOf(s) : f[u] # "none"}),
                      succeeded |-> Cardinality({u \in UnitsOf(s) : f[u] = "succeeded"}),
                      failed |-> Cardinality({u \in UnitsOf(s) : f[u] = "failed"})])
           = "succeeded"
  PROVE  \A u \in UnitsOf(s) : f[u] # "failed"
<1> DEFINE A == {u \in UnitsOf(s) : f[u] # "none"}
           B == {u \in UnitsOf(s) : f[u] = "succeeded"}
           C == {u \in UnitsOf(s) : f[u] = "failed"}
<1>1. /\ A \in SUBSET UnitsOf(s)
      /\ B \in SUBSET UnitsOf(s)
      /\ C \in SUBSET UnitsOf(s)
  OBVIOUS
<1>2. Cardinality(B) \in Nat /\ Cardinality(C) \in Nat
  BY <1>1, UnitsFinite
<1>3. ~(Cardinality(C) > 0)
  <2> DEFINE c == [total |-> Cardinality(A), succeeded |-> Cardinality(B),
                   failed |-> Cardinality(C)]
  <2>1. FinalStatus(c) = "succeeded"
    OBVIOUS
  <2>2. c.failed = Cardinality(C) /\ c.succeeded = Cardinality(B)
    OBVIOUS
  <2> HIDE DEF A, B, C, c
  <2> QED BY <1>2, <2>1, <2>2 DEF FinalStatus
<1>4. C = {}
  BY <1>1, <1>3, Counted
<1> QED BY <1>4

\* Successes only grow while succeeded units stay.
LEMMA SuccessesGrow ==
  ASSUME Context, [Next]_vars, published \subseteq published', NEW s \in Scales
  PROVE  /\ Cardinality(SuccessfulUnits(s)) <= Cardinality(SuccessfulUnits(s)')
         /\ Cardinality(SuccessfulUnits(s)') \in Nat
         /\ Cardinality(SuccessfulUnits(s)) \in Nat
<1>1. UnitsOf(s) \subseteq Units
  BY ScalesKnown
<1>2. \A u \in Units : unit[u] = "succeeded" => unit'[u] = "succeeded"
  BY GoodStays DEF Context, Good
<1>3. SuccessfulUnits(s) \subseteq SuccessfulUnits(s)'
  BY <1>1, <1>2 DEF SuccessfulUnits
<1>4. /\ SuccessfulUnits(s) \in SUBSET UnitsOf(s)
      /\ SuccessfulUnits(s)' \in SUBSET UnitsOf(s)
  BY DEF SuccessfulUnits
<1>5. /\ IsFiniteSet(SuccessfulUnits(s)') /\ Cardinality(SuccessfulUnits(s)') \in Nat
      /\ Cardinality(SuccessfulUnits(s)) \in Nat
  BY <1>4, UnitsFinite
<1> QED BY <1>3, <1>5, FS_Subset

\* Counters stay backed when each is kept or newly backed.
LEMMA CountersStay ==
  ASSUME Context, [Next]_vars, published \subseteq published', TypeOK',
         \A s \in Scales \ {MOTION} :
           \/ counts'[s] = counts[s]
           \/ counts'[s].succeeded <= Cardinality(SuccessfulUnits(s)')
  PROVE  CountersHold'
<1> SUFFICES ASSUME NEW s \in Scales \ {MOTION}
             PROVE  counts'[s].succeeded <= Cardinality(SuccessfulUnits(s)')
  BY DEF CountersHold, MOTION
<1>1. CASE counts'[s] = counts[s]
  <2>1. counts[s].succeeded <= Cardinality(SuccessfulUnits(s))
    BY DEF Context, SettledInv, CountersHold
  <2>2. counts[s].succeeded \in Nat
    BY DEF Context, TypeOK
  <2> QED BY <1>1, <2>1, <2>2, SuccessesGrow
<1> QED BY <1>1

\* While a worker is inside process_one it is alone, and the job is not done.
LEMMA ActingAlone ==
  ASSUME Context, NEW w \in Workers, Processing(w)
  PROVE  /\ \A v \in Workers : Processing(v) => v = w
         /\ task = "running" /\ job # "succeeded"
         /\ PassInv(w)
BY DEF Context, LeaseProtectsJob, SettledInv, JobIsHonest

\* How a control step changes the scales, the final writes of the pass aside.
LEMMA ScaleMoves ==
  ASSUME TypeOK, NEW w \in Workers, PhaseStep(w),
         FinalizeScales(w) => Escape(w), NEW s \in Scales \ {MOTION}
  PROVE  \/ scale'[s] = scale[s]
         \/ scale'[s] \in {"running", "failed"}
         \/ s = HIGHFREQ /\ scale'[s] = "skipped" /\ scale[s] \in {"pending", "skipped"}
<1> USE ScalesKnown DEF TypeOK, SetScale
<1>0. CASE Escape(w)
  BY <1>0 DEF Escape, db
<1>1. CASE ~Escape(w) /\ (MotionFailed(w) \/ HighFreqFailed(w))
  BY <1>1 DEF MotionFailed, HighFreqFailed, FailScale
<1>2. CASE ~Escape(w) /\ (MotionStart(w) \/ MotionScan(w) \/ MotionFinalize(w))
  BY <1>2 DEF MotionStart, MotionScan, MotionFinalize
<1>3. CASE ~Escape(w) /\ HighFreqSkip(w)
  BY <1>3 DEF HighFreqSkip, ScaleMayBecome, TaskEdges, TaskStatus
<1>4. CASE ~Escape(w) /\ (\/ MarkJobRunning(w) \/ HasTriggers(w) \/ DefaultPlan(w)
                          \/ HighFreqPlan(w) \/ Join(w)
                          \/ ReconcileRunningUnits(w) \/ FinalizeJob(w))
  BY <1>4 DEF MarkJobRunning, HasTriggers, DefaultPlan, HighFreqPlan, Join,
              ReconcileRunningUnits, FinalizeJob, db
<1>5. CASE ~Escape(w) /\ (DefaultStart(w) \/ HighFreqStart(w) \/ HandleRequiredFailure(w))
  BY <1>5 DEF DefaultStart, HighFreqStart, HandleRequiredFailure
<1> QED BY <1>0, <1>1, <1>2, <1>3, <1>4, <1>5 DEF PhaseStep

\* What a pass remembers about the optional scales.
LEMMA KnowsScalesStep ==
  ASSUME Context, NEW w \in Workers, PhaseStep(w), Processing(w)'
  PROVE  KnowsScales(w)'
<1>0. TypeOK /\ KnowsScales(w) /\ (hfActive # {} => MOTION \in Scales)
  BY PhaseStepShape, ActingAlone DEF Context, Processing, PassInv, SettledInv
<1>1. ~Leave(w) /\ ~Escape(w)
  <2>1. Leave(w) => pc'[w] = "idle"
    BY <1>0 DEF Leave, TypeOK
  <2> QED BY <2>1 DEF Processing, At, Escape
<1> USE <1>0, <1>1, ScalesKnown
    DEF KnowsScales, Terminal, At, GoTo, TypeOK, SetScale, MotionPhases,
        PastMotion, PastDecision
<1>2. CASE MarkJobRunning(w)
  BY <1>2 DEF MarkJobRunning
<1>3. CASE MotionStart(w)
  BY <1>3 DEF MotionStart
<1>4. CASE MotionScan(w)
  BY <1>4 DEF MotionScan
<1>5. CASE MotionFinalize(w)
  BY <1>5 DEF MotionFinalize
<1>6. CASE MotionFailed(w)
  BY <1>6 DEF MotionFailed, FailScale, locals
<1>7. CASE HasTriggers(w)
  BY <1>7 DEF HasTriggers, db
<1>8. CASE HighFreqSkip(w)
  BY <1>8 DEF HighFreqSkip, locals
<1>9. CASE DefaultStart(w)
  BY <1>9 DEF DefaultStart, locals
<1>10. CASE DefaultPlan(w)
  BY <1>10 DEF DefaultPlan, db
<1>11. CASE HighFreqStart(w)
  BY <1>11 DEF HighFreqStart
<1>12. CASE HighFreqPlan(w)
  BY <1>12 DEF HighFreqPlan, db
<1>13. CASE HighFreqFailed(w)
  BY <1>13 DEF HighFreqFailed, FailScale, locals
<1>14. CASE Join(w)
  BY <1>14 DEF Join, db, locals
<1>15. CASE ReconcileRunningUnits(w)
  BY <1>15 DEF ReconcileRunningUnits, locals
<1>16. CASE FinalizeScales(w)
  <2>1. /\ pc[w] = "finalize_scales" /\ UNCHANGED <<partial, hfActive>>
        /\ pc'[w] \in {"required_failure", "finalize_job"}
        /\ \A s \in Scales : s \notin ScalesToFinalize(w) => scale'[s] = scale[s]
    BY <1>16 DEF FinalizeScales, locals
  <2>2. MOTION \notin ScalesToFinalize(w)
        /\ (w \notin hfActive => HIGHFREQ \notin ScalesToFinalize(w))
    BY DEF ScalesToFinalize
  <2> QED BY <2>1, <2>2
<1>17. ~FinalizeJob(w) /\ ~HandleRequiredFailure(w)
  BY DEF FinalizeJob, HandleRequiredFailure
<1> QED BY <1>2, <1>3, <1>4, <1>5, <1>6, <1>7, <1>8, <1>9, <1>10, <1>11, <1>12,
           <1>13, <1>14, <1>15, <1>16, <1>17 DEF PhaseStep

\* How the attempts of w change with a control step: only by planning.
LEMMA AttemptsMove ==
  ASSUME TypeOK, NEW w \in Workers, PhaseStep(w), Processing(w)'
  PROVE  /\ \A u \in Units : run[w][u] # "none" => run'[w][u] # "none"
         /\ \A u \in Units : run'[w][u] \in Good => run'[w][u] = run[w][u]
         /\ run'[w] # run[w] => pc[w] \in {"default_plan", "high_freq_plan"}
         /\ \A u \in HighFreqUnits :
              run'[w][u] # run[w][u] => pc[w] = "high_freq_plan"
<1>1. ~Leave(w)
  BY DEF Leave, TypeOK, Processing, At
<1>2. Moves(w)
  BY <1>1, PhaseStepShape
<1>3. CASE UNCHANGED run
  BY <1>3
<1>4. CASE ~UNCHANGED run
  <2>1. \/ DefaultPlan(w) /\ Plan(w, DEFAULT)
        \/ HighFreqPlan(w) /\ Plan(w, HIGHFREQ)
    BY <1>1, <1>4
    DEF PhaseStep, MarkJobRunning, MotionStart, MotionScan, MotionFinalize,
        MotionFailed, FailScale, HasTriggers, HighFreqSkip, DefaultStart,
        DefaultPlan, HighFreqStart, HighFreqPlan, HighFreqFailed, Join,
        ReconcileRunningUnits, FinalizeScales, FinalizeJob,
        HandleRequiredFailure, Escape, locals
  <2>2. CASE DefaultPlan(w) /\ Plan(w, DEFAULT)
    <3>1. \A u \in Units : run'[w][u] = IF u \in DefaultUnits THEN "planned" ELSE run[w][u]
      BY <2>2, ScalesKnown DEF Plan, TypeOK
    <3>2. \A u \in HighFreqUnits : u \in Units /\ u \notin DefaultUnits
      BY ConstantsAssumption, ScalesKnown
    <3> QED BY <2>2, <3>1, <3>2 DEF DefaultPlan, At, Good
  <2>3. CASE HighFreqPlan(w) /\ Plan(w, HIGHFREQ)
    <3>1. \A u \in Units : run'[w][u] = IF u \in HighFreqUnits THEN "planned" ELSE run[w][u]
      BY <2>3, ScalesKnown DEF Plan, TypeOK
    <3> QED BY <2>3, <3>1 DEF HighFreqPlan, At, Good
  <2> QED BY <2>1, <2>2, <2>3
<1> QED BY <1>3, <1>4

\* What a pass knows about its units, and what it writes from it.
LEMMA KnowsUnitsStep ==
  ASSUME Context, NEW w \in Workers, PhaseStep(w), [Next]_vars, Processing(w)'
  PROVE  KnowsUnits(w)'
<1>0. /\ TypeOK /\ KnowsScales(w) /\ KnowsUnits(w)
  BY PhaseStepShape, ActingAlone DEF Context, Processing, PassInv
<1>1. ~Leave(w) /\ ~Escape(w)
  <2>1. Leave(w) => pc'[w] = "idle"
    BY <1>0 DEF Leave, TypeOK
  <2> QED BY <2>1 DEF Processing, At, Escape
<1>2. /\ \A u \in Units : run[w][u] # "none" => run'[w][u] # "none"
      /\ \A u \in Units : run'[w][u] \in Good => run'[w][u] = run[w][u]
      /\ run'[w] # run[w] => pc[w] \in {"default_plan", "high_freq_plan"}
      /\ \A u \in HighFreqUnits :
           run'[w][u] # run[w][u] => pc[w] = "high_freq_plan"
  BY <1>0, AttemptsMove
<1>3. \A u \in Units : run'[w][u] \in Good => unit'[u] = run'[w][u]
  BY <1>0, <1>2, GoodStays DEF Context, KnowsUnits
<1>4. \A u \in HighFreqUnits : run'[w][u] # "none" =>
        MOTION \in Scales /\ scale'[HIGHFREQ] \notin {"pending", "skipped"}
  <2> SUFFICES ASSUME NEW u \in HighFreqUnits, run'[w][u] # "none"
               PROVE  MOTION \in Scales /\ scale'[HIGHFREQ] \notin {"pending", "skipped"}
    OBVIOUS
  <2>1. MOTION \in Scales /\ scale[HIGHFREQ] \notin {"pending", "skipped"}
    <3>1. CASE run[w][u] # "none"
      BY <1>0, <3>1 DEF KnowsUnits
    <3>2. CASE run[w][u] = "none"
      BY <1>0, <1>2, <3>2 DEF KnowsScales, At, MotionPhases
    <3> QED BY <3>1, <3>2
  <2>2. CASE FinalizeScales(w)
    <3>1. scale'[HIGHFREQ] \in {scale[HIGHFREQ], FinalStatus(Tally(w, HIGHFREQ))}
      BY <1>1, <2>1, <2>2, ScalesKnown DEF FinalizeScales
    <3>2. FinalStatus(Tally(w, HIGHFREQ)) \in {"partial_failed", "failed", "succeeded"}
      BY CountersType, FinalStatusType
    <3> QED BY <2>1, <3>1, <3>2
  <2>3. CASE ~FinalizeScales(w)
    <3>1. HIGHFREQ \in Scales \ {MOTION}
      BY <2>1, ScalesKnown
    <3>2. \/ scale'[HIGHFREQ] = scale[HIGHFREQ]
          \/ scale'[HIGHFREQ] \in {"running", "failed"}
          \/ scale[HIGHFREQ] \in {"pending", "skipped"}
      BY <1>0, <2>3, <3>1, ScaleMoves
    <3> QED BY <2>1, <3>2
  <2> QED BY <2>2, <2>3
<1>5. pc'[w] \in PoolPhases \ {"dispatch"} => Joined(w)'
  <2>1. pc'[w] \in PoolPhases \ {"dispatch"} =>
          pc[w] \in PoolPhases /\ UNCHANGED run
    <3> USE <1>0, <1>1 DEF PoolPhases, GoTo, TypeOK, At
    <3>1. CASE MarkJobRunning(w) \/ MotionStart(w) \/ MotionScan(w) \/ MotionFinalize(w)
      BY <3>1 DEF MarkJobRunning, MotionStart, MotionScan, MotionFinalize
    <3>2. CASE MotionFailed(w) \/ HighFreqFailed(w) \/ HasTriggers(w) \/ HighFreqSkip(w)
      BY <3>2 DEF MotionFailed, HighFreqFailed, FailScale, HasTriggers, HighFreqSkip
    <3>3. CASE DefaultStart(w) \/ DefaultPlan(w) \/ HighFreqStart(w) \/ HighFreqPlan(w)
      BY <3>3 DEF DefaultStart, DefaultPlan, HighFreqStart, HighFreqPlan
    <3>4. CASE Join(w) \/ ReconcileRunningUnits(w) \/ FinalizeScales(w)
      BY <3>4 DEF Join, ReconcileRunningUnits, FinalizeScales, locals
    <3>5. ~FinalizeJob(w) /\ ~HandleRequiredFailure(w)
      BY DEF FinalizeJob, HandleRequiredFailure
    <3> QED BY <3>1, <3>2, <3>3, <3>4, <3>5 DEF PhaseStep
  <2>2. At(w, "dispatch") => Joined(w)
    BY PhaseStepShape
  <2> QED BY <1>0, <2>1, <2>2 DEF KnowsUnits, Joined, At
<1>6. pc'[w] \in PoolPhases /\ w \in hfActive' =>
        \A u \in HighFreqUnits : run'[w][u] # "none"
  <2> SUFFICES ASSUME pc'[w] \in PoolPhases, w \in hfActive', NEW u \in HighFreqUnits
               PROVE  run'[w][u] # "none"
    OBVIOUS
  <2>0. u \in Units
    BY ScalesKnown
  <2>1. CASE pc[w] \in PoolPhases
    <3>1. w \in hfActive
      <4> USE <1>0, <1>1, <2>1 DEF PoolPhases, TypeOK, At
      <4>1. CASE Join(w) \/ ReconcileRunningUnits(w) \/ FinalizeScales(w)
        BY <4>1 DEF Join, ReconcileRunningUnits, FinalizeScales, locals
      <4>2. ~FinalizeJob(w)
        BY DEF FinalizeJob
      <4> QED BY <4>1, <4>2
          DEF PhaseStep, MarkJobRunning, MotionStart, MotionScan, MotionFinalize,
              MotionFailed, HighFreqFailed, HasTriggers, HighFreqSkip, DefaultStart,
              DefaultPlan, HighFreqStart, HighFreqPlan, HandleRequiredFailure
    <3> QED BY <1>0, <1>2, <2>0, <2>1, <3>1 DEF KnowsUnits
  <2>2. CASE pc[w] \notin PoolPhases
    <3> USE <1>0, <1>1, <2>2 DEF PoolPhases, GoTo, TypeOK, At
    <3>1. CASE MarkJobRunning(w) \/ MotionStart(w) \/ MotionScan(w) \/ MotionFinalize(w)
      BY <3>1 DEF MarkJobRunning, MotionStart, MotionScan, MotionFinalize
    <3>2. CASE MotionFailed(w) \/ HasTriggers(w) \/ HighFreqSkip(w)
      BY <3>2 DEF MotionFailed, FailScale, HasTriggers, HighFreqSkip
    <3>3. CASE HighFreqFailed(w)
      BY <3>3 DEF HighFreqFailed, FailScale, locals, KnowsScales
    <3>4. CASE DefaultStart(w) \/ DefaultPlan(w) \/ HighFreqStart(w)
      BY <3>4 DEF DefaultStart, DefaultPlan, HighFreqStart
    <3>5. CASE HighFreqPlan(w)
      <4>1. Plan(w, HIGHFREQ)
        BY <3>5 DEF HighFreqPlan
      <4> QED BY <4>1, <2>0, ScalesKnown DEF Plan
    <3>6. CASE Join(w) \/ ReconcileRunningUnits(w) \/ FinalizeScales(w)
      BY <3>6 DEF Join, ReconcileRunningUnits, FinalizeScales
    <3>7. ~FinalizeJob(w) /\ ~HandleRequiredFailure(w)
      BY DEF FinalizeJob, HandleRequiredFailure
    <3> QED BY <3>1, <3>2, <3>3, <3>4, <3>5, <3>6, <3>7 DEF PhaseStep
  <2> QED BY <2>1, <2>2
<1> QED BY <1>3, <1>4, <1>5, <1>6 DEF KnowsUnits

\* After Phase 4.5 no row is running, and Phase 5 writes what Phase 6 reads.
LEMMA KnowsOutcomeStep ==
  ASSUME Context, NEW w \in Workers, PhaseStep(w), Processing(w)'
  PROVE  KnowsOutcome(w)'
<1>0. TypeOK /\ KnowsOutcome(w)
  BY PhaseStepShape, ActingAlone DEF Context, Processing, PassInv
<1>1. ~Leave(w) /\ ~Escape(w)
  <2>1. Leave(w) => pc'[w] = "idle"
    BY <1>0 DEF Leave, TypeOK
  <2> QED BY <2>1 DEF Processing, At, Escape
<1>2. CASE ReconcileRunningUnits(w)
  <2>1. pc'[w] = "finalize_scales" /\ \A u \in Units : unit'[u] # "running"
    BY <1>0, <1>2 DEF ReconcileRunningUnits, GoTo, TypeOK
  <2> QED BY <2>1 DEF KnowsOutcome, UnitsWith, At
<1>3. CASE FinalizeScales(w)
  <2>1. /\ At(w, "finalize_scales") /\ UNCHANGED <<unit, run, hfActive>>
        /\ \A s \in Scales : s \in ScalesToFinalize(w) =>
             scale'[s] = FinalStatus(Tally(w, s))
    BY <1>1, <1>3 DEF FinalizeScales, locals
  <2>2. UnitsWith("running")' = {}
    BY <1>0, <2>1 DEF KnowsOutcome, UnitsWith, At
  <2>3. ScalesToFinalize(w)' = ScalesToFinalize(w)
        /\ \A s : Tally(w, s)' = Tally(w, s)
    BY <2>1 DEF ScalesToFinalize, Tally
  <2>4. \A s \in ScalesToFinalize(w) : s \in Scales
    BY ScalesKnown DEF ScalesToFinalize, Context, SettledInv
  <2> QED BY <2>1, <2>2, <2>3, <2>4 DEF KnowsOutcome
<1>4. CASE ~ReconcileRunningUnits(w) /\ ~FinalizeScales(w)
  <2>1. pc'[w] \notin {"finalize_scales", "finalize_job"}
    <3> USE <1>0, <1>1, <1>4 DEF GoTo, TypeOK, At
    <3>1. CASE MarkJobRunning(w) \/ MotionStart(w) \/ MotionScan(w) \/ MotionFinalize(w)
      BY <3>1 DEF MarkJobRunning, MotionStart, MotionScan, MotionFinalize
    <3>2. CASE MotionFailed(w) \/ HighFreqFailed(w) \/ HasTriggers(w) \/ HighFreqSkip(w)
      BY <3>2 DEF MotionFailed, HighFreqFailed, FailScale, HasTriggers, HighFreqSkip
    <3>3. CASE DefaultStart(w) \/ DefaultPlan(w) \/ HighFreqStart(w) \/ HighFreqPlan(w)
      BY <3>3 DEF DefaultStart, DefaultPlan, HighFreqStart, HighFreqPlan
    <3>4. CASE Join(w)
      BY <3>4 DEF Join
    <3>5. ~FinalizeJob(w) /\ ~HandleRequiredFailure(w)
      BY DEF FinalizeJob, HandleRequiredFailure
    <3> QED BY <3>1, <3>2, <3>3, <3>4, <3>5 DEF PhaseStep
  <2> QED BY <2>1 DEF KnowsOutcome, At
<1> QED BY <1>2, <1>3, <1>4

\* A scale that a pass finalizes as succeeded has only settled units.
LEMMA FinalizedIsSettled ==
  ASSUME Context, NEW w \in Workers, At(w, "finalize_scales") \/ At(w, "finalize_job"),
         NEW s \in ScalesToFinalize(w), FinalStatus(Tally(w, s)) = "succeeded"
  PROVE  Settled(UnitsOf(s))
<1>0. TypeOK /\ KnowsUnits(w) /\ Joined(w)
  <2>1. PassInv(w)
    BY DEF Context, SettledInv, Processing, At
  <2> QED BY <2>1 DEF Context, PassInv, KnowsUnits, PoolPhases, At
<1>1. \A u \in UnitsOf(s) : run[w][u] # "none"
  BY <1>0, ScalesKnown
  DEF ScalesToFinalize, KnowsUnits, PoolPhases, At, Context, BaselineIsPlanned,
      PlannedPhases
<1>2. UnitsOf(s) \subseteq Units
  BY ScalesKnown DEF ScalesToFinalize
<1>3. \A u \in UnitsOf(s) : run[w][u] # "failed"
  BY NoFailureCounted DEF Tally
<1>4. \A u \in UnitsOf(s) : run[w][u] \in Good
  BY <1>0, <1>1, <1>2, <1>3 DEF Joined, Outcome, Good
<1> QED BY <1>0, <1>2, <1>4 DEF KnowsUnits, Settled

\* The scales stay honest through the control steps of a worker.
LEMMA HonestPhase ==
  ASSUME Context, NEW w \in Workers, PhaseStep(w), [Next]_vars
  PROVE  ScalesAreHonest' /\ scale'[DEFAULT] # "skipped"
<1>0. /\ TypeOK /\ ScalesAreHonest /\ scale[DEFAULT] # "skipped"
  BY DEF Context, SettledInv, JobIsHonest
<1>1. \A S \in SUBSET Units : Settled(S) => Settled(S)'
  BY GoodStays DEF Context, Settled
<1>2. \A u \in Units : unit[u] = "none" => unit'[u] = "none"
  BY PhaseStepShape DEF FailsRunning
<1>3. DefaultUnits \in SUBSET Units /\ HighFreqUnits \in SUBSET Units
  BY ScalesKnown
<1>4. CASE FinalizeScales(w) /\ ~Escape(w)
  <2>1. /\ At(w, "finalize_scales")
        /\ \A s \in Scales : scale'[s] = IF s \in ScalesToFinalize(w)
                                       THEN FinalStatus(Tally(w, s)) ELSE scale[s]
    BY <1>4 DEF FinalizeScales
  <2>2. \A s : FinalStatus(Tally(w, s)) \in {"partial_failed", "failed", "succeeded"}
    BY CountersType, FinalStatusType
  <2>3. \A s \in ScalesToFinalize(w) :
          FinalStatus(Tally(w, s)) = "succeeded" => Settled(UnitsOf(s))
    BY <2>1, FinalizedIsSettled
  <2>4. scale'[DEFAULT] = "succeeded" => Settled(DefaultUnits)
    BY <1>0, <2>1, <2>3, ScalesKnown DEF ScalesAreHonest
  <2>5. MOTION \in Scales /\ scale'[HIGHFREQ] = "succeeded" => Settled(HighFreqUnits)
    BY <1>0, <2>1, <2>3, ScalesKnown DEF ScalesAreHonest
  <2>6. MOTION \in Scales /\ scale'[HIGHFREQ] \in {"pending", "skipped"} =>
          scale[HIGHFREQ] \in {"pending", "skipped"}
    BY <2>1, <2>2, ScalesKnown
  <2>7. scale'[DEFAULT] # "skipped"
    BY <1>0, <2>1, <2>2, ScalesKnown
  <2> QED BY <1>0, <1>1, <1>2, <1>3, <2>4, <2>5, <2>6, <2>7 DEF ScalesAreHonest
<1>5. CASE FinalizeScales(w) => Escape(w)
  <2>1. \/ scale'[DEFAULT] = scale[DEFAULT]
        \/ scale'[DEFAULT] \in {"running", "failed"}
    BY <1>0, <1>5, ScaleMoves, ScalesKnown
  <2>2. MOTION \in Scales =>
          \/ scale'[HIGHFREQ] = scale[HIGHFREQ]
          \/ scale'[HIGHFREQ] \in {"running", "failed"}
          \/ scale'[HIGHFREQ] = "skipped" /\ scale[HIGHFREQ] \in {"pending", "skipped"}
    BY <1>0, <1>5, ScaleMoves, ScalesKnown
  <2> QED BY <1>0, <1>1, <1>2, <1>3, <2>1, <2>2 DEF ScalesAreHonest
<1> QED BY <1>4, <1>5

\* The job row through the control steps of a worker.
LEMMA JobPhase ==
  ASSUME Context, NEW w \in Workers, PhaseStep(w)
  PROVE  /\ job' = "succeeded" =>
              task' = "succeeded" /\ \A s \in Scales : scale'[s] \in Good
         /\ FinishedTaskIsSettled'
<1>0. /\ TypeOK /\ PassInv(w) /\ task = "running" /\ job # "succeeded"
  BY PhaseStepShape, ActingAlone DEF Context, Processing
<1>1. CASE FinalizeJob(w) /\ ~Escape(w)
  <2> DEFINE final == IF AnyPartial(w) THEN "partial_failed" ELSE "succeeded"
  <2>1. /\ At(w, "finalize_job") /\ job' = final /\ video' = "ready"
        /\ task' = "succeeded" /\ UNCHANGED <<scale, unit>>
    BY <1>1 DEF FinalizeJob, MarkTaskSucceeded
  <2>2. \A s \in ScalesToFinalize(w) : scale[s] = FinalStatus(Tally(w, s))
    BY <1>0, <2>1 DEF PassInv, KnowsOutcome
  <2>3. \A s : /\ FinalStatus(Tally(w, s)) \in {"partial_failed", "failed", "succeeded"}
               /\ ~(Tally(w, s).failed > 0) => FinalStatus(Tally(w, s)) = "succeeded"
    <3>1. \A s : FinalStatus(Tally(w, s)) \in {"partial_failed", "failed", "succeeded"}
      BY CountersType, FinalStatusType
    <3>2. \A c : ~(c.failed > 0) => FinalStatus(c) = "succeeded"
      BY DEF FinalStatus
    <3> QED BY <3>1, <3>2
  <2>4. MOTION \in Scales =>
          /\ Terminal(scale[MOTION])
          /\ w \notin partial => scale[MOTION] = "succeeded"
    BY <1>0, <2>1 DEF PassInv, KnowsScales, PastMotion, PastDecision, At
  <2>5. MOTION \in Scales /\ w \notin hfActive =>
          /\ Terminal(scale[HIGHFREQ])
          /\ w \notin partial => scale[HIGHFREQ] = "skipped"
    BY <1>0, <2>1 DEF PassInv, KnowsScales, PastDecision, At
  <2>6. DEFAULT \in ScalesToFinalize(w)
        /\ (w \in hfActive => HIGHFREQ \in ScalesToFinalize(w))
    BY DEF ScalesToFinalize
  <2>a. ASSUME NEW s \in ScalesToFinalize(w)
        PROVE  /\ Terminal(scale[s])
               /\ ~AnyPartial(w) => scale[s] \in Good
    <3>1. scale[s] \in {"partial_failed", "failed", "succeeded"}
      BY <2>2, <2>3
    <3>2. ~AnyPartial(w) => scale[s] = "succeeded"
      BY <2>2, <2>3 DEF AnyPartial
    <3> QED BY <3>1, <3>2 DEF Terminal, Good
  <2>b. ASSUME NEW s \in Scales
        PROVE  /\ Terminal(scale[s])
               /\ ~AnyPartial(w) => scale[s] \in Good
    <3>1. CASE s \in ScalesToFinalize(w)
      BY <2>a, <3>1
    <3>2. CASE s \notin ScalesToFinalize(w)
      <4>1. s = MOTION \/ (s = HIGHFREQ /\ w \notin hfActive)
        BY <2>6, <3>2, ScalesKnown
      <4>2. ~AnyPartial(w) => w \notin partial
        BY DEF AnyPartial
      <4>3. CASE s = MOTION
        BY <2>4, <4>2, <4>3 DEF Good
      <4>4. CASE s = HIGHFREQ /\ w \notin hfActive
        <5>1. MOTION \in Scales
          BY <4>4, ScalesKnown
        <5> QED BY <2>5, <4>2, <4>4, <5>1 DEF Good
      <4> QED BY <4>1, <4>3, <4>4
    <3> QED BY <3>1, <3>2
  <2>7. \A s \in Scales : Terminal(scale[s])
    BY <2>b
  <2>8. ~AnyPartial(w) => \A s \in Scales : scale[s] \in Good
    BY <2>b
  <2>9. UnitsWith("running")' = {}
    BY <1>0, <2>1 DEF PassInv, KnowsOutcome, UnitsWith, At
  <2> QED BY <2>1, <2>7, <2>8, <2>9 DEF FinishedTaskIsSettled, Terminal
<1>2. CASE ~(FinalizeJob(w) /\ ~Escape(w))
  <2>1. job' # "succeeded" /\ task' # "succeeded"
    <3>1. CASE Escape(w)
      BY <1>0, <3>1 DEF Escape, db
    <3>2. CASE HandleRequiredFailure(w) /\ ~Escape(w)
      BY <3>2 DEF HandleRequiredFailure, MarkTaskFailed
    <3>3. CASE ~Escape(w) /\ ~HandleRequiredFailure(w)
      <4> USE <1>0, <1>2, <3>3 DEF db
      <4>1. CASE MarkJobRunning(w) \/ MotionStart(w) \/ MotionScan(w) \/ MotionFinalize(w)
        BY <4>1 DEF MarkJobRunning, MotionStart, MotionScan, MotionFinalize
      <4>2. CASE MotionFailed(w) \/ HighFreqFailed(w) \/ HasTriggers(w) \/ HighFreqSkip(w)
        BY <4>2 DEF MotionFailed, HighFreqFailed, FailScale, HasTriggers, HighFreqSkip
      <4>3. CASE DefaultStart(w) \/ DefaultPlan(w) \/ HighFreqStart(w) \/ HighFreqPlan(w)
        BY <4>3 DEF DefaultStart, DefaultPlan, HighFreqStart, HighFreqPlan
      <4>4. CASE Join(w) \/ ReconcileRunningUnits(w) \/ FinalizeScales(w)
        BY <4>4 DEF Join, ReconcileRunningUnits, FinalizeScales
      <4> QED BY <4>1, <4>2, <4>3, <4>4 DEF PhaseStep
    <3> QED BY <3>1, <3>2, <3>3
  <2> QED BY <2>1 DEF FinishedTaskIsSettled
<1> QED BY <1>1, <1>2

\* The counters through the control steps of a worker.
LEMMA CountersPhase ==
  ASSUME Context, NEW w \in Workers, PhaseStep(w), [Next]_vars
  PROVE  CountersHold'
<1>0. TypeOK /\ TypeOK' /\ UNCHANGED published
  BY PhaseStepType, PhaseStepKeeps DEF Context
<1>1. CASE FinalizeScales(w) /\ ~Escape(w)
  <2> SUFFICES ASSUME NEW s \in Scales \ {MOTION}
               PROVE  \/ counts'[s] = counts[s]
                      \/ counts'[s].succeeded <= Cardinality(SuccessfulUnits(s)')
    BY <1>0, CountersStay
  <2>1. /\ At(w, "finalize_scales") /\ UNCHANGED unit
        /\ counts'[s] = IF s \in ScalesToFinalize(w) THEN Tally(w, s) ELSE counts[s]
    BY <1>1 DEF FinalizeScales
  <2> DEFINE T == {u \in UnitsOf(s) : run[w][u] = "succeeded"}
  <2>2. T \subseteq SuccessfulUnits(s)'
    <3>1. KnowsUnits(w)
      BY <2>1 DEF Context, SettledInv, PassInv, Processing, At
    <3>2. UnitsOf(s) \subseteq Units
      BY ScalesKnown
    <3>3. \A u \in T : unit[u] = "succeeded" /\ u \in published
      BY <3>1, <3>2 DEF KnowsUnits, Good, Context, SuccessIsPublished
    <3> QED BY <1>0, <2>1, <3>3 DEF SuccessfulUnits
  <2>3. SuccessfulUnits(s)' \in SUBSET UnitsOf(s)
    BY DEF SuccessfulUnits
  <2>4. Cardinality(T) <= Cardinality(SuccessfulUnits(s)')
    <3>1. IsFiniteSet(SuccessfulUnits(s)')
      BY <2>3, UnitsFinite
    <3> HIDE DEF T
    <3> QED BY <2>2, <3>1, FS_Subset
  <2>5. Tally(w, s).succeeded = Cardinality(T)
    BY DEF Tally
  <2> QED BY <2>1, <2>4, <2>5
<1>2. CASE ~(FinalizeScales(w) /\ ~Escape(w))
  <2>1. UNCHANGED counts
    <3>1. CASE Escape(w)
      BY <3>1 DEF Escape, db
    <3>2. CASE ~Escape(w)
      <4> USE <1>2, <3>2 DEF db
      <4>1. CASE MarkJobRunning(w) \/ MotionStart(w) \/ MotionScan(w) \/ MotionFinalize(w)
        BY <4>1 DEF MarkJobRunning, MotionStart, MotionScan, MotionFinalize
      <4>2. CASE MotionFailed(w) \/ HighFreqFailed(w) \/ HasTriggers(w) \/ HighFreqSkip(w)
        BY <4>2 DEF MotionFailed, HighFreqFailed, FailScale, HasTriggers, HighFreqSkip
      <4>3. CASE DefaultStart(w) \/ DefaultPlan(w) \/ HighFreqStart(w) \/ HighFreqPlan(w)
        BY <4>3 DEF DefaultStart, DefaultPlan, HighFreqStart, HighFreqPlan
      <4>4. CASE Join(w) \/ ReconcileRunningUnits(w) \/ FinalizeJob(w)
                 \/ HandleRequiredFailure(w)
        BY <4>4 DEF Join, ReconcileRunningUnits, FinalizeJob, HandleRequiredFailure
      <4> QED BY <4>1, <4>2, <4>3, <4>4 DEF PhaseStep
    <3> QED BY <3>1, <3>2
  <2> QED BY <1>0, <2>1, CountersStay
<1> QED BY <1>1, <1>2

\* A step of a worker's pass keeps the invariant of settled rows.
LEMMA SettledPhase ==
  ASSUME Context, NEW w \in Workers, PhaseStep(w), [Next]_vars
  PROVE  SettledInv'
<1>1. /\ TypeOK /\ Processing(w) /\ \A v \in Workers : Processing(v) => v = w
  BY PhaseStepShape, ActingAlone DEF Context, Processing
<1>2. ASSUME NEW v \in Workers, Processing(v)' PROVE PassInv(v)'
  <2>1. v = w
    BY <1>1, <1>2, PhaseStepFrame DEF Processing, At
  <2> QED BY <1>2, <2>1, KnowsScalesStep, KnowsUnitsStep, KnowsOutcomeStep DEF PassInv
<1>3. hfActive' # {} => MOTION \in Scales
  <2>1. PassInv(w) /\ (hfActive # {} => MOTION \in Scales)
    BY <1>1 DEF Context, SettledInv
  <2>2. CASE HasTriggers(w)
    BY <2>1, <2>2 DEF HasTriggers, PassInv, KnowsScales, MotionPhases, At
  <2>3. CASE ~HasTriggers(w)
    <3>1. hfActive' \subseteq hfActive
      BY <2>3
      DEF PhaseStep, MarkJobRunning, MotionStart, MotionScan, MotionFinalize,
          MotionFailed, FailScale, HighFreqSkip, DefaultStart, DefaultPlan,
          HighFreqStart, HighFreqPlan, HighFreqFailed, Join,
          ReconcileRunningUnits, FinalizeScales, FinalizeJob,
          HandleRequiredFailure, Escape, Leave, locals
    <3> QED BY <2>1, <3>1
  <2> QED BY <2>2, <2>3
<1> QED BY <1>2, <1>3, HonestPhase, JobPhase, CountersPhase DEF SettledInv, JobIsHonest

\* A unit step settles one row, under a worker that is alone.
LEMMA SettledUnit ==
  ASSUME Context, NEW w \in Workers, NEW u \in Units, UnitStep(w, u), [Next]_vars
  PROVE  SettledInv'
<1>0. TypeOK /\ TypeOK'
  BY UnitStepType DEF Context
<1>1. /\ At(w, "dispatch") /\ run[w][u] # "none" /\ run'[w][u] # "none"
      /\ UNCHANGED <<job, scale, counts, task, pc>> /\ published \subseteq published'
  BY <1>0, UnitStepFrame, UnitStepPublishes DEF Context, AttemptInv
<1>2. /\ Processing(w) /\ \A v \in Workers : Processing(v) => v = w
      /\ task = "running" /\ job # "succeeded" /\ PassInv(w)
  <2>1. Processing(w)
    BY <1>1 DEF Processing, At
  <2> QED BY <2>1, ActingAlone
<1>3. /\ UNCHANGED <<partial, hfActive>>
      /\ run'[w][u] \in Good => unit'[u] = run'[w][u]
  <2> USE <1>0 DEF TypeOK, EndUnit, Good
  <2>1. CASE UnitStart(w, u)
    BY <2>1 DEF UnitStart, BeginUnit
  <2>2. CASE UnitStartFails(w, u)
    BY <2>2 DEF UnitStartFails
  <2>3. CASE UnitSucceeds(w, u)
    BY <2>3 DEF UnitSucceeds
  <2>4. CASE UnitFails(w, u) \/ UnitWriteLost(w, u)
    BY <2>4 DEF UnitFails, UnitWriteLost
  <2>5. CASE UnitSkipped(w, u)
    BY <2>5 DEF UnitSkipped
  <2> QED BY <2>1, <2>2, <2>3, <2>4, <2>5 DEF UnitStep
<1>4. \A x \in Units : x # u => unit'[x] = unit[x] /\ run'[w][x] = run[w][x]
  BY <1>0, UnitStepFrame
<1>5. PassInv(w)'
  <2>1. KnowsScales(w)'
    BY <1>1, <1>2, <1>3 DEF PassInv, KnowsScales, At
  <2>2. KnowsUnits(w)'
    <3>1. \A x \in Units : run[w][x] # "none" <=> run'[w][x] # "none"
      BY <1>1, <1>4
    <3>2. \A x \in Units : run'[w][x] \in Good => unit'[x] = run'[w][x]
      BY <1>2, <1>3, <1>4 DEF PassInv, KnowsUnits
    <3> QED BY <1>1, <1>2, <1>3, <3>1, <3>2, ScalesKnown
        DEF PassInv, KnowsUnits, At
  <2>3. KnowsOutcome(w)'
    BY <1>1 DEF KnowsOutcome, At
  <2> QED BY <2>1, <2>2, <2>3 DEF PassInv
<1>6. \A v \in Workers : Processing(v)' => PassInv(v)'
  BY <1>1, <1>2, <1>5 DEF Processing, At
<1>7. ScalesAreHonest'
  <2>1. \A S \in SUBSET Units : Settled(S) => Settled(S)'
    BY GoodStays DEF Context, Settled
  <2>2. u \in HighFreqUnits =>
          MOTION \in Scales /\ scale[HIGHFREQ] \notin {"pending", "skipped"}
    BY <1>1, <1>2 DEF PassInv, KnowsUnits
  <2> QED BY <1>1, <1>4, <2>1, <2>2, ScalesKnown
      DEF Context, SettledInv, ScalesAreHonest
<1>8. CountersHold'
  BY <1>0, <1>1, CountersStay
<1>9. JobIsHonest' /\ FinishedTaskIsSettled'
  BY <1>1, <1>2 DEF Context, SettledInv, JobIsHonest, FinishedTaskIsSettled
<1> QED BY <1>3, <1>6, <1>7, <1>8, <1>9 DEF Context, SettledInv

\* The sweep fails running rows only; so it never meets a finished pass, never
\* finds a scale succeeded, and never calls the job succeeded.
LEMMA SettledSweep ==
  ASSUME Context, NEW x \in Workers, RecoverOrphans(x), [Next]_vars
  PROVE  SettledInv'
<1>0. TypeOK /\ TypeOK' /\ SettledInv
  BY RecoverOrphansType DEF Context
<1>1. PICK B \in SUBSET Units :
        LET S == SweptScales(unit', B)
        IN /\ B # {} /\ \A u \in B : unit[u] = "running"
           /\ \A u \in B : unit'[u] = "failed"
           /\ \A u \in Units \ B : unit'[u] = unit[u]
           /\ \A s \in Scales \ S : counts'[s] = counts[s] /\ scale'[s] = scale[s]
           /\ \A s \in Scales \cap S : /\ counts'[s] = RowCounts(unit', s)
                                     /\ scale'[s] = FinalStatus(counts'[s])
           /\ job' = ReconciledJob(scale', counts')
           /\ UNCHANGED <<stale, published, triggers, video, task, lease, pc,
                          partial, hfActive, run, crashes>>
  BY <1>0, SweepShape
<1>2. ASSUME NEW s \in Scales
      PROVE  \/ scale'[s] = scale[s] /\ counts'[s] = counts[s]
             \/ /\ scale[s] = "running" /\ scale'[s] \in {"failed", "partial_failed"}
                /\ counts'[s] = RowCounts(unit', s) /\ s # MOTION
  <2>1. CASE s \notin SweptScales(unit', B)
    BY <1>1, <2>1
  <2>2. CASE s \in SweptScales(unit', B)
    <3>1. /\ scale[s] = "running" /\ UnitsOf(s) \cap B # {}
          /\ scale'[s] = FinalStatus(RowCounts(unit', s))
          /\ counts'[s] = RowCounts(unit', s)
      BY <1>1, <2>2 DEF SweptScales
    <3>2. s # MOTION
      BY <3>1, ScalesKnown
    <3>3. FinalStatus(RowCounts(unit', s)) \in {"partial_failed", "failed", "succeeded"}
      BY CountersType, FinalStatusType
    <3>4. FinalStatus(RowCounts(unit', s)) = "succeeded" =>
            \A u \in UnitsOf(s) : unit'[u] # "failed"
      BY NoFailureCounted DEF RowCounts
    <3>5. FinalStatus(RowCounts(unit', s)) # "succeeded"
      BY <1>1, <3>1, <3>4
    <3> QED BY <3>1, <3>2, <3>3, <3>5
  <2> QED BY <2>1, <2>2
<1>3. UnitsWith("running") # {}
  BY <1>1 DEF UnitsWith
<1>4. ASSUME NEW v \in Workers, Processing(v)' PROVE PassInv(v)'
  <2>0. PassInv(v) /\ Processing(v)
    BY <1>0, <1>1, <1>4 DEF SettledInv, Processing, At
  <2>1. KnowsScales(v)'
    <3>1. MOTION \in Scales => scale'[MOTION] = scale[MOTION]
      BY <1>2
    <3>2. MOTION \in Scales =>
            \/ scale'[HIGHFREQ] = scale[HIGHFREQ]
            \/ /\ scale[HIGHFREQ] = "running"
               /\ scale'[HIGHFREQ] \in {"failed", "partial_failed"}
      BY <1>2, ScalesKnown
    <3> QED BY <1>1, <2>0, <3>1, <3>2
        DEF PassInv, KnowsScales, Terminal, At, MotionPhases
  <2>2. KnowsUnits(v)'
    <3>1. \A u \in Units : run[v][u] \in Good => unit'[u] = run'[v][u]
      BY <1>1, <2>0, GoodStays DEF Context, PassInv, KnowsUnits
    <3>2. MOTION \in Scales /\ scale[HIGHFREQ] \notin {"pending", "skipped"} =>
            scale'[HIGHFREQ] \notin {"pending", "skipped"}
      BY <1>2, ScalesKnown
    <3> QED BY <1>1, <2>0, <3>1, <3>2 DEF PassInv, KnowsUnits, Joined
  <2>3. KnowsOutcome(v)'
    <3>1. pc[v] \notin {"finalize_scales", "finalize_job"}
      BY <1>3, <2>0 DEF PassInv, KnowsOutcome
    <3> QED BY <1>1, <3>1 DEF KnowsOutcome, At
  <2> QED BY <2>1, <2>2, <2>3 DEF PassInv
<1>5. ScalesAreHonest' /\ scale'[DEFAULT] # "skipped"
  <2>1. \A S \in SUBSET Units : Settled(S) => Settled(S)'
    BY GoodStays DEF Context, Settled
  <2>2. \A u \in Units : unit[u] = "none" => unit'[u] = "none"
    BY <1>1
  <2>3. scale'[DEFAULT] = scale[DEFAULT] \/ scale'[DEFAULT] \in {"failed", "partial_failed"}
    BY <1>2, ScalesKnown
  <2>4. MOTION \in Scales =>
          scale'[HIGHFREQ] = scale[HIGHFREQ] \/ scale'[HIGHFREQ] \in {"failed", "partial_failed"}
    BY <1>2, ScalesKnown
  <2> QED BY <1>0, <2>1, <2>2, <2>3, <2>4, ScalesKnown
      DEF SettledInv, ScalesAreHonest, JobIsHonest
<1>6. job' # "succeeded" /\ task' # "succeeded"
  <2>1. task' # "succeeded" /\ task = task'
    BY <1>0, <1>1, <1>3 DEF SettledInv, FinishedTaskIsSettled
  <2>2. ASSUME job' = "succeeded" PROVE FALSE
    <3>1. job # "succeeded"
      BY <1>0, <2>1 DEF SettledInv, JobIsHonest
    <3>2. \A s \in Scales : scale'[s] \notin {"pending", "running", "failed", "partial_failed"}
      BY <1>1, <2>2, <3>1 DEF ReconciledJob
    <3>3. \A s \in Scales : scale'[s] = scale[s]
      BY <1>2, <3>2
    <3>4. PICK u \in B : unit[u] = "running"
      BY <1>1
    <3>5. scale[DEFAULT] = "succeeded"
      <4>1. scale[DEFAULT] \in TaskStatus /\ scale[DEFAULT] # "skipped"
        BY <1>0, ScalesKnown DEF SettledInv, JobIsHonest, TypeOK
      <4> QED BY <3>2, <3>3, <4>1, ScalesKnown DEF TaskStatus
    <3>6. u \in HighFreqUnits
      BY <1>0, <3>4, <3>5 DEF SettledInv, ScalesAreHonest, Settled, Good, Units
    <3>7. MOTION \in Scales /\ scale[HIGHFREQ] \notin {"pending", "skipped"}
      BY <1>0, <3>4, <3>6 DEF SettledInv, ScalesAreHonest
    <3>8. scale[HIGHFREQ] = "succeeded"
      <4>1. scale[HIGHFREQ] \in TaskStatus
        BY <1>0, <3>7, ScalesKnown DEF TypeOK
      <4> QED BY <3>2, <3>3, <3>7, <4>1, ScalesKnown DEF TaskStatus
    <3> QED BY <1>0, <3>4, <3>6, <3>7, <3>8 DEF SettledInv, ScalesAreHonest, Settled, Good
  <2> QED BY <2>1, <2>2
<1>7. CountersHold'
  <2> SUFFICES ASSUME NEW s \in Scales \ {MOTION}
               PROVE  \/ counts'[s] = counts[s]
                      \/ counts'[s].succeeded <= Cardinality(SuccessfulUnits(s)')
    BY <1>0, <1>1, CountersStay
  <2> SUFFICES ASSUME counts'[s] = RowCounts(unit', s)
               PROVE  counts'[s].succeeded <= Cardinality(SuccessfulUnits(s)')
    BY <1>2
  <2>1. \A u \in Units : unit'[u] = "succeeded" => u \in published'
    BY <1>1 DEF Context, SuccessIsPublished
  <2>2. {u \in UnitsOf(s) : unit'[u] = "succeeded"} = SuccessfulUnits(s)'
    BY <2>1, ScalesKnown DEF SuccessfulUnits
  <2>3. Cardinality(SuccessfulUnits(s)') \in Nat
    <3>1. SuccessfulUnits(s)' \in SUBSET UnitsOf(s)
      BY DEF SuccessfulUnits
    <3> QED BY <3>1, UnitsFinite
  <2>4. RowCounts(unit', s).succeeded = Cardinality(SuccessfulUnits(s)')
    BY <2>2 DEF RowCounts
  <2> QED BY <2>3, <2>4
<1>8. JobIsHonest' /\ FinishedTaskIsSettled'
  BY <1>5, <1>6 DEF JobIsHonest, FinishedTaskIsSettled
<1> QED BY <1>0, <1>1, <1>4, <1>5, <1>7, <1>8 DEF SettledInv

\* Every step keeps the invariant of settled rows: the pass, its unit workers,
\* the sweep, a claim and a crash.
LEMMA SettledStep ==
  ASSUME Context, [Next]_vars
  PROVE  SettledInv'
<1>0. TypeOK /\ SettledInv
  BY DEF Context
<1>1. ASSUME UNCHANGED <<job, scale, counts, unit, published, video>>,
             hfActive' \subseteq hfActive,
             task' = task \/ (task # "succeeded" /\ task' # "succeeded"),
             \A v \in Workers :
               \/ /\ pc'[v] = pc[v] /\ run'[v] = run[v]
                  /\ v \in partial' <=> v \in partial
                  /\ v \in hfActive' <=> v \in hfActive
               \/ pc'[v] = "claimed" /\ \A u \in Units : run'[v][u] = "none"
               \/ pc'[v] = "idle"
      PROVE  SettledInv'
  <2>1. ASSUME NEW v \in Workers, Processing(v)' PROVE PassInv(v)'
    <3>1. CASE pc'[v] = "claimed" /\ \A u \in Units : run'[v][u] = "none"
      <4>1. KnowsScales(v)' /\ KnowsOutcome(v)'
        BY <3>1 DEF KnowsScales, KnowsOutcome, At, MotionPhases, PastMotion, PastDecision
      <4>2. KnowsUnits(v)'
        BY <3>1, ScalesKnown DEF KnowsUnits, PoolPhases, Good
      <4> QED BY <4>1, <4>2 DEF PassInv
    <3>2. CASE /\ pc'[v] = pc[v] /\ run'[v] = run[v]
               /\ v \in partial' <=> v \in partial
               /\ v \in hfActive' <=> v \in hfActive
      <4>1. PassInv(v)
        BY <1>0, <2>1, <3>2 DEF SettledInv, Processing, At
      <4>2. KnowsScales(v)'
        BY <1>1, <3>2, <4>1 DEF PassInv, KnowsScales, At
      <4>3. KnowsUnits(v)'
        BY <1>1, <3>2, <4>1 DEF PassInv, KnowsUnits, Joined
      <4>4. KnowsOutcome(v)'
        <5>1. /\ ScalesToFinalize(v)' = ScalesToFinalize(v)
              /\ \A s : Tally(v, s)' = Tally(v, s)
              /\ UnitsWith("running")' = UnitsWith("running")
          BY <1>1, <3>2 DEF ScalesToFinalize, Tally, UnitsWith
        <5> QED BY <1>1, <3>2, <4>1, <5>1 DEF PassInv, KnowsOutcome, At
      <4> QED BY <4>2, <4>3, <4>4 DEF PassInv
    <3> QED BY <1>1, <2>1, <3>1, <3>2 DEF Processing, At
  <2>2. ScalesAreHonest' /\ CountersHold' /\ (hfActive' # {} => MOTION \in Scales)
    BY <1>0, <1>1 DEF SettledInv, ScalesAreHonest, Settled, CountersHold, SuccessfulUnits
  <2>3. JobIsHonest' /\ FinishedTaskIsSettled'
    BY <1>0, <1>1 DEF SettledInv, JobIsHonest, FinishedTaskIsSettled, UnitsWith
  <2> QED BY <2>1, <2>2, <2>3 DEF SettledInv
<1>2. ASSUME NEW w \in Workers, Claim(w) PROVE SettledInv'
  <2>1. \A u \in Units : run[w][u] = "none"
    BY <1>2 DEF Context, AttemptInv, Claim, Processing, At
  <2> QED BY <1>0, <1>1, <1>2, <2>1 DEF Claim, Take, GoTo, TypeOK, locals
<1>3. ASSUME NEW w \in Workers, RefreshLease(w) PROVE SettledInv'
  BY <1>1, <1>3 DEF RefreshLease, locals
<1>4. ASSUME NEW w \in Workers, Crash(w) PROVE SettledInv'
  BY <1>0, <1>1, <1>4 DEF Crash, TypeOK, db
<1>5. ASSUME (\E u \in Units : BecomeStale(u)) \/ LeaseExpires \/ UNCHANGED vars
      PROVE  SettledInv'
  BY <1>1, <1>5 DEF BecomeStale, LeaseExpires, vars, locals
<1> QED BY <1>2, <1>3, <1>4, <1>5, SettledPhase, SettledUnit, SettledSweep DEF Next

\* The invariant of settled rows holds while no lease is lost.
LEMMA SettledHolds ==
  ASSUME "lease" \notin Faults
  PROVE  Spec => []SettledInv
<1>1. Init => SettledInv
  <2> SUFFICES ASSUME Init PROVE SettledInv
    OBVIOUS
  <2>1. \A w \in Workers : ~Processing(w)
    BY DEF Init, Processing, At
  <2>2. ScalesAreHonest
    BY ScalesKnown DEF Init, ScalesAreHonest
  <2>3. JobIsHonest /\ FinishedTaskIsSettled
    BY ScalesKnown DEF Init, JobIsHonest, FinishedTaskIsSettled
  <2>4. CountersHold
    <3> SUFFICES ASSUME NEW s \in Scales \ {MOTION}
                 PROVE  counts[s].succeeded <= Cardinality(SuccessfulUnits(s))
      BY DEF CountersHold
    <3>1. Cardinality(SuccessfulUnits(s)) \in Nat
      <4>1. SuccessfulUnits(s) \in SUBSET UnitsOf(s)
        BY DEF SuccessfulUnits
      <4> QED BY <4>1, UnitsFinite
    <3> QED BY <3>1 DEF Init, NoCounts
  <2> QED BY <2>1, <2>2, <2>3, <2>4 DEF Init, SettledInv
<1>2. TypeOK /\ LeaseProtectsJob /\ AttemptInv /\ BaselineInv /\ SettledInv
      /\ [Next]_vars => SettledInv'
  BY SettledStep DEF Context, BaselineInv
<1> QED BY <1>1, <1>2, TypeCorrect, LeaseSafety, AttemptsAreOwned, BaselineHolds, PTL
        DEF Spec

\* With timely heartbeats the queue row is marked succeeded only over a settled
\* job, for any number of workers, windows, crashes and lost unit writes
\* (_finalize_job, _reconcile_running_units_for_job).
THEOREM FinishedTasks ==
  ASSUME "lease" \notin Faults
  PROVE  Spec => []FinishedTaskIsSettled
<1>1. SettledInv => FinishedTaskIsSettled
  BY DEF SettledInv
<1> QED BY <1>1, SettledHolds, PTL

\* With timely heartbeats a job reported succeeded hides no failure: neither the
\* worker nor the sweep forgets a failed window or a failed optional scale
\* (any_partial, _finalize_scale_task, _reconcile_job).
THEOREM SucceededJobs ==
  ASSUME "lease" \notin Faults
  PROVE  Spec => []SucceededJobIsComplete
<1>1. TypeOK /\ SettledInv => SucceededJobIsComplete
  <2> SUFFICES ASSUME TypeOK, SettledInv, job = "succeeded"
               PROVE  SucceededJobIsComplete
    BY DEF SucceededJobIsComplete
  <2>1. \A s \in Scales : scale[s] \in Good
    BY DEF SettledInv, JobIsHonest
  <2>2. scale[DEFAULT] = "succeeded"
    BY <2>1, ScalesKnown DEF SettledInv, JobIsHonest, Good
  <2>3. \A u \in DefaultUnits : unit[u] \in Good
    BY <2>2 DEF SettledInv, ScalesAreHonest, Settled
  <2>4. MOTION \in Scales /\ scale[HIGHFREQ] = "succeeded" =>
          \A u \in HighFreqUnits : unit[u] \in Good
    BY DEF SettledInv, ScalesAreHonest, Settled
  <2>5. MOTION \in Scales /\ scale[HIGHFREQ] # "succeeded" =>
          \A u \in HighFreqUnits : unit[u] = "none"
    BY <2>1, ScalesKnown DEF SettledInv, ScalesAreHonest, Good
  <2> QED BY <2>1, <2>3, <2>4, <2>5, ScalesKnown DEF SucceededJobIsComplete, Good
<1> QED BY <1>1, SettledHolds, TypeCorrect, PTL

\* With timely heartbeats the counters of a finished job claim no success that a
\* unit row and its record do not back, whether the worker tallied them or the
\* sweep recounted them (_finalize_scale_task, _reconcile_scale_task).
THEOREM CountersBacked ==
  ASSUME "lease" \notin Faults
  PROVE  Spec => []CountersAreBacked
<1>1. SettledInv => CountersAreBacked
  <2> SUFFICES ASSUME SettledInv, NEW s \in Scales \ {MOTION}
               PROVE  counts[s].succeeded
                        <= Cardinality(UnitsOf(s) \cap UnitsWith("succeeded") \cap published)
    BY DEF CountersAreBacked
  <2>1. UnitsOf(s) \cap UnitsWith("succeeded") \cap published = SuccessfulUnits(s)
    BY ScalesKnown DEF UnitsWith, SuccessfulUnits
  <2> QED BY <2>1 DEF SettledInv, CountersHold
<1> QED BY <1>1, SettledHolds, PTL

-----------------------------------------------------------------------------
(* The pool keeps UnitContract. *)

\* What the contract of u sees.
SeesNothing(u) ==
  /\ unit'[u] = unit[u]
  /\ u \in published' <=> u \in published
  /\ \A w \in Workers : AttemptAt(w, u)' = AttemptAt(w, u)

\* The steps of the contract of one unit, and the stutter.
LEMMA ContractSteps ==
  ASSUME NEW u \in Units
  PROVE  /\ \A w \in Workers :
              \/ Contract(u)!Begin(w) \/ Contract(u)!Decline(w)
              \/ Contract(u)!Lose(w) \/ Contract(u)!Forget(w)
              \/ Contract(u)!End(w, "succeeded") \/ Contract(u)!End(w, "skipped")
              \/ Contract(u)!End(w, "failed")
              => Contract(u)!Next
         /\ Contract(u)!Recover => Contract(u)!Next
         /\ SeesNothing(u) => UNCHANGED Contract(u)!vars
<1>1. SeesNothing(u) => UNCHANGED Contract(u)!vars
  <2>1. SeesNothing(u) => Attempts(u)' = Attempts(u)
    BY DEF SeesNothing, Attempts
  <2> QED BY <2>1 DEF SeesNothing, Contract!vars
<1> QED BY <1>1 DEF Contract!Next, Contract!Outcome, Contract!Final

\* A step of worker w turns at most its own attempt at u.
LEMMA ContractTurn ==
  ASSUME NEW u \in Units, NEW w \in Workers,
         \A v \in Workers \ {w} : run'[v][u] = run[v][u]
  PROVE  /\ Contract(u)!Turn(w, AttemptAt(w, u)')
         /\ \A v \in Workers \ {w} : AttemptAt(v, u)' = AttemptAt(v, u)
<1>1. \A v \in Workers \ {w} : AttemptAt(v, u)' = AttemptAt(v, u)
  BY DEF AttemptAt, InFlight
<1>2. Attempts(u)' = [Attempts(u) EXCEPT ![w] = AttemptAt(w, u)']
  BY <1>1 DEF Attempts
<1> QED BY <1>1, <1>2 DEF Contract!Turn

\* A worker drops its attempt at u, planned or not, and the row stays.
LEMMA AttemptDropped ==
  ASSUME NEW u \in Units, NEW w \in Workers, unit'[u] = unit[u],
         u \in published' <=> u \in published,
         \A v \in Workers \ {w} : run'[v][u] = run[v][u],
         run'[w][u] \in {"none", "planned", run[w][u]}
  PROVE  [Contract(u)!Next]_(Contract(u)!vars)
<1>1. AttemptAt(w, u)' = AttemptAt(w, u) \/ AttemptAt(w, u)' = "none"
  BY DEF AttemptAt, InFlight
<1>2. CASE AttemptAt(w, u)' = AttemptAt(w, u)
  BY <1>2, ContractTurn, ContractSteps DEF SeesNothing
<1>3. CASE AttemptAt(w, u)' = "none" /\ AttemptAt(w, u) # "none"
  <2>1. Contract(u)!Turn(w, "none")
    BY <1>3, ContractTurn
  <2>2. Contract(u)!Forget(w)
    BY <1>3, <2>1 DEF Contract!Forget, Attempts
  <2> QED BY <2>2, ContractSteps
<1> QED BY <1>1, <1>2, <1>3

\* A row that was running is failed beside the attempts, which stay.
LEMMA RowRecovered ==
  ASSUME NEW u \in Units, UNCHANGED <<run, published>>,
         unit'[u] = unit[u] \/ (unit[u] = "running" /\ unit'[u] = "failed")
  PROVE  [Contract(u)!Next]_(Contract(u)!vars)
<1>1. \A w \in Workers : AttemptAt(w, u)' = AttemptAt(w, u)
  BY DEF AttemptAt, InFlight
<1>2. Attempts(u)' = Attempts(u)
  BY <1>1 DEF Attempts
<1>3. CASE unit'[u] = unit[u]
  BY <1>1, <1>3, ContractSteps DEF SeesNothing
<1>4. CASE unit[u] = "running" /\ unit'[u] = "failed"
  <2>1. Contract(u)!Recover
    BY <1>2, <1>4 DEF Contract!Recover
  <2> QED BY <2>1, ContractSteps
<1> QED BY <1>3, <1>4

\* Only Phase 4.5 writes unit rows, and it keeps the attempts.
LEMMA PhaseRows ==
  ASSUME NEW w \in Workers, PhaseStep(w)
  PROVE  UNCHANGED unit \/ (FailsRunning /\ UNCHANGED <<run, published>>)
BY DEF PhaseStep, MarkJobRunning, MotionStart, MotionScan, MotionFinalize,
       MotionFailed, FailScale, HasTriggers, HighFreqSkip, DefaultStart,
       DefaultPlan, HighFreqStart, HighFreqPlan, HighFreqFailed, Join,
       ReconcileRunningUnits, FinalizeScales, FinalizeJob,
       HandleRequiredFailure, Escape, db, locals, FailsRunning

\* Attempts of different workers exclude each other unless leases are lost.
AttemptsExclude == "lease" \notin Faults => AttemptInv

PoolInv == TypeOK /\ LeaseProtectsJob /\ AttemptsExclude

\* With timely heartbeats nobody else has begun what worker w may begin.
LEMMA NobodyElse ==
  ASSUME PoolInv, "lease" \notin Faults, NEW u \in Units, NEW w \in Workers,
         run[w][u] = "planned"
  PROVE  \A v \in Workers : Attempts(u)[v] # "running"
<1>1. \A v \in Workers : run[v][u] # "none" => v = w
  <2>1. \A v \in Workers : run[v][u] # "none" => Processing(v)
    BY DEF PoolInv, AttemptsExclude, AttemptInv
  <2> QED BY <2>1 DEF PoolInv, LeaseProtectsJob
<1>2. \A v \in Workers : ~InFlight(v, u)
  BY <1>1 DEF InFlight
<1>3. \A v \in Workers : run[v][u] \in Attempt \cup Outcome
  BY DEF PoolInv, TypeOK
<1> QED BY <1>2, <1>3 DEF Attempts, AttemptAt, InFlight, Attempt, Outcome

\* Each step of an attempt at u is the step of the contract it is named for.
LEMMA UnitSimulation ==
  ASSUME PoolInv, NEW w \in Workers, NEW u \in Units, UnitStep(w, u)
  PROVE  Contract(u)!Next
<1>t. TypeOK /\ \A v \in Workers \ {w} : run'[v][u] = run[v][u]
  BY UnitStepFrame DEF PoolInv
<1>a. Attempts(u)[w] = AttemptAt(w, u) /\ Contract(u)!Turn(w, AttemptAt(w, u)')
  BY <1>t, ContractTurn DEF Attempts
<1>p. /\ run[w][u] = "planned" => AttemptAt(w, u) = "none"
      /\ InFlight(w, u) => AttemptAt(w, u) = "running"
      /\ run'[w][u] \in {"first", "rerun"} => AttemptAt(w, u)' = "running"
      /\ \A o \in Outcome : run'[w][u] = o => AttemptAt(w, u)' = o
  BY DEF AttemptAt, InFlight, Outcome
<1> USE DEF Contract!Final
<1>1. CASE UnitStart(w, u) /\ unit[u] \in {"succeeded", "skipped"}
  <2>1. /\ run[w][u] = "planned" /\ run'[w][u] = unit[u] /\ UNCHANGED <<unit, published>>
    BY <1>t, <1>1 DEF UnitStart, MayStart, TypeOK
  <2>2. AttemptAt(w, u) = "none" /\ AttemptAt(w, u)' = unit[u]
    BY <1>1, <1>p, <2>1 DEF Outcome
  <2>3. Contract(u)!Decline(w)
    BY <1>1, <1>a, <2>1, <2>2 DEF Contract!Decline
  <2> QED BY <2>3, ContractSteps
<1>2. CASE UnitStart(w, u) /\ unit[u] \notin {"succeeded", "skipped"}
  <2>1. /\ run[w][u] = "planned" /\ run'[w][u] \in {"first", "rerun"}
        /\ unit'[u] = "running" /\ UNCHANGED published
    BY <1>t, <1>2 DEF UnitStart, MayStart, BeginUnit, TypeOK
  <2>2. AttemptAt(w, u) = "none" /\ AttemptAt(w, u)' = "running"
    BY <1>p, <2>1
  <2>3. "lease" \notin Faults => \A v \in Workers : Attempts(u)[v] # "running"
    BY <2>1, NobodyElse
  <2>4. Contract(u)!Begin(w)
    BY <1>2, <1>a, <2>1, <2>2, <2>3 DEF Contract!Begin
  <2> QED BY <2>4, ContractSteps
<1>3. CASE UnitStartFails(w, u) \/ UnitWriteLost(w, u)
  <2>1. /\ run[w][u] = "planned" \/ InFlight(w, u)
        /\ run'[w][u] = "failed" /\ unit'[u] = unit[u] /\ UNCHANGED published
    BY <1>t, <1>3 DEF UnitStartFails, UnitWriteLost, EndUnit, TypeOK
  <2>2. AttemptAt(w, u) \in {"none", "running"} /\ AttemptAt(w, u)' = "failed"
    BY <1>p, <2>1 DEF Outcome
  <2>3. Contract(u)!Lose(w)
    BY <1>a, <2>1, <2>2 DEF Contract!Lose
  <2> QED BY <2>3, ContractSteps
<1>4. ASSUME NEW o \in Outcome, InFlight(w, u), EndUnit(w, u, o, o),
             published' = IF o = "succeeded" THEN published \cup {u} ELSE published
      PROVE  Contract(u)!Next
  <2>1. run'[w][u] = o /\ unit'[u] = o
    BY <1>t, <1>4 DEF EndUnit, TypeOK
  <2>2. AttemptAt(w, u) = "running" /\ AttemptAt(w, u)' = o
    BY <1>4, <1>p, <2>1
  <2>3. (u \in published') = (u \in published \/ o = "succeeded")
    BY <1>4
  <2>4. Contract(u)!End(w, o)
    BY <1>a, <2>1, <2>2, <2>3 DEF Contract!End
  <2> QED BY <2>4, ContractSteps DEF Outcome
<1>5. CASE UnitSucceeds(w, u)
  BY <1>4, <1>5 DEF UnitSucceeds, Outcome
<1>6. CASE UnitFails(w, u)
  BY <1>4, <1>6 DEF UnitFails, Outcome
<1>7. CASE UnitSkipped(w, u)
  BY <1>4, <1>7 DEF UnitSkipped, Outcome
<1> QED BY <1>1, <1>2, <1>3, <1>5, <1>6, <1>7 DEF UnitStep

\* A step of an attempt at one unit is not seen by another.
LEMMA OtherUnit ==
  ASSUME TypeOK, NEW w \in Workers, NEW y \in Units, NEW u \in Units, u # y,
         UnitStep(w, y)
  PROVE  [Contract(u)!Next]_(Contract(u)!vars)
<1>1. unit'[u] = unit[u] /\ \A v \in Workers : run'[v][u] = run[v][u]
  BY UnitStepFrame
<1>2. u \in published' <=> u \in published
  BY DEF UnitStep, UnitStart, UnitStartFails, UnitSucceeds, UnitFails, UnitSkipped,
         UnitWriteLost
<1>3. \A v \in Workers : AttemptAt(v, u)' = AttemptAt(v, u)
  BY <1>1 DEF AttemptAt, InFlight
<1> QED BY <1>1, <1>2, <1>3, ContractSteps DEF SeesNothing

\* Every step of every worker keeps the contract of every unit.
LEMMA PoolSimulation ==
  ASSUME PoolInv, [Next]_vars, NEW u \in Units
  PROVE  [Contract(u)!Next]_(Contract(u)!vars)
<1>t. TypeOK
  BY DEF PoolInv
<1>1. ASSUME NEW w \in Workers, Claim(w) \/ RefreshLease(w)
      PROVE  [Contract(u)!Next]_(Contract(u)!vars)
  <2>1. UNCHANGED <<unit, run, published>>
    BY <1>1 DEF Claim, Take, RefreshLease, locals
  <2> QED BY <2>1, RowRecovered
<1>2. ASSUME NEW w \in Workers, PhaseStep(w)
      PROVE  [Contract(u)!Next]_(Contract(u)!vars)
  <2>1. CASE UNCHANGED unit
    <3>1. UNCHANGED published /\ \A v \in Workers \ {w} : run'[v][u] = run[v][u]
      BY <1>t, <1>2, PhaseStepKeeps, PhaseStepFrame
    <3>2. run'[w][u] \in {"none", "planned", run[w][u]}
      <4>1. CASE Leave(w)
        BY <1>t, <4>1 DEF Leave, TypeOK, NoAttempts
      <4>2. CASE Moves(w)
        BY <1>t, <4>2 DEF Moves, Plan, TypeOK
      <4> QED BY <1>2, <4>1, <4>2, PhaseStepShape
    <3> QED BY <2>1, <3>1, <3>2, AttemptDropped
  <2>2. CASE FailsRunning /\ UNCHANGED <<run, published>>
    BY <2>2, RowRecovered DEF FailsRunning
  <2> QED BY <1>2, <2>1, <2>2, PhaseRows
<1>3. ASSUME NEW w \in Workers, RecoverOrphans(w)
      PROVE  [Contract(u)!Next]_(Contract(u)!vars)
  <2>1. UNCHANGED <<run, published>>
    BY <1>3 DEF RecoverOrphans, locals
  <2>2. unit'[u] = unit[u] \/ (unit[u] = "running" /\ unit'[u] = "failed")
    BY <1>3 DEF RecoverOrphans, StaleBatches
  <2> QED BY <2>1, <2>2, RowRecovered
<1>4. ASSUME NEW w \in Workers, Crash(w)
      PROVE  [Contract(u)!Next]_(Contract(u)!vars)
  <2>1. /\ UNCHANGED <<unit, published>> /\ run'[w][u] = "none"
        /\ \A v \in Workers \ {w} : run'[v][u] = run[v][u]
    BY <1>t, <1>4 DEF Crash, TypeOK, NoAttempts, db
  <2> QED BY <2>1, AttemptDropped
<1>5. ASSUME NEW w \in Workers, NEW y \in Units, UnitStep(w, y)
      PROVE  [Contract(u)!Next]_(Contract(u)!vars)
  BY <1>t, <1>5, UnitSimulation, OtherUnit
<1>6. ASSUME (\E y \in Units : BecomeStale(y)) \/ LeaseExpires \/ UNCHANGED vars
      PROVE  [Contract(u)!Next]_(Contract(u)!vars)
  <2>1. UNCHANGED <<unit, run, published>>
    BY <1>6 DEF BecomeStale, LeaseExpires, vars, locals
  <2> QED BY <2>1, RowRecovered
<1> QED BY <1>1, <1>2, <1>3, <1>4, <1>5, <1>6 DEF Next

\* For any workers, units and faults, lost leases included, the unit pool and
\* everything around it keep UnitContract for every unit, which UnitExecution
\* implements (CrossScaleUnitScheduler.run, Phase 4.5, recover_orphans).
THEOREM PoolKeepsContract == Spec => PoolKeepsUnitContract
<1>1. Init => ContractInit
  <2> SUFFICES ASSUME Init, NEW u \in Units PROVE Contract(u)!Init
    BY DEF ContractInit
  <2>1. Attempts(u) = [w \in Workers |-> "none"]
    BY DEF Init, Attempts, AttemptAt, InFlight, NoAttempts
  <2> QED BY <2>1 DEF Init, Contract!Init
<1>2. Init => AttemptsExclude
  BY DEF Init, AttemptsExclude, AttemptInv, InFlight, NoAttempts
<1>3. TypeOK /\ LeaseProtectsJob /\ AttemptsExclude /\ [Next]_vars => AttemptsExclude'
  BY AttemptStep DEF AttemptsExclude
<1>4. Spec => []PoolInv
  BY <1>2, <1>3, TypeCorrect, LeaseSafety, PTL DEF Spec, PoolInv
<1>5. PoolInv /\ [Next]_vars => ContractStep
  BY PoolSimulation DEF ContractStep
<1> QED BY <1>1, <1>4, <1>5, PTL DEF Spec, PoolKeepsUnitContract

=============================================================================
