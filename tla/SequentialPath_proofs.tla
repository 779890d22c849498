----------------------- MODULE SequentialPath_proofs ------------------------
(***************************************************************************)
(* What a pass of the sequential path leaves behind, for any windows, pool *)
(* size and number of crashes: under the worker, and in the session of a   *)
(* direct caller.  The two share no step, so each has an invariant of its  *)
(* own.                                                                    *)
(***************************************************************************)
EXTENDS SequentialPath, FiniteSetTheorems, TLAPS

Good == {"succeeded", "skipped"}
Open == {"pending", "running"}
Resting == {"out", "idle"}
InPass == {"scale", "plan", "run", "finalize", "required", "fail_scale", "finish"}
Direct == {"direct", "shared", "returned"}
Inside == {"frames", "gate", "call", "publish"}

UnitRows == [unit : [Units -> {"none"} \cup Open \cup Outcome],
             published : SUBSET Units, ok : SUBSET Units, bad : SUBSET Units]

\* The mode never changes, and with it the places of the code.
Modes ==
  /\ mode \in {"pool", "serial", "shared"}
  /\ mode = "shared" => pc \in Direct
  /\ mode # "shared" => pc \in Resting \cup InPass

-----------------------------------------------------------------------------
(* Under the worker. *)

WorkerTypes ==
  /\ job \in {"queued", "running", "succeeded", "partial_failed", "failed"}
  /\ scale \in [Scales -> TaskStatus]
  /\ counts \in [total : Nat, succeeded : Nat]
  /\ rows \in UnitRows
  /\ triggers \in BOOLEAN /\ partial \in BOOLEAN
  /\ task \in {"queued", "running", "succeeded", "failed"}
  /\ cur \in 1..4
  /\ run \in [Units -> {"none", "planned", "running", "raised"} \cup Outcome]

\* The place in the code and the scale being processed go together, and a job
\* in a pass is running and has settled the scales before that one.
PlaceOK ==
  /\ pc \in {"plan", "run", "finalize", "required", "fail_scale"} => cur \in 1..3
  /\ pc = "required" => cur = 1
  /\ pc = "fail_scale" => cur # 1 /\ partial
  /\ pc = "finish" => cur = 4
  /\ pc \in InPass => job = "running" /\ task = "running"
  /\ pc \in InPass => \A i \in 1..3 : i < cur => scale[Order[i]] \notin Open
  /\ pc \in Resting => ~partial
  /\ pc \in {"plan", "run", "finalize"} =>
       scale[Scale] = "running" /\ (cur = 3 => triggers)

\* What the current process() call knows of a unit is what its row says.
RunOK ==
  /\ pc \notin {"run", "finalize"} => \A u \in Units : run[u] = "none"
  /\ \A u \in Units : run[u] # "none" => u \in UnitsOf(Scale)
  /\ pc \in {"run", "finalize"} => \A u \in UnitsOf(Scale) : run[u] # "none"
  /\ pc = "finalize" => \A u \in Units : run[u] \in Outcome \cup {"none"}
  /\ \A u \in Units : /\ run[u] = "running" => rows.unit[u] = "running"
                      /\ run[u] \in Good => rows.unit[u] = run[u]

\* A succeeded row has its record, and only triggers give a job high_freq rows.
RowsOK ==
  \A u \in Units :
    /\ rows.unit[u] # "pending"
    /\ rows.unit[u] = "succeeded" => u \in rows.published
    /\ u \in HighFreqUnits /\ rows.unit[u] # "none" => triggers

BaselineGood == \A u \in DefaultUnits : rows.unit[u] \in Good
EventsGood == \A u \in HighFreqUnits : rows.unit[u] \in Good
Baseline == DefaultUnits \cap rows.published # {}

\* What the status and the counters of a scale say of its units.
ScaleOK ==
  /\ scale[DEFAULT] \in Good => BaselineGood
  /\ scale[HIGHFREQ] = "succeeded" => EventsGood
  /\ scale[HIGHFREQ] = "skipped" => \A u \in HighFreqUnits : rows.unit[u] = "none"
  /\ scale[DEFAULT] \notin Open => counts.total > 0 \/ task = "failed"
  /\ counts.succeeded > 0 => Baseline

\* What the pass has found out so far: any_partial is the only thing it keeps.
PassOK ==
  pc \in InPass =>
    /\ cur > 1 => Baseline
    /\ cur > 1 /\ ~partial => BaselineGood
    /\ cur = 4 /\ ~partial => (triggers => EventsGood)
    /\ pc = "finish" => \A u \in DefaultUnits : rows.unit[u] # "running"

\* What the job and its queue task say when no pass is under way.
JobOK ==
  /\ task = "failed" => job = "failed"
  /\ task = "succeeded" =>
       /\ job \in {"succeeded", "partial_failed"}
       /\ \A s \in Scales : scale[s] \notin Open
       /\ \A u \in Units : rows.unit[u] = "running" =>
            u \in HighFreqUnits /\ job = "partial_failed"
  /\ job \in {"succeeded", "partial_failed"} => Baseline
  /\ job = "succeeded" => BaselineGood /\ (triggers => EventsGood)

WorkerInv ==
  /\ WorkerTypes /\ PlaceOK /\ RunOK /\ RowsOK /\ ScaleOK /\ PassOK /\ JobOK

-----------------------------------------------------------------------------
(* In the session of a direct caller. *)

\* A unit's row, record and logs agree.
Agrees(r, u) ==
  /\ r.unit[u] = "succeeded" <=> u \in r.published
  /\ r.published = r.ok
  /\ r.unit[u] = "failed" /\ u \in DefaultUnits => u \in r.bad

DirectInv ==
  /\ job = "queued" /\ task = "queued"
  /\ rows \in UnitRows /\ sess \in UnitRows
  /\ cur \in {1, 3}
  /\ run \in [Units -> {"none", "planned"} \cup Inside \cup Outcome]
  /\ \A u \in Units : Agrees(rows, u) /\ rows.unit[u] \notin Open
  /\ pc # "shared" => \A u \in Units : run[u] = "none"
  /\ pc = "shared" => \A u \in Units :
       /\ Agrees(sess, u)
       /\ run[u] # "none" => u \in UnitsOf(Scale)
       /\ run[u] \in Inside => sess.unit[u] = "running"
       /\ run[u] = "gate" => cur = 3
       /\ sess.unit[u] = "pending" => run[u] = "planned"
       /\ sess.unit[u] = "running" => run[u] \in Inside

SeqInv ==
  /\ Modes
  /\ mode # "shared" => WorkerInv
  /\ mode = "shared" => DirectInv

-----------------------------------------------------------------------------
(* Scales, units and counters. *)

\* The order the scales run in, and the units of each.
LEMMA ScaleFacts ==
  /\ Order[1] = DEFAULT /\ Order[2] = MOTION /\ Order[3] = HIGHFREQ
  /\ DEFAULT # MOTION /\ DEFAULT # HIGHFREQ /\ MOTION # HIGHFREQ
  /\ Scales = {DEFAULT, MOTION, HIGHFREQ}
  /\ UnitsOf(DEFAULT) = DefaultUnits /\ UnitsOf(HIGHFREQ) = HighFreqUnits
  /\ UnitsOf(MOTION) = {}
  /\ \A s : UnitsOf(s) \subseteq Units
  /\ \A u \in Units : u \in DefaultUnits \/ u \in HighFreqUnits
  /\ \A u \in DefaultUnits : u \in Units /\ u \notin HighFreqUnits
  /\ \A u \in HighFreqUnits : u \in Units /\ u \notin DefaultUnits
BY SequentialAssumption DEF Order, DEFAULT, MOTION, HIGHFREQ, Scales, UnitsOf, Units

\* The scale a pass is at, by its place in that order.
LEMMA CurrentScale ==
  ASSUME cur \in 1..3
  PROVE  /\ Scale \in Scales /\ Scale = Order[cur]
         /\ Scale = DEFAULT <=> cur = 1
         /\ Scale = MOTION <=> cur = 2
         /\ Scale = HIGHFREQ <=> cur = 3
<1>1. cur = 1 \/ cur = 2 \/ cur = 3
  OBVIOUS
<1> QED BY <1>1, ScaleFacts DEF Scale

\* Sets of units are finite, so a count is positive when there is something to count.
LEMMA UnitsCount ==
  ASSUME NEW S \in SUBSET Units
  PROVE  Cardinality(S) \in Nat /\ (Cardinality(S) > 0 <=> S # {})
<1>1. IsFiniteSet(Units)
  BY SequentialAssumption, FS_Union DEF Units
<1>2. IsFiniteSet(S)
  BY <1>1, FS_Subset
<1>3. Cardinality(S) \in Nat /\ (Cardinality(S) = 0 <=> S = {})
  BY <1>2, FS_CardinalityType, FS_EmptySet
<1> QED BY <1>3

Counters == [total : Nat, succeeded : Nat, failed : Nat]

\* The status a scale ends with: succeeded only when nothing failed.
LEMMA FinalStatusIs ==
  ASSUME NEW c \in Counters
  PROVE  /\ FinalStatus(c) \in {"succeeded", "partial_failed", "failed"}
         /\ FinalStatus(c) = "succeeded" => c.failed = 0
BY DEF FinalStatus, Counters

\* What ScaleProcessResult counts are the rows of the scale.
LEMMA TallyIs ==
  ASSUME WorkerInv, pc = "finalize"
  PROVE  /\ Tally \in Counters
         /\ Tally.failed = 0 => \A u \in UnitsOf(Scale) : rows.unit[u] \in Good
         /\ Tally.succeeded > 0 => UnitsOf(Scale) \cap rows.published # {}
         /\ Scale = DEFAULT => Tally.total > 0
<1> DEFINE A == {u \in UnitsOf(Scale) : run[u] # "none"}
           B == {u \in UnitsOf(Scale) : run[u] = "succeeded"}
           C == {u \in UnitsOf(Scale) : run[u] = "failed"}
<1>1. A \in SUBSET Units /\ B \in SUBSET Units /\ C \in SUBSET Units
  BY ScaleFacts
<1>2. /\ Tally = [total |-> Cardinality(A), succeeded |-> Cardinality(B),
                  failed |-> Cardinality(C)]
      /\ Tally.total = Cardinality(A) /\ Tally.succeeded = Cardinality(B)
      /\ Tally.failed = Cardinality(C)
  BY DEF Tally
<1>3. /\ Cardinality(A) \in Nat /\ Cardinality(B) \in Nat /\ Cardinality(C) \in Nat
      /\ Cardinality(A) > 0 <=> A # {}
      /\ Cardinality(B) > 0 <=> B # {}
      /\ Cardinality(C) > 0 <=> C # {}
  BY <1>1, UnitsCount
<1>4. Tally \in Counters
  BY <1>2, <1>3 DEF Counters
<1>5. ASSUME Tally.failed = 0, NEW u \in UnitsOf(Scale) PROVE rows.unit[u] \in Good
  <2>1. C = {}
    BY <1>2, <1>3, <1>5
  <2>2. u \in Units /\ run[u] \in Good
    BY <1>5, <2>1, ScaleFacts DEF WorkerInv, RunOK, Good, Outcome
  <2> QED BY <2>2 DEF WorkerInv, RunOK
<1>6. ASSUME Tally.succeeded > 0 PROVE UnitsOf(Scale) \cap rows.published # {}
  <2>1. PICK u \in UnitsOf(Scale) : run[u] = "succeeded"
    BY <1>2, <1>3, <1>6
  <2>2. u \in Units /\ rows.unit[u] = "succeeded"
    BY <2>1, ScaleFacts DEF WorkerInv, RunOK, Good
  <2> QED BY <2>2 DEF WorkerInv, RowsOK
<1>7. ASSUME Scale = DEFAULT PROVE Tally.total > 0
  <2>1. PICK u \in DefaultUnits : TRUE
    BY SequentialAssumption
  <2>2. u \in A
    BY <1>7, <2>1, ScaleFacts DEF WorkerInv, RunOK
  <2> QED BY <1>2, <1>3, <2>2
<1> QED BY <1>4, <1>5, <1>6, <1>7

-----------------------------------------------------------------------------
(* Steps that leave the rows of the job alone. *)

\* What such a step cannot disturb.
LEMMA RowsAlone ==
  ASSUME WorkerInv, UNCHANGED <<job, scale, counts, triggers, task, rows>>
  PROVE  /\ RowsOK' /\ ScaleOK' /\ JobOK'
         /\ Baseline' = Baseline /\ BaselineGood' = BaselineGood
         /\ EventsGood' = EventsGood
BY DEF WorkerInv, RowsOK, ScaleOK, JobOK, Baseline, BaselineGood, EventsGood

\* The pass is over, by an exception or a crash, or there is none.
LEMMA Rests ==
  ASSUME WorkerInv, UNCHANGED <<job, scale, counts, triggers, task, rows, cur>>,
         pc' \in Resting, partial' = FALSE, run' = NoRun
  PROVE  WorkerInv'
<1>1. WorkerTypes'
  BY DEF WorkerInv, WorkerTypes, NoRun
<1>2. PlaceOK' /\ PassOK'
  BY DEF PlaceOK, PassOK, Resting, InPass
<1>3. RunOK'
  BY DEF RunOK, NoRun, Resting, Good
<1> QED BY <1>1, <1>2, <1>3, RowsAlone DEF WorkerInv

\* An exception reaches the handler of the scale loop.
LEMMA Raises ==
  ASSUME WorkerInv, UNCHANGED <<job, scale, counts, triggers, task, rows, cur>>,
         pc \in InPass, pc # "finish", cur \in 1..3, Raise
  PROVE  WorkerInv'
<1>1. /\ pc' = (IF cur = 1 THEN "required" ELSE "fail_scale")
      /\ partial' = (partial \/ cur # 1) /\ run' = NoRun
  BY CurrentScale DEF Raise
<1>2. WorkerTypes'
  BY <1>1 DEF WorkerInv, WorkerTypes, NoRun
<1>3. PlaceOK'
  BY <1>1 DEF WorkerInv, PlaceOK, Resting, InPass
<1>4. RunOK'
  BY <1>1 DEF RunOK, NoRun, Good
<1>5. PassOK'
  BY <1>1, RowsAlone DEF WorkerInv, PassOK, InPass
<1> QED BY <1>2, <1>3, <1>4, <1>5, RowsAlone DEF WorkerInv

\* The worker rests with nothing in hand.
LEMMA AtRest ==
  ASSUME WorkerInv, pc \notin {"run", "finalize"}
  PROVE  run = NoRun
BY DEF WorkerInv, WorkerTypes, RunOK, NoRun

-----------------------------------------------------------------------------
(* The steps of the worker, in the order of a pass. *)

\* _process_one marks the job running and starts the pass.
LEMMA ProcessOneStep ==
  ASSUME WorkerInv, ProcessOne
  PROVE  WorkerInv'
<1>1. CASE Escape
  BY <1>1, Rests DEF Escape, jobRows, Resting
<1>2. CASE ~Escape
  <2>1. /\ pc = "idle" /\ task \in {"queued", "running"}
        /\ job' = "running" /\ task' = "running" /\ pc' = "scale" /\ cur' = 1
        /\ UNCHANGED <<scale, counts, rows, triggers, partial, run>>
    BY <1>2 DEF ProcessOne, At
  <2>2. WorkerTypes'
    BY <2>1 DEF WorkerInv, WorkerTypes
  <2>3. PlaceOK' /\ PassOK'
    BY <2>1 DEF PlaceOK, PassOK, Resting, InPass
  <2>4. RunOK'
    BY <2>1 DEF WorkerInv, RunOK
  <2>5. RowsOK' /\ ScaleOK' /\ JobOK'
    BY <2>1 DEF WorkerInv, RowsOK, ScaleOK, JobOK, Baseline, BaselineGood, EventsGood
  <2> QED BY <2>2, <2>3, <2>4, <2>5 DEF WorkerInv
<1> QED BY <1>1, <1>2

\* A scale is started, passed over when it is already terminal, or skipped.
LEMMA StartScaleStep ==
  ASSUME WorkerInv, StartScale
  PROVE  WorkerInv'
<1> DEFINE skip == Scale = HIGHFREQ /\ ~HasTriggers
           target == IF skip THEN "skipped" ELSE "running"
<1>1. /\ pc = "scale" /\ cur \in 1..3
      /\ UNCHANGED <<job, counts, rows, triggers, task>>
  BY DEF StartScale, At
<1>2. CASE ~(Raise /\ UNCHANGED <<scale, cur>>)
  <2>1. /\ scale' = [scale EXCEPT ![Scale] = target]
        /\ cur' = (IF skip THEN cur + 1 ELSE cur)
        /\ pc' = (IF skip THEN "scale" ELSE "plan")
        /\ UNCHANGED <<partial, run>>
    BY <1>2 DEF StartScale, SetScale
  <2>2. /\ scale \in [Scales -> TaskStatus] /\ Scale \in Scales
        /\ scale'[Scale] = target /\ \A s \in Scales : s # Scale => scale'[s] = scale[s]
        /\ target \in TaskStatus
    BY <1>1, <2>1, CurrentScale DEF WorkerInv, WorkerTypes, TaskStatus
  <2>3. cur' \in 1..4 /\ (skip => cur = 3 /\ cur' = 4) /\ (~skip => cur' = cur)
    BY <1>1, <2>1, CurrentScale
  <2>4. WorkerTypes'
    BY <1>1, <2>1, <2>2, <2>3 DEF WorkerInv, WorkerTypes
  <2>5. \A i \in 1..3 : i < cur' => scale'[Order[i]] \notin Open
    <3> SUFFICES ASSUME NEW i \in 1..3, i < cur' PROVE scale'[Order[i]] \notin Open
      OBVIOUS
    <3>1. CASE i < cur
      <4>1. Order[i] \in Scales /\ Order[i] # Scale /\ scale[Order[i]] \notin Open
        BY <1>1, <3>1, ScaleFacts, CurrentScale DEF WorkerInv, PlaceOK, InPass
      <4> QED BY <2>2, <4>1
    <3>2. CASE ~(i < cur)
      <4>1. skip /\ i = 3
        BY <1>1, <2>3, <3>2
      <4>2. Order[i] = Scale
        BY <4>1, ScaleFacts
      <4> QED BY <2>2, <4>1, <4>2 DEF Open
    <3> QED BY <3>1, <3>2
  <2>6. PlaceOK'
    <3>1. ~skip => Scale' = Scale /\ (cur = 3 => triggers)
      BY <1>1, <2>3, CurrentScale DEF Scale, HasTriggers
    <3> QED BY <1>1, <2>1, <2>2, <2>3, <2>5, <3>1 DEF WorkerInv, PlaceOK, Resting, InPass
  <2>7. RunOK'
    BY <1>1, <2>1 DEF WorkerInv, RunOK
  <2>8. RowsOK' /\ JobOK'
    BY <1>1, <2>2 DEF WorkerInv, RowsOK, JobOK, Baseline, BaselineGood, EventsGood,
       PlaceOK, InPass
  <2>9. ScaleOK'
    <3>1. scale'[DEFAULT] = scale[DEFAULT] \/ scale'[DEFAULT] = "running"
      BY <2>2, ScaleFacts
    <3>2. /\ scale'[HIGHFREQ] = "succeeded" => scale[HIGHFREQ] = "succeeded"
          /\ scale'[HIGHFREQ] = "skipped" =>
               scale[HIGHFREQ] = "skipped" \/ \A u \in HighFreqUnits : rows.unit[u] = "none"
      BY <2>2, ScaleFacts DEF WorkerInv, RowsOK, HasTriggers
    <3> QED BY <1>1, <3>1, <3>2 DEF WorkerInv, ScaleOK, Baseline, BaselineGood, EventsGood,
               Open, Good
  <2>10. PassOK'
    BY <1>1, <2>1, <2>3 DEF WorkerInv, PassOK, Baseline, BaselineGood, EventsGood,
       InPass, HasTriggers
  <2> QED BY <2>4, <2>6, <2>7, <2>8, <2>9, <2>10 DEF WorkerInv
<1>3. CASE Raise /\ UNCHANGED <<scale, cur>>
  BY <1>1, <1>3, Raises DEF InPass
<1> QED BY <1>2, <1>3

\* Planning inserts the missing unit rows and finds the ones to run.
LEMMA PlanStep ==
  ASSUME WorkerInv, RunMotionScan \/ PlanDefault \/ PlanHighFreq
  PROVE  WorkerInv'
<1>1. /\ pc = "plan" /\ cur \in 1..3 /\ run = NoRun
      /\ UNCHANGED <<job, scale, counts, task, rows, cur>>
  BY AtRest DEF RunMotionScan, PlanDefault, PlanHighFreq, At, jobRows, WorkerInv, PlaceOK
<1>2. CASE Raise /\ UNCHANGED triggers
  BY <1>1, <1>2, Raises DEF InPass
<1>3. ASSUME triggers' = triggers \/ (triggers' = TRUE /\ cur = 2),
             pc' = (IF cur = 2 THEN "finalize" ELSE "run"), partial' = partial,
             run' \in [Units -> {"none", "planned"}],
             \A u \in Units : run'[u] # "none" <=> u \in UnitsOf(Scale),
             cur = 2 => \A u \in Units : run'[u] = "none"
      PROVE  WorkerInv'
  <2>1. WorkerTypes'
    BY <1>1, <1>3 DEF WorkerInv, WorkerTypes
  <2>2. Scale' = Scale
    BY <1>1 DEF Scale
  <2>3. PlaceOK'
    BY <1>1, <1>3, <2>2 DEF WorkerInv, WorkerTypes, PlaceOK, Resting, InPass
  <2>4. RunOK'
    BY <1>1, <1>3, <2>2, ScaleFacts DEF RunOK, Good
  <2>5. RowsOK' /\ ScaleOK'
    <3>1. triggers => triggers'
      BY <1>3
    <3>2. RowsOK'
      BY <1>1, <3>1 DEF WorkerInv, RowsOK
    <3> QED BY <1>1, <3>2 DEF WorkerInv, ScaleOK, Baseline, BaselineGood, EventsGood
  <2>6. JobOK' /\ PassOK'
    BY <1>1, <1>3 DEF WorkerInv, JobOK, PassOK, PlaceOK, Baseline, BaselineGood,
       EventsGood, InPass
  <2> QED BY <2>1, <2>3, <2>4, <2>5, <2>6 DEF WorkerInv
<1>4. CASE RunMotionScan
  <2>1. Scale = MOTION /\ cur = 2
    BY <1>1, <1>4, CurrentScale DEF RunMotionScan
  <2>2. CASE /\ triggers' \in {triggers, TRUE}
             /\ pc' = "finalize" /\ UNCHANGED <<partial, run>>
    <3>1. /\ run' \in [Units -> {"none", "planned"}]
          /\ \A u \in Units : run'[u] = "none"
      BY <1>1, <2>2 DEF NoRun
    <3>2. \A u \in Units : run'[u] # "none" <=> u \in UnitsOf(Scale)
      BY <2>1, <3>1, ScaleFacts
    <3> QED BY <1>3, <2>1, <2>2, <3>1, <3>2
  <2> QED BY <1>2, <1>4, <2>2 DEF RunMotionScan
<1>5. /\ Planned \in [Units -> {"none", "planned"}]
      /\ \A u \in Units : Planned[u] # "none" <=> u \in UnitsOf(Scale)
  BY DEF Planned
<1>6. CASE PlanDefault
  <2>1. cur # 2 /\ triggers' = triggers
    BY <1>1, <1>6, CurrentScale DEF PlanDefault, jobRows
  <2>2. CASE run' = Planned /\ pc' = "run" /\ UNCHANGED partial
    BY <1>3, <1>5, <2>1, <2>2
  <2> QED BY <1>2, <1>6, <2>1, <2>2 DEF PlanDefault
<1>7. CASE PlanHighFreq
  <2>1. cur = 3 /\ triggers' = triggers /\ triggers
    BY <1>1, <1>7, CurrentScale DEF PlanHighFreq, jobRows, WorkerInv, PlaceOK
  <2>2. CASE run' = Planned /\ pc' = "run" /\ UNCHANGED partial
    BY <1>3, <1>5, <2>1, <2>2
  <2> QED BY <1>2, <1>7, <2>1, <2>2 DEF PlanHighFreq
<1> QED BY <1>4, <1>6, <1>7

\* A step of one unit: it keeps a good row, and what run says is what its row says.
LEMMA UnitMoves ==
  ASSUME WorkerInv, NEW u \in Units, pc = "run", run[u] # "none",
         UNCHANGED <<job, scale, counts, triggers, task, pc, cur, partial>>,
         NEW st \in {"running", "raised"} \cup Outcome,
         run' = [run EXCEPT ![u] = st],
         rows' \in UnitRows, rows.published \subseteq rows'.published,
         \A v \in Units : v # u => rows'.unit[v] = rows.unit[v],
         rows.unit[u] \in Good => rows'.unit[u] = rows.unit[u],
         rows'.unit[u] # "pending",
         rows'.unit[u] = "succeeded" => u \in rows'.published,
         st = "running" => rows'.unit[u] = "running",
         st \in Good => rows'.unit[u] = st
  PROVE  WorkerInv'
<1>1. /\ cur \in 1..3 /\ Scale' = Scale /\ scale[Scale] = "running"
      /\ cur = 3 => triggers
      /\ u \in UnitsOf(Scale) /\ Scale = Order[cur]
  BY CurrentScale DEF WorkerInv, PlaceOK, RunOK, Scale
<1>2. WorkerTypes'
  BY DEF WorkerInv, WorkerTypes
<1>3. run'[u] = st /\ \A v \in Units : v # u => run'[v] = run[v]
  BY DEF WorkerInv, WorkerTypes
<1>4. PlaceOK'
  BY <1>1 DEF WorkerInv, PlaceOK
<1>5. RunOK'
  <2>1. st # "none"
    BY DEF Outcome
  <2> QED BY <1>1, <1>3, <2>1, ScaleFacts DEF WorkerInv, RunOK
<1>6. RowsOK'
  <2>1. u \in HighFreqUnits => cur = 3
    BY <1>1, CurrentScale, ScaleFacts
  <2> QED BY <1>1, <2>1 DEF WorkerInv, RowsOK
<1>7. /\ Baseline => Baseline'
      /\ BaselineGood => BaselineGood'
      /\ EventsGood => EventsGood'
  <2>1. \A v \in Units : rows.unit[v] \in Good => rows'.unit[v] \in Good
    OBVIOUS
  <2> QED BY <2>1, ScaleFacts DEF Baseline, BaselineGood, EventsGood
<1>8. scale[HIGHFREQ] = "skipped" => \A v \in HighFreqUnits : rows'.unit[v] = "none"
  <2>1. scale[HIGHFREQ] = "skipped" => u \notin HighFreqUnits
    BY <1>1, CurrentScale, ScaleFacts
  <2> QED BY <2>1, ScaleFacts DEF WorkerInv, ScaleOK
<1>9. ScaleOK'
  BY <1>7, <1>8 DEF WorkerInv, ScaleOK
<1>10. PassOK' /\ JobOK'
  BY <1>7 DEF WorkerInv, PassOK, JobOK, PlaceOK, InPass
<1> QED BY <1>2, <1>4, <1>5, <1>6, <1>9, <1>10 DEF WorkerInv

\* Writing one unit row leaves the other rows and the records alone.
LEMMA WithIs ==
  ASSUME rows \in UnitRows, NEW u \in Units, NEW st \in {"running"} \cup Outcome
  PROVE  /\ With(u, st) \in UnitRows /\ With(u, st).unit[u] = st
         /\ \A v \in Units : v # u => With(u, st).unit[v] = rows.unit[v]
         /\ With(u, st).published = rows.published
BY DEF With, UnitRows, Open

\* A unit starts, succeeds with its record, ends without one, or raises.
LEMMA UnitStep ==
  ASSUME WorkerInv, NEW u \in Units, UnitStart(u) \/ UnitEnds(u)
  PROVE  WorkerInv'
<1>1. /\ rows \in UnitRows /\ rows.unit[u] # "pending"
      /\ rows.unit[u] = "succeeded" => u \in rows.published
  BY DEF WorkerInv, WorkerTypes, RowsOK
<1>2. /\ run[u] # "none" /\ pc = "run"
      /\ UNCHANGED <<job, scale, counts, triggers, task, pc, cur, partial>>
  BY DEF UnitStart, UnitEnds, MayStart, At, jobRows, WorkerInv, RunOK, Outcome
<1>3. ASSUME NEW st \in {"raised", "failed"} \cup Good, run' = [run EXCEPT ![u] = st],
             rows' = rows, st \in Good => rows.unit[u] = st
      PROVE  WorkerInv'
  <2>1. st \in {"running", "raised"} \cup Outcome /\ st # "running"
    BY DEF Good, Outcome
  <2> QED BY <1>1, <1>2, <1>3, <2>1, UnitMoves
<1>4. CASE UnitStart(u)
  <2>1. ASSUME rows.unit[u] \notin Good, rows' = With(u, "running"),
               run' = [run EXCEPT ![u] = "running"]
        PROVE  WorkerInv'
    <3>1. /\ rows' \in UnitRows /\ rows'.unit[u] = "running"
          /\ \A v \in Units : v # u => rows'.unit[v] = rows.unit[v]
          /\ rows'.published = rows.published
      BY <1>1, <2>1, WithIs
    <3>2. "running" \notin Good
      BY DEF Good
    <3> QED BY <1>2, <2>1, <3>1, <3>2, UnitMoves
  <2> QED BY <1>3, <1>4, <2>1 DEF UnitStart, Good
<1>5. CASE UnitEnds(u)
  <2>1. PICK o \in Outcome \cup {"lost"} :
          /\ run' = [run EXCEPT ![u] = IF o = "lost" THEN "failed" ELSE o]
          /\ rows' = CASE o = "lost" -> rows
                       [] o = "succeeded" -> [With(u, o) EXCEPT !.published = @ \cup {u}]
                       [] OTHER -> With(u, o)
    BY <1>5 DEF UnitEnds
  <2>2. rows.unit[u] \notin Good
    BY <1>5 DEF UnitEnds, WorkerInv, RunOK, Good
  <2>3. CASE o = "lost"
    BY <1>3, <2>1, <2>3 DEF Good
  <2>4. CASE o \in Outcome
    <3>1. /\ run' = [run EXCEPT ![u] = o]
          /\ rows' = IF o = "succeeded" THEN [With(u, o) EXCEPT !.published = @ \cup {u}]
                                        ELSE With(u, o)
          /\ o # "running" /\ o # "pending"
      BY <2>1, <2>4 DEF Outcome
    <3>2. /\ With(u, o) \in UnitRows /\ With(u, o).unit[u] = o
          /\ \A v \in Units : v # u => With(u, o).unit[v] = rows.unit[v]
          /\ With(u, o).published = rows.published
      BY <1>1, <2>4, WithIs
    <3>3. /\ rows' \in UnitRows /\ rows'.unit[u] = o
          /\ \A v \in Units : v # u => rows'.unit[v] = rows.unit[v]
          /\ rows.published \subseteq rows'.published
          /\ o = "succeeded" => u \in rows'.published
      BY <3>1, <3>2 DEF UnitRows
    <3> QED BY <1>2, <2>2, <2>4, <3>1, <3>3, UnitMoves
  <2> QED BY <2>3, <2>4
<1> QED BY <1>4, <1>5

\* The pool is joined, or the serial loop ends.
LEMMA JoinStep ==
  ASSUME WorkerInv, JoinPool \/ JoinSerial
  PROVE  WorkerInv'
<1>1. /\ pc = "run" /\ cur \in 1..3
      /\ UNCHANGED <<job, scale, counts, triggers, task, rows, cur>>
  BY DEF JoinPool, JoinSerial, At, jobRows, WorkerInv, PlaceOK
<1>2. CASE Raise
  BY <1>1, <1>2, Raises DEF InPass
<1>3. CASE ~Raise
  <2>1. pc' = "finalize" /\ UNCHANGED <<partial, run>> /\ ~Broken
    BY <1>3 DEF JoinPool, JoinSerial
  <2>2. \A u \in Units : run[u] \in Outcome \cup {"none"}
    BY <2>1 DEF JoinPool, JoinSerial, Broken
  <2>3. Scale' = Scale
    BY <1>1 DEF Scale
  <2>4. WorkerTypes' /\ PlaceOK'
    BY <1>1, <2>1, <2>3 DEF WorkerInv, WorkerTypes, PlaceOK, InPass, Resting
  <2>5. RunOK'
    BY <1>1, <2>1, <2>2, <2>3 DEF WorkerInv, RunOK
  <2>6. PassOK'
    BY <1>1, <2>1, RowsAlone DEF WorkerInv, PassOK, InPass
  <2> QED BY <1>1, <2>4, <2>5, <2>6, RowsAlone DEF WorkerInv
<1> QED BY <1>2, <1>3

\* The scales before the next one stay settled when the current one settles.
LEMMA NextScale ==
  ASSUME WorkerInv, pc \in InPass, cur \in 1..3,
         NEW st \in TaskStatus, st \notin Open, scale' = [scale EXCEPT ![Scale] = st]
  PROVE  /\ scale' \in [Scales -> TaskStatus] /\ cur + 1 \in 1..4
         /\ scale'[Scale] = st /\ \A s \in Scales : s # Scale => scale'[s] = scale[s]
         /\ \A i \in 1..3 : i < cur + 1 => scale'[Order[i]] \notin Open
<1>1. /\ scale' \in [Scales -> TaskStatus] /\ cur + 1 \in 1..4
      /\ scale'[Scale] = st /\ \A s \in Scales : s # Scale => scale'[s] = scale[s]
  BY CurrentScale DEF WorkerInv, WorkerTypes
<1>2. ASSUME NEW i \in 1..3, i < cur + 1 PROVE scale'[Order[i]] \notin Open
  <2>1. i < cur \/ i = cur
    BY <1>2
  <2>2. CASE i = cur
    BY <1>1, <2>2 DEF Scale
  <2>3. CASE i < cur
    <3>1. scale[Order[i]] \notin Open /\ Order[i] \in Scales
      BY <2>3, ScaleFacts DEF WorkerInv, PlaceOK
    <3> QED BY <1>1, <3>1
  <2> QED BY <2>1, <2>2, <2>3
<1> QED BY <1>1, <1>2

\* A scale is finalized with the status and counters its rows give.
LEMMA FinalizeScaleStep ==
  ASSUME WorkerInv, FinalizeScale
  PROVE  WorkerInv'
<1> DEFINE st == FinalStatus(Tally)
<1>1. /\ pc = "finalize" /\ cur \in 1..3 /\ pc \in InPass
      /\ UNCHANGED <<job, triggers, task, rows>>
      /\ job = "running" /\ task = "running"
  BY DEF FinalizeScale, At, WorkerInv, PlaceOK, InPass
<1>2. /\ Tally \in Counters
      /\ Tally.failed = 0 => \A u \in UnitsOf(Scale) : rows.unit[u] \in Good
      /\ Tally.succeeded > 0 => UnitsOf(Scale) \cap rows.published # {}
      /\ Scale = DEFAULT => Tally.total > 0
  BY <1>1, TallyIs
<1>3. /\ Tally.total \in Nat /\ Tally.succeeded \in Nat /\ Tally.failed \in Nat
      /\ st \in TaskStatus /\ st \notin Open /\ st # "skipped"
      /\ st = "succeeded" => Tally.failed = 0
  BY <1>2, FinalStatusIs DEF Counters, TaskStatus, Open
<1> HIDE DEF st
<1>4. CASE Raise /\ UNCHANGED <<scale, counts, cur>>
  BY <1>1, <1>4, Raises
<1>5. CASE ~(Raise /\ UNCHANGED <<scale, counts, cur>>)
  <2>1. /\ scale' = [scale EXCEPT ![Scale] = st]
        /\ counts' = (IF Scale = DEFAULT
                      THEN [total |-> Tally.total, succeeded |-> Tally.succeeded]
                      ELSE counts)
        /\ run' = NoRun
        /\ IF Scale = DEFAULT /\ EmptyBaseline(Tally)
           THEN pc' = "required" /\ UNCHANGED <<cur, partial>>
           ELSE pc' = "scale" /\ cur' = cur + 1 /\ partial' = (partial \/ Tally.failed > 0)
    BY <1>5 DEF FinalizeScale, SetScale, st
  <2>2. /\ scale' \in [Scales -> TaskStatus] /\ cur + 1 \in 1..4
        /\ scale'[Scale] = st /\ \A s \in Scales : s # Scale => scale'[s] = scale[s]
        /\ \A i \in 1..3 : i < cur + 1 => scale'[Order[i]] \notin Open
    BY <1>1, <1>3, <2>1, NextScale
  <2>3. /\ Scale \in Scales /\ (Scale = DEFAULT <=> cur = 1)
        /\ (Scale = MOTION <=> cur = 2) /\ (Scale = HIGHFREQ <=> cur = 3)
    BY <1>1, CurrentScale
  <2>4. counts' \in [total : Nat, succeeded : Nat]
    BY <1>3, <2>1 DEF WorkerInv, WorkerTypes
  <2>5. cur' \in 1..4 /\ partial' \in BOOLEAN
    BY <1>1, <2>1, <2>2 DEF WorkerInv, WorkerTypes
  <2>6. WorkerTypes'
    BY <1>1, <2>1, <2>2, <2>4, <2>5 DEF WorkerInv, WorkerTypes, NoRun
  <2>7. PlaceOK'
    <3>1. CASE Scale = DEFAULT /\ EmptyBaseline(Tally)
      BY <1>1, <2>1, <2>2, <2>3, <3>1 DEF PlaceOK, Resting, InPass
    <3>2. CASE ~(Scale = DEFAULT /\ EmptyBaseline(Tally))
      BY <1>1, <2>1, <2>2, <3>2 DEF PlaceOK, Resting, InPass
    <3> QED BY <3>1, <3>2
  <2>8. RunOK'
    BY <2>1 DEF RunOK, NoRun, Good
  <2>9. RowsOK' /\ JobOK'
    BY <1>1 DEF WorkerInv, RowsOK, JobOK
  <2>10. /\ Baseline' = Baseline /\ BaselineGood' = BaselineGood /\ EventsGood' = EventsGood
    BY <1>1 DEF Baseline, BaselineGood, EventsGood
  <2>11. /\ Scale = DEFAULT /\ Tally.succeeded > 0 => Baseline
         /\ Scale = DEFAULT /\ Tally.failed = 0 => BaselineGood
         /\ Scale = HIGHFREQ /\ Tally.failed = 0 => EventsGood
    BY <1>2, ScaleFacts DEF Baseline, BaselineGood, EventsGood
  <2>12. ScaleOK'
    <3>1. CASE Scale = DEFAULT
      <4>1. /\ scale'[DEFAULT] = st /\ scale'[HIGHFREQ] = scale[HIGHFREQ]
            /\ counts'.total = Tally.total /\ counts'.succeeded = Tally.succeeded
        BY <2>1, <2>2, <3>1, ScaleFacts
      <4> QED BY <1>1, <1>2, <1>3, <2>10, <2>11, <3>1, <4>1 DEF WorkerInv, ScaleOK, Good
    <3>2. CASE Scale # DEFAULT
      <4>1. /\ scale'[DEFAULT] = scale[DEFAULT] /\ counts' = counts
            /\ \/ Scale = HIGHFREQ /\ scale'[HIGHFREQ] = st
               \/ scale'[HIGHFREQ] = scale[HIGHFREQ]
        BY <2>1, <2>2, <2>3, <3>2, ScaleFacts
      <4> QED BY <1>1, <1>3, <2>10, <2>11, <4>1 DEF WorkerInv, ScaleOK
    <3> QED BY <3>1, <3>2
  <2>13. PassOK'
    <3>0. ASSUME partial' = (partial \/ Tally.failed > 0), ~partial'
          PROVE  ~partial /\ Tally.failed = 0
      <4>1. ~partial /\ ~(Tally.failed > 0)
        BY <3>0, Zenon
      <4> QED BY <1>3, <4>1
    <3>1. CASE Scale = DEFAULT /\ EmptyBaseline(Tally)
      BY <2>1, <2>3, <3>1 DEF PassOK
    <3>2. CASE Scale = DEFAULT /\ ~EmptyBaseline(Tally)
      <4>1. Tally.succeeded > 0
        BY <1>2, <1>3, <3>2 DEF EmptyBaseline
      <4>2. cur' = 2 /\ pc' = "scale" /\ (~partial' => Tally.failed = 0)
        BY <1>3, <2>1, <2>3, <3>0, <3>2
      <4> QED BY <2>10, <2>11, <3>2, <4>1, <4>2 DEF PassOK
    <3>3. CASE Scale # DEFAULT
      <4>1. /\ cur' = cur + 1 /\ cur > 1 /\ (cur' = 4 => Scale = HIGHFREQ) /\ pc' = "scale"
            /\ ~partial' => ~partial /\ Tally.failed = 0
        BY <1>1, <1>3, <2>1, <2>3, <3>0, <3>3
      <4> QED BY <1>1, <2>10, <2>11, <4>1 DEF WorkerInv, PassOK
    <3> QED BY <3>1, <3>2, <3>3
  <2> QED BY <2>6, <2>7, <2>8, <2>9, <2>12, <2>13 DEF WorkerInv
<1> QED BY <1>4, <1>5

\* A scale other than the baseline fails and the pass goes on.
LEMMA FailScaleStep ==
  ASSUME WorkerInv, FailScale
  PROVE  WorkerInv'
<1>1. /\ pc = "fail_scale" /\ cur \in 1..3 /\ cur # 1 /\ pc \in InPass
      /\ UNCHANGED <<job, counts, triggers, task, rows>>
      /\ job = "running" /\ task = "running"
  BY DEF FailScale, Escape, jobRows, At, WorkerInv, PlaceOK, InPass
<1>2. CASE Escape
  BY <1>2, Rests DEF Escape, jobRows, Resting
<1>3. CASE ~Escape
  <2>1. /\ scale' = [scale EXCEPT ![Scale] = "failed"] /\ pc' = "scale" /\ cur' = cur + 1
        /\ UNCHANGED <<partial, run>>
    BY <1>3 DEF FailScale, SetScale
  <2>2. /\ scale' \in [Scales -> TaskStatus] /\ cur + 1 \in 1..4
        /\ scale'[Scale] = "failed" /\ \A s \in Scales : s # Scale => scale'[s] = scale[s]
        /\ \A i \in 1..3 : i < cur + 1 => scale'[Order[i]] \notin Open
    BY <1>1, <2>1, NextScale DEF TaskStatus, Open
  <2>3. Scale # DEFAULT /\ Scale \in Scales /\ partial
    BY <1>1, CurrentScale DEF WorkerInv, PlaceOK
  <2>4. WorkerTypes' /\ PlaceOK'
    BY <1>1, <2>1, <2>2 DEF WorkerInv, WorkerTypes, PlaceOK, Resting, InPass
  <2>5. RunOK'
    BY <1>1, <2>1 DEF WorkerInv, RunOK
  <2>6. /\ Baseline' = Baseline /\ BaselineGood' = BaselineGood /\ EventsGood' = EventsGood
    BY <1>1 DEF Baseline, BaselineGood, EventsGood
  <2>7. RowsOK' /\ JobOK'
    BY <1>1 DEF WorkerInv, RowsOK, JobOK
  <2>8. ScaleOK'
    <3>1. /\ scale'[DEFAULT] = scale[DEFAULT]
          /\ scale'[HIGHFREQ] \in {scale[HIGHFREQ], "failed"}
      BY <2>2, <2>3, ScaleFacts
    <3> QED BY <1>1, <2>6, <3>1 DEF WorkerInv, ScaleOK
  <2>9. PassOK'
    BY <1>1, <2>1, <2>3, <2>6 DEF WorkerInv, PassOK
  <2> QED BY <2>4, <2>5, <2>7, <2>8, <2>9 DEF WorkerInv
<1> QED BY <1>2, <1>3

\* Rows that were running are failed, by the reconciliation or by the sweep: a
\* good row stays, and so does a unit that has no row.
LEMMA FailsRunning ==
  ASSUME WorkerInv, NEW F, F \subseteq Units,
         \A u \in F : rows.unit[u] = "running",
         NEW un, un = [u \in Units |-> IF u \in F THEN "failed" ELSE rows.unit[u]],
         rows' = [rows EXCEPT !.unit = un]
  PROVE  /\ rows' \in UnitRows /\ rows'.published = rows.published
         /\ \A u \in Units : rows'.unit[u] = IF u \in F THEN "failed" ELSE rows.unit[u]
         /\ \A u \in Units : rows.unit[u] \in Good \cup {"none"} => rows'.unit[u] = rows.unit[u]
         /\ \A u \in Units : rows'.unit[u] = "running" => rows.unit[u] = "running"
         /\ Baseline' = Baseline
         /\ (BaselineGood => BaselineGood') /\ (EventsGood => EventsGood')
         /\ triggers' = triggers => RowsOK'
<1>1. rows \in UnitRows /\ un \in [Units -> {"none"} \cup Open \cup Outcome]
  BY DEF WorkerInv, WorkerTypes, UnitRows, Outcome
<1>2. /\ rows' \in UnitRows /\ rows'.published = rows.published /\ rows'.unit = un
  BY <1>1 DEF UnitRows
<1>3. /\ \A u \in Units : rows'.unit[u] = IF u \in F THEN "failed" ELSE rows.unit[u]
      /\ \A u \in Units : rows.unit[u] \in Good \cup {"none"} => rows'.unit[u] = rows.unit[u]
      /\ \A u \in Units : rows'.unit[u] = "running" => rows.unit[u] = "running"
  BY <1>2 DEF Good
<1>4. Baseline' = Baseline
  BY <1>2 DEF Baseline
<1>5. (BaselineGood => BaselineGood') /\ (EventsGood => EventsGood')
  BY <1>3, ScaleFacts DEF BaselineGood, EventsGood
<1>6. triggers' = triggers => RowsOK'
  BY <1>2, <1>3 DEF WorkerInv, RowsOK
<1> QED BY <1>2, <1>3, <1>4, <1>5, <1>6

\* The sweep's reconciliation settles a job whose scales are all terminal.
LEMMA ReconcileStep ==
  ASSUME WorkerInv, Reconcile
  PROVE  WorkerInv'
<1> DEFINE F == {u \in Units : rows.unit[u] = "running" /\ RecordedScale(u) \in Scales}
           un == [u \in Units |-> IF u \in F THEN "failed" ELSE rows.unit[u]]
<1>1. /\ pc = "scale" /\ cur = 4 /\ pc' = "finish" /\ pc \in InPass
      /\ UNCHANGED <<job, scale, counts, triggers, task, cur, partial, run>>
      /\ job = "running" /\ task = "running"
  BY DEF Reconcile, At, jobRows, WorkerInv, PlaceOK, InPass
<1>2. un = [u \in Units |-> IF rows.unit[u] = "running" /\ RecordedScale(u) \in Scales
                            THEN "failed" ELSE rows.unit[u]]
  OBVIOUS
<1>3. rows' = [rows EXCEPT !.unit = un]
  BY <1>2 DEF Reconcile
<1>4. F \subseteq Units /\ \A u \in F : rows.unit[u] = "running"
  OBVIOUS
<1>5. \A u \in DefaultUnits : rows.unit[u] = "running" => u \in F
  BY ScaleFacts DEF RecordedScale, DefaultScaleId
<1> HIDE DEF F
<1>6. /\ rows' \in UnitRows /\ rows'.published = rows.published
      /\ \A u \in Units : rows'.unit[u] = IF u \in F THEN "failed" ELSE rows.unit[u]
      /\ \A u \in Units : rows.unit[u] \in Good \cup {"none"} => rows'.unit[u] = rows.unit[u]
      /\ Baseline' = Baseline
      /\ (BaselineGood => BaselineGood') /\ (EventsGood => EventsGood')
      /\ RowsOK'
  BY <1>1, <1>3, <1>4, FailsRunning
<1>7. WorkerTypes' /\ PlaceOK'
  BY <1>1, <1>6 DEF WorkerInv, WorkerTypes, PlaceOK, InPass, Resting
<1>8. RunOK'
  BY <1>1, AtRest DEF WorkerInv, RunOK, NoRun, Good
<1>9. ScaleOK'
  BY <1>1, <1>6, ScaleFacts DEF WorkerInv, ScaleOK
<1>10. PassOK'
  BY <1>1, <1>5, <1>6, ScaleFacts DEF WorkerInv, PassOK
<1>11. JobOK'
  BY <1>1, <1>6 DEF JobOK
<1> QED BY <1>6, <1>7, <1>8, <1>9, <1>10, <1>11 DEF WorkerInv

\* The end of the pass derives the job's status from what it saw.
LEMMA FinalizeJobStep ==
  ASSUME WorkerInv, FinalizeJob
  PROVE  WorkerInv'
<1>1. /\ pc = "finish" /\ pc \in InPass /\ cur = 4
      /\ run = NoRun /\ job = "running"
      /\ \A i \in 1..3 : scale[Order[i]] \notin Open
  BY AtRest DEF FinalizeJob, At, InPass, WorkerInv, PlaceOK
<1>2. CASE Escape
  BY <1>2, Rests DEF Escape, jobRows, Resting
<1>3. CASE ~Escape
  <2>1. /\ job' = (IF partial THEN "partial_failed" ELSE "succeeded")
        /\ task' = "succeeded" /\ pc' = "idle" /\ partial' = FALSE
        /\ UNCHANGED <<scale, counts, triggers, rows, cur, run>>
    BY <1>3 DEF FinalizeJob
  <2>2. WorkerTypes' /\ PlaceOK' /\ PassOK'
    BY <2>1 DEF WorkerInv, WorkerTypes, PlaceOK, PassOK, InPass, Resting
  <2>3. RunOK' /\ RowsOK'
    BY <1>1, <2>1 DEF WorkerInv, RunOK, RowsOK
  <2>4. ScaleOK'
    <3>1. scale[DEFAULT] \notin Open => counts.total > 0
      BY <1>1 DEF WorkerInv, PlaceOK, ScaleOK
    <3> QED BY <2>1, <3>1 DEF WorkerInv, ScaleOK, Baseline, BaselineGood, EventsGood
  <2>5. \A s \in Scales : scale[s] \notin Open
    BY <1>1, ScaleFacts
  <2>6. /\ Baseline
        /\ ~partial => BaselineGood /\ (triggers => EventsGood)
        /\ \A u \in DefaultUnits : rows.unit[u] # "running"
    BY <1>1 DEF WorkerInv, PassOK
  <2>7. ASSUME NEW u \in Units, rows.unit[u] = "running"
        PROVE  u \in HighFreqUnits /\ job' = "partial_failed"
    <3>1. u \in HighFreqUnits
      BY <2>6, <2>7, ScaleFacts
    <3>2. triggers
      BY <2>7, <3>1 DEF WorkerInv, RowsOK
    <3>3. partial
      BY <2>6, <2>7, <3>1, <3>2 DEF EventsGood, Good
    <3> QED BY <2>1, <3>1, <3>3
  <2>8. JobOK'
    <3>1. /\ Baseline' = Baseline /\ BaselineGood' = BaselineGood /\ EventsGood' = EventsGood
      BY <2>1 DEF Baseline, BaselineGood, EventsGood
    <3> QED BY <2>1, <2>5, <2>6, <2>7, <3>1 DEF JobOK
  <2> QED BY <2>2, <2>3, <2>4, <2>8 DEF WorkerInv
<1> QED BY <1>2, <1>3

\* A failure of the baseline scale fails scale, job and task.
LEMMA RequiredFailureStep ==
  ASSUME WorkerInv, RequiredFailure
  PROVE  WorkerInv'
<1>1. /\ pc = "required" /\ pc \in InPass /\ cur = 1
      /\ run = NoRun /\ job = "running"
  BY AtRest DEF RequiredFailure, At, InPass, WorkerInv, PlaceOK
<1>2. CASE Escape
  BY <1>2, Rests DEF Escape, jobRows, Resting
<1>3. CASE ~Escape
  <2>1. /\ job' = "failed" /\ task' = "failed" /\ pc' = "idle" /\ partial' = FALSE
        /\ scale' = [scale EXCEPT ![DEFAULT] = IF scale[DEFAULT] = "running" THEN "failed"
                                                                            ELSE scale[DEFAULT]]
        /\ UNCHANGED <<counts, triggers, rows, cur, run>>
    BY <1>3 DEF RequiredFailure, SetScale
  <2>2. /\ scale' \in [Scales -> TaskStatus]
        /\ scale'[DEFAULT] \in {scale[DEFAULT], "failed"}
        /\ scale'[HIGHFREQ] = scale[HIGHFREQ]
    BY <2>1, ScaleFacts DEF WorkerInv, WorkerTypes, TaskStatus
  <2>3. WorkerTypes' /\ PlaceOK' /\ PassOK'
    BY <2>1, <2>2 DEF WorkerInv, WorkerTypes, PlaceOK, PassOK, InPass, Resting
  <2>4. RunOK' /\ RowsOK'
    BY <1>1, <2>1 DEF WorkerInv, RunOK, RowsOK
  <2>5. ScaleOK' /\ JobOK'
    BY <2>1, <2>2 DEF WorkerInv, ScaleOK, JobOK, Baseline, BaselineGood, EventsGood, Good
  <2> QED BY <2>3, <2>4, <2>5 DEF WorkerInv
<1> QED BY <1>2, <1>3

\* drain sweeps the rows of a dead worker: it never reports a success, and a
\* partial failure only where the counters show a published window.
LEMMA DrainStep ==
  ASSUME WorkerInv, Drain
  PROVE  WorkerInv'
<1>1. PICK B \in SUBSET {u \in Units : rows.unit[u] = "running"} :
       LET un == [u \in Units |-> IF u \in B THEN "failed" ELSE rows.unit[u]]
           c  == RowCounts(un)
           swept == /\ B \cap DefaultUnits # {}
                    /\ scale[DEFAULT] = "running"
                    /\ \A u \in DefaultUnits : un[u] \notin {"pending", "running"}
           sc == IF swept THEN [scale EXCEPT ![DEFAULT] = FinalStatus(c)] ELSE scale
           ct == IF swept THEN [total |-> c.total, succeeded |-> c.succeeded] ELSE counts
           over == /\ B # {}
                   /\ job = "running"
                   /\ \A s \in Scales : sc[s] \notin {"pending", "running"}
       IN /\ rows' = [rows EXCEPT !.unit = un]
          /\ scale' = sc
          /\ counts' = ct
          /\ job' = IF ~over THEN job
                    ELSE IF EmptyBaseline(ct) THEN "failed"
                    ELSE IF \E s \in Scales : sc[s] \in {"failed", "partial_failed"}
                         THEN "partial_failed" ELSE "succeeded"
  BY DEF Drain
<1> DEFINE un == [u \in Units |-> IF u \in B THEN "failed" ELSE rows.unit[u]]
           c  == RowCounts(un)
           swept == /\ B \cap DefaultUnits # {}
                    /\ scale[DEFAULT] = "running"
                    /\ \A u \in DefaultUnits : un[u] \notin {"pending", "running"}
           over == /\ B # {}
                   /\ job = "running"
                   /\ \A s \in Scales : scale'[s] \notin Open
<1>2. /\ rows' = [rows EXCEPT !.unit = un]
      /\ scale' = (IF swept THEN [scale EXCEPT ![DEFAULT] = FinalStatus(c)] ELSE scale)
      /\ counts' = (IF swept THEN [total |-> c.total, succeeded |-> c.succeeded] ELSE counts)
      /\ job' = IF ~over THEN job
                ELSE IF EmptyBaseline(counts') THEN "failed"
                ELSE IF \E s \in Scales : scale'[s] \in {"failed", "partial_failed"}
                     THEN "partial_failed" ELSE "succeeded"
  BY <1>1 DEF Open
<1>3. /\ pc = "out" /\ pc' = "idle" /\ UNCHANGED <<triggers, task, cur, partial, run>>
      /\ run = NoRun /\ ~partial
  BY AtRest DEF Drain, At, WorkerInv, PlaceOK, Resting
<1>4. B \subseteq Units /\ \A u \in B : rows.unit[u] = "running"
  OBVIOUS
<1>5. /\ rows' \in UnitRows /\ rows'.published = rows.published
      /\ \A u \in Units : rows'.unit[u] = IF u \in B THEN "failed" ELSE rows.unit[u]
      /\ \A u \in Units : rows.unit[u] \in Good \cup {"none"} => rows'.unit[u] = rows.unit[u]
      /\ \A u \in Units : rows'.unit[u] = "running" => rows.unit[u] = "running"
      /\ Baseline' = Baseline
      /\ (BaselineGood => BaselineGood') /\ (EventsGood => EventsGood')
      /\ RowsOK'
  BY <1>2, <1>3, <1>4, FailsRunning
<1>6. /\ c \in Counters
      /\ B \cap DefaultUnits # {} => c.total > 0 /\ c.failed > 0
      /\ c.succeeded > 0 => Baseline
  <2> DEFINE A == {u \in DefaultUnits : un[u] # "none"}
             S == {u \in DefaultUnits : un[u] = "succeeded"}
             L == {u \in DefaultUnits : un[u] = "failed"}
  <2>1. A \in SUBSET Units /\ S \in SUBSET Units /\ L \in SUBSET Units
    BY ScaleFacts
  <2>2. /\ c = [total |-> Cardinality(A), succeeded |-> Cardinality(S),
                failed |-> Cardinality(L)]
        /\ c.total = Cardinality(A) /\ c.succeeded = Cardinality(S)
        /\ c.failed = Cardinality(L)
    BY DEF RowCounts
  <2>3. /\ Cardinality(A) \in Nat /\ Cardinality(S) \in Nat /\ Cardinality(L) \in Nat
        /\ Cardinality(A) > 0 <=> A # {}
        /\ Cardinality(S) > 0 <=> S # {}
        /\ Cardinality(L) > 0 <=> L # {}
    BY <2>1, UnitsCount
  <2>4. c \in Counters
    BY <2>2, <2>3 DEF Counters
  <2>5. ASSUME B \cap DefaultUnits # {} PROVE A # {} /\ L # {}
    <3>1. PICK u \in B : u \in DefaultUnits
      BY <2>5
    <3>2. u \in Units /\ un[u] = "failed"
      BY <3>1
    <3> QED BY <3>1, <3>2
  <2>6. ASSUME S # {} PROVE Baseline
    <3>1. PICK u \in DefaultUnits : un[u] = "succeeded"
      BY <2>6
    <3>2. u \in Units /\ rows.unit[u] = "succeeded"
      BY <3>1, ScaleFacts
    <3> QED BY <3>1, <3>2 DEF WorkerInv, RowsOK, Baseline
  <2> QED BY <2>2, <2>3, <2>4, <2>5, <2>6
<1> HIDE DEF c
<1>7. /\ c.total \in Nat /\ c.succeeded \in Nat /\ c.failed \in Nat
      /\ FinalStatus(c) \in {"succeeded", "partial_failed", "failed"}
      /\ swept => FinalStatus(c) \in {"partial_failed", "failed"} /\ c.total > 0
  BY <1>6, FinalStatusIs DEF Counters
<1>8. /\ scale' \in [Scales -> TaskStatus] /\ counts' \in [total : Nat, succeeded : Nat]
      /\ swept => scale'[DEFAULT] \in {"partial_failed", "failed"}
      /\ ~swept => scale'[DEFAULT] = scale[DEFAULT]
      /\ \A s \in Scales : s # DEFAULT => scale'[s] = scale[s]
      /\ swept => counts'.total = c.total /\ counts'.succeeded = c.succeeded
      /\ ~swept => counts' = counts
  BY <1>2, <1>7, ScaleFacts DEF WorkerInv, WorkerTypes, TaskStatus
<1> HIDE DEF un, swept
<1>9. ScaleOK'
  <2>1. /\ scale'[DEFAULT] \in Good => scale[DEFAULT] \in Good
        /\ scale'[HIGHFREQ] = scale[HIGHFREQ]
    BY <1>8, ScaleFacts DEF Good
  <2>2. scale'[DEFAULT] \notin Open => counts'.total > 0 \/ task = "failed"
    BY <1>7, <1>8 DEF WorkerInv, ScaleOK
  <2>3. counts'.succeeded > 0 => Baseline
    BY <1>6, <1>8 DEF WorkerInv, ScaleOK
  <2>4. scale'[HIGHFREQ] = "skipped" => \A u \in HighFreqUnits : rows'.unit[u] = "none"
    BY <1>5, <2>1, ScaleFacts DEF WorkerInv, ScaleOK
  <2> QED BY <1>3, <1>5, <2>1, <2>2, <2>3, <2>4 DEF WorkerInv, ScaleOK
<1>10. ASSUME over PROVE job' = "failed" \/ (job' = "partial_failed" /\ Baseline)
  <2>1. task # "failed"
    BY <1>10 DEF WorkerInv, JobOK
  <2>2. scale'[DEFAULT] \notin Open
    BY <1>10, ScaleFacts
  <2>3. counts'.total > 0 /\ (counts'.succeeded > 0 => Baseline)
    BY <1>3, <1>5, <1>9, <2>1, <2>2 DEF ScaleOK
  <2>4. ~EmptyBaseline(counts') => Baseline
    BY <1>8, <2>3 DEF EmptyBaseline
  <2>5. \E s \in Scales : scale'[s] \in {"failed", "partial_failed"}
    <3> SUFFICES ASSUME \A s \in Scales : scale'[s] \notin {"failed", "partial_failed"}
                 PROVE  FALSE
      OBVIOUS
    <3>1. scale'[DEFAULT] \in Good /\ scale'[HIGHFREQ] \in Good
      BY <1>8, <1>10, ScaleFacts DEF TaskStatus, Good, Open
    <3>2. PICK u \in B : u \in Units /\ rows.unit[u] = "running"
      BY <1>4, <1>10
    <3>3. scale[DEFAULT] \in Good /\ scale[HIGHFREQ] \in Good
      BY <1>8, <3>1, ScaleFacts DEF Good
    <3>4. BaselineGood /\ (EventsGood \/ \A v \in HighFreqUnits : rows.unit[v] = "none")
      BY <3>3 DEF WorkerInv, ScaleOK, Good
    <3> QED BY <3>2, <3>4, ScaleFacts DEF BaselineGood, EventsGood, Good
  <2> QED BY <1>2, <1>10, <2>4, <2>5
<1>11. job' = job \/ (job = "running" /\ job' = "failed")
                 \/ (job = "running" /\ job' = "partial_failed" /\ Baseline)
  BY <1>2, <1>10
<1>12. WorkerTypes' /\ PlaceOK' /\ PassOK'
  BY <1>3, <1>5, <1>8, <1>11 DEF WorkerInv, WorkerTypes, PlaceOK, PassOK, InPass, Resting
<1>13. RunOK'
  BY <1>3 DEF RunOK, NoRun, Good
<1>14. JobOK'
  <2>1. task = "succeeded" => job' = job /\ \A s \in Scales : scale'[s] = scale[s]
    BY <1>8, <1>11, ScaleFacts DEF WorkerInv, JobOK, Open, swept
  <2>2. task = "failed" => job' = "failed"
    BY <1>11 DEF WorkerInv, JobOK
  <2>3. job' = "succeeded" => job = "succeeded"
    BY <1>11
  <2> QED BY <1>3, <1>5, <1>11, <2>1, <2>2, <2>3 DEF WorkerInv, JobOK
<1> QED BY <1>5, <1>9, <1>12, <1>13, <1>14 DEF WorkerInv

-----------------------------------------------------------------------------
(* The two modes. *)

\* Whatever the worker does, or its death, keeps its invariant.
LEMMA WorkerKeeps ==
  ASSUME Modes, mode # "shared", WorkerInv, [Next]_vars
  PROVE  WorkerInv' /\ Modes' /\ mode' = mode
<1>1. pc \in Resting \cup InPass /\ mode \in {"pool", "serial"}
  BY DEF Modes
<1>2. \A u \in Units : run[u] \notin Inside
  BY DEF WorkerInv, WorkerTypes, Inside, Outcome
<1>3. CASE UNCHANGED vars
  BY <1>3 DEF vars, jobRows, Modes, WorkerInv, WorkerTypes, PlaceOK, RunOK, RowsOK,
     ScaleOK, PassOK, JobOK, Scale, Baseline, BaselineGood, EventsGood
<1>4. ~SharedStep
  BY <1>1, <1>2 DEF SharedStep, SharedPlan, SharedCommit, SharedAbort, SharedAgain, RunUnit,
     RunUnitFrames, RunUnitGate, RunUnitCall, RunUnitPublish, At, Inside, Resting, InPass
<1>5. CASE WorkerStep \/ Crash
  <2>1. mode' = mode /\ pc' \in Resting \cup InPass
    <3>1. ASSUME NEW u \in Units, UnitStart(u) \/ UnitEnds(u)
          PROVE  mode' = mode /\ pc' = pc
      BY <3>1 DEF UnitStart, UnitEnds
    <3>2. ASSUME Drain \/ DrainEnds \/ ProcessOne \/ StartScale \/ RunMotionScan
                 \/ PlanDefault \/ PlanHighFreq \/ JoinPool \/ JoinSerial
                 \/ FinalizeScale \/ FailScale \/ Reconcile \/ FinalizeJob
                 \/ RequiredFailure \/ Crash
          PROVE  mode' = mode /\ pc' \in Resting \cup InPass
      BY <3>2 DEF Drain, DrainEnds, ProcessOne, StartScale, RunMotionScan, PlanDefault,
         PlanHighFreq, JoinPool, JoinSerial, FinalizeScale, FailScale, Reconcile,
         FinalizeJob, RequiredFailure, Crash, Escape, Raise, Resting, InPass
    <3> QED BY <1>1, <1>5, <3>1, <3>2 DEF WorkerStep
  <2>2. Modes'
    BY <1>1, <2>1 DEF Modes
  <2>3. CASE DrainEnds
    <3>1. pc = "idle" /\ ~partial /\ run = NoRun
      BY <2>3, AtRest DEF DrainEnds, At, WorkerInv, PlaceOK, Resting
    <3>2. partial' = FALSE
      BY <2>3, <3>1 DEF DrainEnds, WorkerInv, WorkerTypes
    <3> QED BY <2>1, <2>2, <2>3, <3>1, <3>2, Rests DEF DrainEnds, jobRows, Resting
  <2>4. CASE Crash
    BY <2>1, <2>2, <2>4, Rests DEF Crash, jobRows, Resting
  <2>5. WorkerInv'
    BY <1>5, <2>3, <2>4, DrainStep, ProcessOneStep, StartScaleStep, PlanStep, UnitStep,
       JoinStep, FinalizeScaleStep, FailScaleStep, ReconcileStep, FinalizeJobStep,
       RequiredFailureStep DEF WorkerStep
  <2> QED BY <2>1, <2>2, <2>5
<1> QED BY <1>3, <1>4, <1>5 DEF Next

\* A step of _run_unit: the session's row of the unit and where the unit is.
LEMMA SessionMoves ==
  ASSUME DirectInv, pc = "shared", NEW u \in Units, run[u] # "none",
         NEW place \in Inside \cup Outcome, run' = [run EXCEPT ![u] = place],
         UNCHANGED <<job, task, rows, cur, pc>>, sess' \in UnitRows,
         \A v \in Units : v # u => /\ sess'.unit[v] = sess.unit[v]
                                   /\ v \in sess'.published <=> v \in sess.published
                                   /\ v \in sess.bad => v \in sess'.bad,
         Agrees(sess', u),
         place \in Inside <=> sess'.unit[u] = "running",
         sess'.unit[u] # "pending",
         place = "gate" => cur = 3
  PROVE  DirectInv'
<1>1. /\ run \in [Units -> {"none", "planned"} \cup Inside \cup Outcome]
      /\ run' \in [Units -> {"none", "planned"} \cup Inside \cup Outcome]
      /\ run'[u] = place /\ \A v \in Units : v # u => run'[v] = run[v]
  BY DEF DirectInv
<1>2. Scale' = Scale /\ u \in UnitsOf(Scale)
  BY DEF DirectInv, Scale
<1>3. sess'.published = sess'.ok
  BY DEF Agrees
<1>4. ASSUME NEW v \in Units
      PROVE  /\ Agrees(sess', v)
             /\ run'[v] # "none" => v \in UnitsOf(Scale)
             /\ run'[v] \in Inside => sess'.unit[v] = "running"
             /\ run'[v] = "gate" => cur = 3
             /\ sess'.unit[v] = "pending" => run'[v] = "planned"
             /\ sess'.unit[v] = "running" => run'[v] \in Inside
  <2>1. CASE v = u
    BY <1>1, <1>2, <2>1
  <2>2. CASE v # u
    BY <1>1, <1>3, <2>2 DEF DirectInv, Agrees
  <2> QED BY <2>1, <2>2
<1> QED BY <1>1, <1>2, <1>4 DEF DirectInv

\* Writing one unit row in the shared session leaves the rest of it alone.
LEMMA SessWithIs ==
  ASSUME sess \in UnitRows, NEW u \in Units, NEW st \in {"running"} \cup Outcome
  PROVE  /\ SessWith(u, st) \in UnitRows /\ SessWith(u, st).unit[u] = st
         /\ \A v \in Units : v # u => SessWith(u, st).unit[v] = sess.unit[v]
         /\ SessWith(u, st).published = sess.published
         /\ SessWith(u, st).ok = sess.ok /\ SessWith(u, st).bad = sess.bad
BY DEF SessWith, UnitRows, Open

\* The steps of _run_unit.
LEMMA RunUnitStep ==
  ASSUME DirectInv, NEW u \in Units,
         \/ RunUnit(u) \/ RunUnitFrames(u) \/ RunUnitGate(u)
         \/ RunUnitCall(u) \/ RunUnitPublish(u)
  PROVE  DirectInv'
<1>1. /\ pc = "shared" /\ run[u] # "none" /\ run[u] \in Inside \cup {"planned"}
      /\ UNCHANGED <<job, task, rows, cur, pc>>
      /\ sess \in UnitRows /\ Agrees(sess, u)
      /\ run[u] \in Inside => sess.unit[u] = "running"
      /\ run[u] = "gate" => cur = 3
      /\ u \in UnitsOf(Scale)
  BY DEF RunUnit, RunUnitFrames, RunUnitGate, RunUnitCall, RunUnitPublish, At, shared,
     jobRows, DirectInv, Inside
<1>2. /\ sess.published \subseteq Units /\ sess.ok \subseteq Units /\ sess.bad \subseteq Units
      /\ sess.published = sess.ok
      /\ u \in sess.published <=> sess.unit[u] = "succeeded"
  BY <1>1 DEF UnitRows, Agrees
\* The row gets a status, and nothing else of the session changes but bad.
<1>3. ASSUME NEW st \in {"running", "failed", "skipped"}, run[u] \in Inside \/ st = "running",
             sess.unit[u] # "succeeded",
             NEW bad \in {sess.bad, sess.bad \cup {u}},
             NEW place \in Inside \cup Outcome, place \in Inside <=> st = "running",
             place = "gate" => cur = 3,
             st = "failed" /\ u \in DefaultUnits => u \in bad,
             run' = [run EXCEPT ![u] = place],
             sess' = [SessWith(u, st) EXCEPT !.bad = bad]
      PROVE  DirectInv'
  <2>1. /\ SessWith(u, st) \in UnitRows /\ SessWith(u, st).unit[u] = st
        /\ \A v \in Units : v # u => SessWith(u, st).unit[v] = sess.unit[v]
        /\ SessWith(u, st).published = sess.published
        /\ SessWith(u, st).ok = sess.ok
    BY <1>1, <1>3, SessWithIs DEF Outcome
  <2>2. bad \subseteq Units /\ sess.bad \subseteq bad
    BY <1>2, <1>3
  <2>3. /\ sess' \in UnitRows /\ sess'.unit[u] = st
        /\ \A v \in Units : v # u => sess'.unit[v] = sess.unit[v]
        /\ sess'.published = sess.published /\ sess'.ok = sess.ok /\ sess'.bad = bad
    BY <1>3, <2>1, <2>2 DEF UnitRows
  <2>4. Agrees(sess', u)
    BY <1>2, <1>3, <2>3 DEF Agrees
  <2> QED BY <1>1, <1>3, <2>2, <2>3, <2>4, SessionMoves
\* The session is left alone.
<1>4. ASSUME NEW place \in Inside \cup Outcome, run' = [run EXCEPT ![u] = place],
             sess' = sess, place \in Inside <=> sess.unit[u] = "running",
             sess.unit[u] # "pending", place = "gate" => cur = 3
      PROVE  DirectInv'
  BY <1>1, <1>4, SessionMoves
<1>5. sess.bad \in {sess.bad, sess.bad \cup {u}}
      /\ \A st \in {"running"} \cup Outcome :
           SessWith(u, st) = [SessWith(u, st) EXCEPT !.bad = sess.bad]
  BY <1>1, SessWithIs DEF UnitRows
<1>6. CASE RunUnit(u)
  <2>1. CASE sess.unit[u] \in {"succeeded", "skipped"}
    BY <1>4, <1>6, <2>1 DEF RunUnit, Ends, Outcome, Inside
  <2>2. CASE sess.unit[u] \notin {"succeeded", "skipped"}
    BY <1>3, <1>5, <1>6, <2>2 DEF RunUnit, Ends, Inside
  <2> QED BY <2>1, <2>2
<1>7. CASE RunUnitFrames(u)
  <2>1. run[u] \in Inside /\ sess.unit[u] = "running" /\ cur \in 1..3
    BY <1>1, <1>7 DEF RunUnitFrames, Inside, DirectInv
  <2>2. CASE Goes(u, IF Scale = HIGHFREQ THEN "gate" ELSE "call")
    BY <1>4, <2>1, <2>2, CurrentScale DEF Goes, Inside
  <2>3. CASE Ends(u, "skipped") /\ sess' = SessWith(u, "skipped")
    BY <1>3, <1>5, <2>1, <2>3 DEF Ends, Outcome, Inside
  <2>4. CASE Ends(u, "failed") /\ sess' = [SessWith(u, "failed") EXCEPT !.bad = @ \cup {u}]
    <3>1. sess' = [SessWith(u, "failed") EXCEPT !.bad = sess.bad \cup {u}]
      BY <1>1, <2>4, SessWithIs, ZenonT(60) DEF Outcome
    <3> QED BY <1>3, <2>1, <2>4, <3>1 DEF Ends, Outcome, Inside
  <2> QED BY <1>7, <2>2, <2>3, <2>4 DEF RunUnitFrames
<1>8. CASE RunUnitGate(u)
  <2>1. /\ run[u] \in Inside /\ sess.unit[u] = "running" /\ cur \in 1..3 /\ cur = 3
        /\ u \notin DefaultUnits
    BY <1>1, <1>8, CurrentScale, ScaleFacts DEF RunUnitGate, Inside
  <2>2. CASE Goes(u, "call")
    BY <1>4, <2>1, <2>2 DEF Goes, Inside
  <2>3. ASSUME NEW o \in {"failed", "skipped"}, Ends(u, o), sess' = SessWith(u, o)
        PROVE  DirectInv'
    BY <1>3, <1>5, <2>1, <2>3 DEF Ends, Outcome, Inside
  <2> QED BY <1>8, <2>2, <2>3 DEF RunUnitGate
<1>9. CASE RunUnitCall(u)
  <2>1. run[u] = "call" /\ run[u] \in Inside /\ sess.unit[u] = "running"
    BY <1>1, <1>9 DEF RunUnitCall, Inside
  <2>2. CASE Goes(u, "publish")
    BY <1>4, <2>1, <2>2 DEF Goes, Inside
  <2>3. CASE sess' = [sess EXCEPT !.bad = @ \cup {u}] /\ UNCHANGED run
    <3>1. run' = [run EXCEPT ![u] = "call"]
      BY <2>1, <2>3 DEF DirectInv
    <3>2. /\ sess' \in UnitRows /\ sess'.unit = sess.unit /\ sess'.published = sess.published
          /\ sess'.ok = sess.ok /\ sess'.bad = sess.bad \cup {u}
      BY <1>1, <1>2, <2>3 DEF UnitRows
    <3>3. Agrees(sess', u)
      BY <1>1, <3>2 DEF Agrees
    <3> QED BY <1>1, <2>1, <3>1, <3>2, <3>3, SessionMoves DEF Inside
  <2>4. CASE /\ sess' = [SessWith(u, "failed") EXCEPT !.bad = @ \cup {u}]
             /\ Ends(u, "failed")
    <3>1. sess' = [SessWith(u, "failed") EXCEPT !.bad = sess.bad \cup {u}]
      BY <1>1, <2>4, SessWithIs, ZenonT(60) DEF Outcome
    <3> QED BY <1>3, <2>1, <2>4, <3>1 DEF Ends, Outcome, Inside
  <2> QED BY <1>9, <2>2, <2>3, <2>4 DEF RunUnitCall
<1>10. CASE RunUnitPublish(u)
  <2>1. /\ sess' = [SessWith(u, "succeeded") EXCEPT !.published = @ \cup {u},
                                                    !.ok = @ \cup {u}]
        /\ run' = [run EXCEPT ![u] = "succeeded"]
    BY <1>10 DEF RunUnitPublish, Ends
  <2>2. /\ sess' \in UnitRows /\ sess'.unit[u] = "succeeded"
        /\ \A v \in Units : v # u => sess'.unit[v] = sess.unit[v]
        /\ sess'.published = sess.published \cup {u} /\ sess'.ok = sess.ok \cup {u}
        /\ sess'.bad = sess.bad
    <3> DEFINE w == SessWith(u, "succeeded")
    <3>1. /\ w \in UnitRows /\ w.unit[u] = "succeeded"
          /\ \A v \in Units : v # u => w.unit[v] = sess.unit[v]
          /\ w.published = sess.published /\ w.ok = sess.ok /\ w.bad = sess.bad
      BY <1>1, SessWithIs DEF Outcome
    <3> HIDE DEF w
    <3>2. /\ sess'.unit = w.unit /\ sess'.published = sess.published \cup {u}
          /\ sess'.ok = sess.ok \cup {u} /\ sess'.bad = sess.bad
          /\ sess' \in UnitRows
      BY <1>2, <2>1, <3>1 DEF UnitRows, w
    <3> QED BY <3>1, <3>2
  <2>3. Agrees(sess', u)
    BY <1>2, <2>2 DEF Agrees
  <2> QED BY <1>1, <2>1, <2>2, <2>3, SessionMoves DEF Outcome, Inside
<1> QED BY <1>6, <1>7, <1>8, <1>9, <1>10

\* The caller's own steps: process() is called, returns, fails, is called again.
LEMMA CallerStep ==
  ASSUME DirectInv, SharedPlan \/ SharedCommit \/ SharedAbort \/ SharedAgain
  PROVE  DirectInv'
<1>1. /\ rows \in UnitRows /\ sess \in UnitRows /\ cur \in {1, 3} /\ cur' = cur
      /\ UNCHANGED <<job, task>> /\ Scale' = Scale /\ job = "queued" /\ task = "queued"
      /\ \A u \in Units : Agrees(rows, u) /\ rows.unit[u] \notin Open
  BY DEF DirectInv, SharedPlan, SharedCommit, SharedAbort, SharedAgain, shared, jobRows, Scale
<1>2. CASE SharedPlan
  <2> DEFINE un == [u \in Units |-> IF u \in UnitsOf(Scale) /\ rows.unit[u] = "none"
                                    THEN "pending" ELSE rows.unit[u]]
  <2>1. /\ sess' = [rows EXCEPT !.unit = un] /\ run' = Planned /\ pc' = "shared"
        /\ rows' = rows
    BY <1>2 DEF SharedPlan, shared
  <2>2. un \in [Units -> {"none"} \cup Open \cup Outcome]
    BY <1>1 DEF UnitRows, Open
  <2>3. /\ sess' \in UnitRows /\ sess'.unit = un /\ sess'.published = rows.published
        /\ sess'.ok = rows.ok /\ sess'.bad = rows.bad
    BY <1>1, <2>1, <2>2 DEF UnitRows
  <2>4. /\ run' \in [Units -> {"none", "planned"} \cup Inside \cup Outcome]
        /\ \A u \in Units : run'[u] = IF u \in UnitsOf(Scale) THEN "planned" ELSE "none"
    BY <2>1 DEF Planned
  <2>5. ASSUME NEW u \in Units
        PROVE  /\ Agrees(sess', u)
               /\ run'[u] # "none" => u \in UnitsOf(Scale)
               /\ run'[u] \notin Inside /\ sess'.unit[u] # "running"
               /\ sess'.unit[u] = "pending" => run'[u] = "planned"
    BY <1>1, <2>3, <2>4 DEF Agrees, Open, Inside
  <2>6. \A u \in Units : run'[u] # "gate"
    BY <2>5 DEF Inside
  <2> QED BY <1>1, <2>1, <2>3, <2>4, <2>5, <2>6 DEF DirectInv
<1>3. CASE SharedCommit
  <2>1. /\ pc = "shared" /\ rows' = sess /\ sess' = sess /\ run' = NoRun /\ pc' = "returned"
        /\ \A u \in UnitsOf(Scale) : run[u] \in Outcome
    BY <1>3 DEF SharedCommit, At
  <2>2. ASSUME NEW u \in Units PROVE Agrees(sess, u) /\ sess.unit[u] \notin Open
    <3>1. run[u] \in Outcome \cup {"none"}
      BY <2>1 DEF DirectInv
    <3> QED BY <2>1, <3>1 DEF DirectInv, Open, Outcome, Inside
  <2> QED BY <1>1, <2>1, <2>2 DEF DirectInv, NoRun
<1>4. CASE SharedAbort
  BY <1>1, <1>4 DEF SharedAbort, shared, DirectInv, NoRun
<1>5. CASE SharedAgain
  BY <1>1, <1>5 DEF SharedAgain, At, DirectInv
<1> QED BY <1>2, <1>3, <1>4, <1>5

\* Whatever a direct caller does keeps the invariant of its session.
LEMMA DirectKeeps ==
  ASSUME Modes, mode = "shared", DirectInv, [Next]_vars
  PROVE  DirectInv' /\ Modes' /\ mode' = mode
<1>1. pc \in Direct /\ \A u \in Units : run[u] # "running"
  BY DEF Modes, DirectInv, Inside, Outcome
<1>2. CASE UNCHANGED vars
  BY <1>2 DEF vars, jobRows, Modes, DirectInv, Agrees, Scale
<1>3. ~WorkerStep /\ ~Crash
  BY <1>1 DEF WorkerStep, Drain, DrainEnds, ProcessOne, StartScale, RunMotionScan,
     PlanDefault, PlanHighFreq, JoinPool, JoinSerial, FinalizeScale, FailScale, Reconcile,
     FinalizeJob, RequiredFailure, UnitStart, UnitEnds, MayStart, Crash, At, Direct
<1>4. CASE SharedStep
  <2>1. mode' = mode /\ pc' \in Direct
    BY <1>1, <1>4 DEF SharedStep, SharedPlan, SharedCommit, SharedAbort, SharedAgain, RunUnit,
       RunUnitFrames, RunUnitGate, RunUnitCall, RunUnitPublish, shared, Direct
  <2>2. Modes'
    BY <2>1 DEF Modes
  <2>3. DirectInv'
    BY <1>4, CallerStep, RunUnitStep DEF SharedStep
  <2> QED BY <2>1, <2>2, <2>3
<1> QED BY <1>2, <1>3, <1>4 DEF Next

\* A new job satisfies the invariant, in every mode.
LEMMA SeqInitially == Init => SeqInv
<1> SUFFICES ASSUME Init PROVE SeqInv
  OBVIOUS
<1>1. /\ NoRun \in [Units -> {"none"}] /\ \A u \in Units : NoRun[u] = "none"
      /\ rows \in UnitRows /\ sess \in UnitRows /\ rows.unit = NoRun
      /\ rows.published = {} /\ rows.ok = {} /\ rows.bad = {}
  BY DEF Init, NoRun, NoRows, UnitRows
<1>2. Modes
  BY DEF Init, Modes, Direct, Resting
<1>3. ASSUME mode = "shared" PROVE DirectInv
  <2>1. pc = "direct" /\ cur \in {1, 3} /\ run = NoRun /\ job = "queued" /\ task = "queued"
    BY <1>3 DEF Init
  <2>2. \A u \in Units : Agrees(rows, u) /\ rows.unit[u] \notin Open
    BY <1>1 DEF Agrees, Open
  <2> QED BY <1>1, <2>1, <2>2 DEF DirectInv
<1>4. ASSUME mode # "shared" PROVE WorkerInv
  <2>1. /\ pc = "out" /\ cur = 1 /\ run = NoRun /\ job = "queued" /\ task = "queued"
        /\ scale = [s \in Scales |-> "pending"] /\ partial = FALSE /\ triggers = FALSE
        /\ counts = [total |-> 0, succeeded |-> 0]
    BY <1>4 DEF Init
  <2>2. WorkerTypes
    <3>1. triggers \in BOOLEAN /\ partial \in BOOLEAN
      BY <2>1, Zenon
    <3>2. /\ scale \in [Scales -> TaskStatus] /\ counts \in [total : Nat, succeeded : Nat]
          /\ cur \in 1 .. 4
      BY <2>1 DEF TaskStatus
    <3>3. run \in [Units -> {"none", "planned", "running", "raised"} \cup Outcome]
      BY <1>1, <2>1
    <3> QED BY <1>1, <2>1, <3>1, <3>2, <3>3 DEF WorkerTypes
  <2>3. PlaceOK /\ RunOK /\ PassOK
    BY <1>1, <2>1 DEF PlaceOK, RunOK, PassOK, InPass, Resting, Good
  <2>4. scale[DEFAULT] = "pending" /\ scale[HIGHFREQ] = "pending"
    BY <2>1, ScaleFacts
  <2>5. RowsOK /\ ScaleOK /\ JobOK
    BY <1>1, <2>1, <2>4, ScaleFacts DEF RowsOK, ScaleOK, JobOK, Good, Open
  <2> QED BY <2>2, <2>3, <2>5 DEF WorkerInv
<1> QED BY <1>2, <1>3, <1>4 DEF SeqInv

\* The invariant holds in every reachable state of every mode.
LEMMA SeqInvHolds == Spec => []SeqInv
<1>1. SeqInv /\ [Next]_vars => SeqInv'
  <2> SUFFICES ASSUME SeqInv, [Next]_vars PROVE SeqInv'
    OBVIOUS
  <2>1. CASE mode = "shared"
    BY <2>1, DirectKeeps DEF SeqInv
  <2>2. CASE mode # "shared"
    BY <2>2, WorkerKeeps DEF SeqInv
  <2> QED BY <2>1, <2>2
<1> QED BY <1>1, SeqInitially, PTL DEF Spec

\* A pass of the sequential path that ends normally leaves a settled job, for
\* any windows, pool size and number of crashes and sweeps before it.
THEOREM FinishedPasses == Spec => []FinishedPassIsSettled
<1>1. SeqInv => FinishedPassIsSettled
  BY DEF SeqInv, WorkerInv, JobOK, DirectInv, FinishedPassIsSettled, Open
<1> QED BY <1>1, SeqInvHolds, PTL

\* A job that a worker or the sweep reports usable has a baseline record, one
\* reported succeeded is complete, and a shared session leaves rows, records and
\* logs that agree.
THEOREM BackedJobs == Spec => []UsableJobIsBacked
<1>1. SeqInv => UsableJobIsBacked
  <2> SUFFICES ASSUME SeqInv PROVE UsableJobIsBacked
    OBVIOUS
  <2>1. CASE mode # "shared"
    BY <2>1 DEF SeqInv, WorkerInv, JobOK, Baseline, BaselineGood, EventsGood, Good,
       UsableJobIsBacked
  <2>2. CASE mode = "shared"
    BY <2>2 DEF SeqInv, DirectInv, Agrees, Open, UsableJobIsBacked
  <2> QED BY <2>1, <2>2
<1> QED BY <1>1, SeqInvHolds, PTL
=============================================================================
