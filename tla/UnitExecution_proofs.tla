------------------------ MODULE UnitExecution_proofs ------------------------
(***************************************************************************)
(* What UnitExecution guarantees for any number of runs and any budgets of *)
(* attempts, and the implementation of UnitContract.                       *)
(***************************************************************************)
EXTENDS UnitExecution, TLAPS

\* Before the first VLM attempt; the attempts; the places after them.
BeforeCalls ==
  {"idle", "started", "no_frames", "insufficient", "frames_failed", "suppressed",
   "gate", "gate_failed", "detector_only"}
Logging == {"log_retry", "log_last", "publish"}
Places ==
  BeforeCalls \cup Logging \cup {"vlm", "vlm_failed", "settled", "guard", "done"}
Endings ==
  {"none", "succeeded", "skipped", "no_frames", "frame_failed", "gate_failed",
   "vlm_failed", "published", "detector_only", "guard", "lost", "escaped", "unstarted",
   "crashed"}
Errors ==
  {"none", "pre_vlm_gate_suppressed", "insufficient_frames",
   "frame_extraction_failed", "object_detection_schema_validation_failed",
   "vlm_error", "analysis_unit_failed", "residual"}
LogStatus == {"failed", "succeeded"}

RunType == [pc : Places, calls : Nat, provider : Nat, schema : Nat, end : Endings]
UnitType ==
  [status : {"pending", "running", "succeeded", "failed", "skipped"},
   attempts : Nat, latest : Nat \X Nat, success : Nat \X Nat, produced : Nat,
   error : Errors]
LogType == [run : Runs, id : Nat \X Nat, attempt : Nat, status : LogStatus]
GateLogType == [run : Runs, status : LogStatus]

\* Every row and every run holds a value of the vocabulary the code writes.
TypeOK ==
  /\ setting \in Settings
  /\ unit \in UnitType
  /\ record \in Nat
  /\ logs \subseteq LogType
  /\ gateLogs \subseteq GateLogType
  /\ run \in [Runs -> RunType]

-----------------------------------------------------------------------------
(* The inductive invariant. *)

LogsOf(x) == {l \in logs : l.run = x}
FailedCalls(x, n) == {LogRow(x, <<x, a>>, a, "failed") : a \in 1..n}
EndedCalls(x, n, how) ==
  {LogRow(x, <<x, a>>, a,
          IF a = n /\ how = "published" THEN "succeeded" ELSE "failed") : a \in 1..n}

\* The try of the frames covers the skip of an empty selection, whose terminal
\* write it may therefore repeat.
Early(x) == run[x].pc \in BeforeCalls \/ run[x].end = "no_frames"

\* The log of a run is the history of its attempts.
LogsFollow(x) ==
  /\ Early(x) => run[x].calls = 0 /\ LogsOf(x) = {}
  /\ At(x, "vlm") => LogsOf(x) = FailedCalls(x, run[x].calls)
  /\ run[x].pc \in Logging =>
       run[x].calls >= 1 /\ LogsOf(x) = FailedCalls(x, run[x].calls - 1)
  /\ At(x, "vlm_failed") =>
       run[x].calls >= 1 /\ LogsOf(x) = FailedCalls(x, run[x].calls)
  /\ run[x].end \in {"vlm_failed", "published"} =>
       LogsOf(x) = EndedCalls(x, run[x].calls, run[x].end)

\* A run has an ending only when its terminal write is behind it.
EndFollows(x) ==
  /\ run[x].pc \notin {"frames_failed", "settled", "guard", "done"} =>
       run[x].end = "none"
  /\ At(x, "frames_failed") => run[x].end \in {"none", "no_frames"}
  /\ At(x, "settled") => run[x].end # "crashed"

\* The two budgets, as long as attempts may come.
Budget(x) ==
  /\ Early(x) => run[x].provider = 0 /\ run[x].schema = 0
  /\ At(x, "vlm") \/ At(x, "log_retry") =>
       /\ run[x].calls = run[x].provider + run[x].schema
       /\ run[x].provider < MaxAttempts
       /\ run[x].schema <= SchemaMax
  /\ run[x].calls <= MaxAttempts + SchemaMax

\* What a gate decided is logged before the run acts on it.
GateFollows(x) ==
  /\ At(x, "detector_only") => [run |-> x, status |-> "succeeded"] \in gateLogs
  /\ At(x, "gate_failed") => [run |-> x, status |-> "failed"] \in gateLogs

\* A call id names its run and the number of the attempt; 0 is the guard's.
IdsFollow ==
  \A l \in logs :
    \/ l.attempt >= 1 /\ l.id = <<l.run, l.attempt>>
    \/ l.id = <<l.run, 0>> /\ l.attempt = 1 /\ l.status = "failed"

\* A unit is running under the run that marked it last, which has not yet
\* written its end, or never will.
Owner ==
  unit.status = "running" =>
    \E z \in Runs :
      /\ unit.latest = MCall(z)
      /\ run[z].pc \notin {"idle", "settled"}
      /\ At(z, "done") => run[z].end \in {"crashed", "lost", "escaped"}

\* Without overlap one run is live, and after a publication, with a recorder
\* that swallows its errors, none that could still write the unit.
Alone ==
  ~setting.overlap =>
    /\ \A x, y \in Runs : Live(x) /\ Live(y) => x = y
    /\ setting.failOpen /\ record # 0 =>
         /\ unit.status = "succeeded"
         /\ \A x \in Runs : Live(x) => At(x, "settled")

RunOK(x) == LogsFollow(x) /\ EndFollows(x) /\ Budget(x) /\ GateFollows(x)

\* The first conjunct of each of the two properties, and unique ids.
Backed ==
  unit.status = "succeeded" =>
    /\ record # 0
    /\ unit.produced = record
    /\ \/ \E l \in logs : l.id = unit.success /\ l.status = "succeeded"
       \/ /\ unit.success = NoCall
          /\ [run |-> record, status |-> "succeeded"] \in gateLogs
Traced ==
  unit.status = "failed" /\ unit.error # "residual" =>
    \/ \E l \in logs : l.run = unit.latest[1] /\ l.status = "failed"
    \/ [run |-> unit.latest[1], status |-> "failed"] \in gateLogs
UniqueIds == \A l, m \in logs : l.id = m.id => l = m

UnitInv ==
  /\ TypeOK
  /\ \A x \in Runs : RunOK(x)
  /\ IdsFollow /\ UniqueIds
  /\ Backed /\ Traced
  /\ Owner /\ Alone

-----------------------------------------------------------------------------
(* Types, and what a step of one run leaves alone. *)

\* Run x is now at a place, with an ending and counters; the others stay.
NowAt(x, place, how, calls, provider, schema) ==
  /\ run' \in [Runs -> RunType]
  /\ \A y \in Runs \ {x} : run'[y] = run[y]
  /\ run'[x].pc = place /\ run'[x].end = how
  /\ run'[x].calls = calls
  /\ run'[x].provider = provider /\ run'[x].schema = schema
Keeps(x, place, how) ==
  NowAt(x, place, how, run[x].calls, run[x].provider, run[x].schema)

\* The ways of moving on.
LEMMA GotoKeeps ==
  ASSUME TypeOK, NEW x \in Runs, NEW place \in Places, Goto(x, place)
  PROVE  Keeps(x, place, run[x].end)
BY DEF TypeOK, Goto, Keeps, NowAt, RunType
\* What settling a unit changes of its run.
LEMMA SettleKeeps ==
  ASSUME TypeOK, NEW x \in Runs, NEW how \in Endings, Settle(x, how)
  PROVE  Keeps(x, "settled", how)
BY DEF TypeOK, Settle, Keeps, NowAt, RunType, Places
\* What leaving the runner changes of the run.
LEMMA LeaveKeeps ==
  ASSUME TypeOK, NEW x \in Runs, NEW how \in Endings, Leave(x, how)
  PROVE  Keeps(x, "done", how)
BY DEF TypeOK, Leave, Keeps, NowAt, RunType, Places
\* A good answer moves the run on to publishing and counts the call.
LEMMA AttemptSucceedsMoves ==
  ASSUME TypeOK, NEW x \in Runs, AttemptSucceeds(x)
  PROVE  NowAt(x, "publish", run[x].end, run[x].calls + 1, run[x].provider,
               run[x].schema)
BY DEF TypeOK, AttemptSucceeds, NowAt, RunType, Places, Logging
\* A failed attempt is counted by its kind, and retried while the policy allows.
LEMMA AttemptFailsMoves ==
  ASSUME TypeOK, NEW x \in Runs, NEW kind, AttemptFails(x, kind)
  PROVE  \E place \in {"log_retry", "log_last"}, provider, schema \in Nat :
           /\ provider = run[x].provider + (IF kind = "provider" THEN 1 ELSE 0)
           /\ schema = run[x].schema + (IF kind = "schema" THEN 1 ELSE 0)
           /\ place = "log_retry" <=> WillRetry(kind, provider, schema)
           /\ NowAt(x, place, run[x].end, run[x].calls + 1, provider, schema)
<1> DEFINE provider == run[x].provider + (IF kind = "provider" THEN 1 ELSE 0)
           schema == run[x].schema + (IF kind = "schema" THEN 1 ELSE 0)
           place == IF WillRetry(kind, provider, schema) THEN "log_retry" ELSE "log_last"
<1>1. provider \in Nat /\ schema \in Nat
  BY DEF TypeOK, RunType
<1>2. place \in {"log_retry", "log_last"}
      /\ (place = "log_retry" <=> WillRetry(kind, provider, schema))
  OBVIOUS
<1>3. run' = [run EXCEPT ![x].pc = place, ![x].calls = @ + 1,
                         ![x].provider = provider, ![x].schema = schema]
  BY DEF AttemptFails
<1> HIDE DEF provider, schema, place
<1>4. NowAt(x, place, run[x].end, run[x].calls + 1, provider, schema)
  BY <1>1, <1>2, <1>3 DEF TypeOK, NowAt, RunType, Places, Logging
<1> QED BY <1>1, <1>2, <1>4 DEF provider, schema

-----------------------------------------------------------------------------
(* Steps that write no row. *)

\* Where such a step can take a run.
QuietMove(x) ==
  /\ UNCHANGED rows
  /\ \/ /\ At(x, "idle") /\ unit.status \in {"succeeded", "skipped"}
        /\ Keeps(x, "done", unit.status)
     \/ At(x, "idle") /\ Keeps(x, "done", "unstarted")
     \/ Live(x) /\ Keeps(x, "done", "crashed")
     \/ /\ At(x, "started") \/ At(x, "guard")
        /\ \E how \in {"lost", "escaped"} : Keeps(x, "done", how)
     \/ At(x, "settled") /\ Keeps(x, "done", run[x].end)
     \/ /\ Live(x) /\ (At(x, "settled") => ~setting.failOpen)
        /\ Keeps(x, "guard", run[x].end)
     \/ /\ \/ run[x].pc \in {"started", "no_frames"}
           \/ At(x, "settled") /\ run[x].end = "no_frames" /\ ~setting.failOpen
        /\ Keeps(x, "frames_failed", run[x].end)
     \/ /\ At(x, "started")
        /\ \E place \in {"gate", "no_frames", "insufficient"} :
             Keeps(x, place, run[x].end)
     \/ At(x, "gate") /\ Keeps(x, "vlm", run[x].end)

\* The steps that touch neither the unit row nor the records.
LEMMA QuietSteps ==
  ASSUME TypeOK, NEW x \in Runs,
         \/ Start(x) /\ unit.status \in {"succeeded", "skipped"}
         \/ StartFails(x) \/ SelectFrames(x) \/ SkipUnitFails(x) \/ NoGate(x) \/ BodyRaises(x)
         \/ ForceTerminalizeFails(x) \/ Return(x) \/ TimelineRaises(x) \/ Crash(x)
  PROVE  QuietMove(x)
<1> USE DEF QuietMove, At, Live
<1>0. run[x].pc \in Places /\ run[x].end \in Endings
  BY DEF TypeOK, RunType
<1>p. {"done", "guard", "frames_failed", "gate", "no_frames", "insufficient", "vlm"}
        \subseteq Places
  BY DEF Places, BeforeCalls
<1>e. {"succeeded", "skipped", "crashed", "lost", "escaped", "unstarted"} \subseteq Endings
  BY DEF Endings
<1>1. CASE Start(x) /\ unit.status \in {"succeeded", "skipped"}
  BY <1>1, <1>e, LeaveKeeps DEF Start
<1>10. CASE StartFails(x)
  BY <1>10, <1>e, LeaveKeeps DEF StartFails
<1>2. CASE SelectFrames(x)
  BY <1>2, <1>p, GotoKeeps DEF SelectFrames
<1>3. CASE SkipUnitFails(x)
  BY <1>3, <1>p, GotoKeeps DEF SkipUnitFails
<1>4. CASE NoGate(x)
  BY <1>4, <1>p, GotoKeeps DEF NoGate
<1>5. CASE BodyRaises(x)
  BY <1>5, <1>p, GotoKeeps DEF BodyRaises, Guarded
<1>6. CASE ForceTerminalizeFails(x)
  BY <1>6, <1>e, LeaveKeeps DEF ForceTerminalizeFails
<1>7. CASE Return(x)
  BY <1>7, <1>0, LeaveKeeps DEF Return
<1>8. CASE TimelineRaises(x)
  BY <1>8, <1>p, <1>e, LeaveKeeps, GotoKeeps DEF TimelineRaises, InFrames
<1>9. CASE Crash(x)
  BY <1>9, <1>e, LeaveKeeps DEF Crash
<1> QED BY <1>1, <1>2, <1>3, <1>4, <1>5, <1>6, <1>7, <1>8, <1>9, <1>10

-----------------------------------------------------------------------------
(* What every step of one run has in common. *)

\* The other runs are where they were, and their logs are as they were.
LEMMA OthersOK ==
  ASSUME UnitInv, NEW x, NEW y \in Runs, y # x, run'[y] = run[y],
         logs \subseteq logs', \A l \in logs' : l \in logs \/ l.run = x,
         gateLogs \subseteq gateLogs'
  PROVE  RunOK(y)'
<1>1. LogsOf(y)' = LogsOf(y)
  BY DEF LogsOf
<1>2. RunOK(y)
  BY DEF UnitInv
<1> QED BY <1>1, <1>2
    DEF RunOK, LogsFollow, EndFollows, Budget, GateFollows, Early, At

\* As long as the unit row is not marked running by the step, it has its owner
\* if x does not leave it behind.
LEMMA OwnerStays ==
  ASSUME UnitInv, NEW x \in Runs, \A y \in Runs \ {x} : run'[y] = run[y],
         unit'.status = "running" => unit' = unit,
         run[x].pc \notin {"idle", "settled"} =>
           \/ unit'.status # "running"
           \/ /\ run'[x].pc \notin {"idle", "settled"}
              /\ At(x, "done")' => run'[x].end \in {"crashed", "lost", "escaped"}
  PROVE  Owner'
<1> SUFFICES ASSUME unit'.status = "running" PROVE Owner'
  BY DEF Owner
<1>1. PICK z \in Runs :
        /\ unit.latest = MCall(z)
        /\ run[z].pc \notin {"idle", "settled"}
        /\ At(z, "done") => run[z].end \in {"crashed", "lost", "escaped"}
  BY DEF UnitInv, Owner
<1>2. CASE z = x
  BY <1>1, <1>2 DEF Owner, At, MCall
<1>3. CASE z # x
  BY <1>1, <1>3 DEF Owner, At, MCall
<1> QED BY <1>2, <1>3

\* Without overlap only x is live after a step of a live x.
LEMMA AloneStays ==
  ASSUME UnitInv, NEW x \in Runs, \A y \in Runs \ {x} : run'[y] = run[y],
         UNCHANGED setting, Live(x) \/ ~Live(x)',
         ~setting.overlap /\ setting.failOpen /\ record' # 0 =>
            unit'.status = "succeeded" /\ (Live(x)' => At(x, "settled")'),
         Live(x) \/ record' = record
  PROVE  Alone'
<1> SUFFICES ASSUME ~setting.overlap PROVE Alone'
  BY DEF Alone
<1>1. \A y, z \in Runs : Live(y) /\ Live(z) => y = z
  BY DEF UnitInv, Alone
<1>2. \A y \in Runs \ {x} : (Live(y)' <=> Live(y)) /\ (At(y, "settled")' <=> At(y, "settled"))
  BY DEF Live, At
<1>3. \A y, z \in Runs : Live(y)' /\ Live(z)' => y = z
  BY <1>1, <1>2
<1>4. ASSUME setting.failOpen, record' # 0, NEW y \in Runs, Live(y)'
      PROVE  At(y, "settled")'
  <2>1. CASE y = x
    BY <1>4, <2>1
  <2>2. CASE y # x /\ Live(x)
    BY <1>1, <1>2, <1>4, <2>2
  <2>3. CASE y # x /\ ~Live(x)
    <3>1. record # 0 /\ Live(y)
      BY <1>2, <1>4, <2>3
    <3>2. At(y, "settled")
      BY <1>4, <3>1 DEF UnitInv, Alone
    <3> QED BY <1>2, <2>3, <3>2
  <2> QED BY <2>1, <2>2, <2>3
<1> QED BY <1>3, <1>4 DEF Alone

\* What a quiet step keeps of the run that takes it.
LEMMA QuietRunOK ==
  ASSUME UnitInv, NEW x \in Runs, QuietMove(x)
  PROVE  RunOK(x)'
<1>1. run[x] \in RunType /\ RunOK(x)
  BY DEF UnitInv, TypeOK
<1>2. LogsOf(x)' = LogsOf(x) /\ UNCHANGED gateLogs
  BY DEF QuietMove, rows, LogsOf
<1>3. PICK place, how : Keeps(x, place, how)
  BY DEF QuietMove
<1>4. /\ run'[x].calls = run[x].calls /\ run'[x].provider = run[x].provider
      /\ run'[x].schema = run[x].schema
  BY <1>3 DEF Keeps, NowAt
<1>5. EndFollows(x)'
  BY <1>1 DEF QuietMove, Keeps, NowAt, RunOK, EndFollows, At, Live
<1>6. GateFollows(x)'
  BY <1>1, <1>2 DEF QuietMove, Keeps, NowAt, GateFollows, At, Live
<1>7. Early(x)' => Early(x)
  BY <1>1 DEF QuietMove, Keeps, NowAt, Early, At, Live, BeforeCalls
<1>8. At(x, "vlm")' => Early(x)
  BY DEF QuietMove, Keeps, NowAt, Early, At, BeforeCalls
<1>9. run'[x].pc \notin Logging \cup {"vlm_failed"}
  BY DEF QuietMove, Keeps, NowAt, Logging
<1>10. run'[x].end \in {"vlm_failed", "published"} => run'[x].end = run[x].end
  BY DEF QuietMove, Keeps, NowAt
<1>11. Budget(x)'
  BY <1>1, <1>4, <1>7, <1>8, <1>9, UnitAssumption
  DEF RunOK, Budget, RunType, At, LogsFollow, Logging
<1>12. LogsFollow(x)'
  <2>1. Early(x) => LogsOf(x) = FailedCalls(x, run[x].calls)
    <3>1. FailedCalls(x, 0) = {}
      BY DEF FailedCalls
    <3> QED BY <1>1, <3>1 DEF RunOK, LogsFollow
  <2> QED BY <1>1, <1>2, <1>4, <1>7, <1>8, <1>9, <1>10, <2>1
      DEF RunOK, LogsFollow, At
<1> QED BY <1>5, <1>6, <1>11, <1>12 DEF RunOK

\* A step that writes no row keeps the invariant.
LEMMA QuietStep ==
  ASSUME UnitInv, NEW x \in Runs, QuietMove(x), UNCHANGED setting
  PROVE  UnitInv'
<1>1. /\ UNCHANGED <<unit, record, logs, gateLogs, setting>>
      /\ run' \in [Runs -> RunType]
      /\ \A y \in Runs \ {x} : run'[y] = run[y]
  BY DEF QuietMove, rows, Keeps, NowAt
<1>2. TypeOK'
  BY <1>1 DEF UnitInv, TypeOK
<1>3. \A y \in Runs : RunOK(y)'
  BY <1>1, QuietRunOK, OthersOK
<1>4. IdsFollow' /\ UniqueIds' /\ Backed' /\ Traced'
  BY <1>1 DEF UnitInv, IdsFollow, UniqueIds, Backed, Traced
<1>5. Owner'
  <2>1. unit.status = "running" /\ run[x].pc \notin {"idle", "settled"} =>
          /\ run'[x].pc \notin {"idle", "settled"}
          /\ At(x, "done")' => run'[x].end \in {"crashed", "lost", "escaped"}
    BY DEF QuietMove, Keeps, NowAt, At, Live
  <2> QED BY <1>1, <2>1, OwnerStays
<1>6. Alone'
  <2>1. Live(x) \/ ~Live(x)'
    BY DEF QuietMove, Keeps, NowAt, At, Live
  <2>2. ASSUME ~setting.overlap, setting.failOpen, record' # 0
        PROVE  unit'.status = "succeeded" /\ (Live(x)' => At(x, "settled")')
    <3>1. unit.status = "succeeded" /\ (Live(x) => At(x, "settled"))
      BY <1>1, <2>2 DEF UnitInv, Alone
    <3> QED BY <1>1, <2>2, <3>1 DEF QuietMove, Keeps, NowAt, At, Live
  <2> QED BY <1>1, <2>1, <2>2, AloneStays
<1> QED BY <1>2, <1>3, <1>4, <1>5, <1>6 DEF UnitInv

-----------------------------------------------------------------------------
(* Steps that write rows. *)

\* A live run that has not written its end fails or skips the unit: then
\* nothing has been published without overlap, and nobody owns the unit.
LEMMA TerminalWrite ==
  ASSUME UnitInv, NEW x \in Runs, Live(x), ~At(x, "settled"),
         \A y \in Runs \ {x} : run'[y] = run[y], UNCHANGED <<setting, record>>,
         unit'.status \in {"failed", "skipped"}
  PROVE  Owner' /\ Alone' /\ Backed'
<1>1. Owner' /\ Backed'
  BY DEF Owner, Backed
<1>2. ~(~setting.overlap /\ setting.failOpen /\ record # 0)
  BY DEF UnitInv, Alone
<1> QED BY <1>1, <1>2, AloneStays

\* The record types of the rows that are written.
LEMMA RowTypes ==
  ASSUME TypeOK, NEW x \in Runs
  PROVE  /\ \A code \in Errors : Failed(x, code) \in UnitType
         /\ \A code \in Errors : /\ Failed(x, code).status = "failed"
                                 /\ Failed(x, code).latest = <<x, 1>>
                                 /\ Failed(x, code).error = code
         /\ \A reason \in Errors : Skipped(x, reason) \in UnitType
         /\ \A reason \in Errors : Skipped(x, reason).status = "skipped"
         /\ \A n \in Nat : /\ Succeeded(x, <<x, n>>, n) \in UnitType
                           /\ Succeeded(x, NoCall, 0) \in UnitType
         /\ MCall(x) \in Nat \X Nat
         /\ x \in Nat /\ x # 0
<1>1. x \in Nat /\ x # 0
  BY UnitAssumption DEF Runs
<1>2. MCall(x) \in Nat \X Nat
  BY <1>1 DEF MCall
<1>3. \A code \in Errors :
        /\ Failed(x, code) \in UnitType
        /\ Failed(x, code).status = "failed"
        /\ Failed(x, code).latest = <<x, 1>>
        /\ Failed(x, code).error = code
  BY <1>1, <1>2 DEF TypeOK, Failed, UnitType, MCall
<1>4. \A reason \in Errors : /\ Skipped(x, reason) \in UnitType
                             /\ Skipped(x, reason).status = "skipped"
  BY <1>1, <1>2 DEF TypeOK, Skipped, UnitType, MCall
<1>5. \A n \in Nat : Succeeded(x, <<x, n>>, n) \in UnitType
  BY <1>1 DEF Succeeded, UnitType, Errors
<1>6. Succeeded(x, NoCall, 0) \in UnitType
  BY <1>1 DEF Succeeded, UnitType, Errors, NoCall
<1> QED BY <1>1, <1>2, <1>3, <1>4, <1>5, <1>6

\* mark_running: the unit belongs to the run that starts.
LEMMA StartStep ==
  ASSUME UnitInv, NEW x \in Runs, Start(x), UNCHANGED setting,
         unit.status \notin {"succeeded", "skipped"}
  PROVE  UnitInv'
<1>1. /\ TypeOK /\ RunOK(x) /\ At(x, "idle")
      /\ setting.overlap \/ \A y \in Runs : ~Live(y)
      /\ unit' = [unit EXCEPT !.status = "running", !.attempts = @ + 1,
                             !.latest = MCall(x)]
      /\ Goto(x, "started")
      /\ UNCHANGED <<record, logs, gateLogs>>
  BY DEF UnitInv, Start
<1>2. Keeps(x, "started", run[x].end)
  BY <1>1, GotoKeeps DEF Places, BeforeCalls
<1>3. /\ run' \in [Runs -> RunType] /\ \A y \in Runs \ {x} : run'[y] = run[y]
      /\ run'[x].pc = "started" /\ run'[x].end = run[x].end
      /\ run'[x].calls = run[x].calls /\ run'[x].provider = run[x].provider
      /\ run'[x].schema = run[x].schema
  BY <1>2 DEF Keeps, NowAt
<1>4. unit' \in UnitType /\ unit'.status = "running" /\ unit'.latest = MCall(x)
  <2>1. MCall(x) \in Nat \X Nat
    BY <1>1, RowTypes
  <2>2. /\ unit \in UnitType
        /\ unit' = [unit EXCEPT !.status = "running", !.attempts = @ + 1,
                               !.latest = MCall(x)]
    BY <1>1 DEF TypeOK
  <2>3. unit.attempts + 1 \in Nat
    BY <2>2 DEF UnitType
  <2> QED BY <2>1, <2>2, <2>3 DEF UnitType
<1>5. TypeOK'
  BY <1>1, <1>3, <1>4 DEF TypeOK
<1>6. LogsOf(x)' = LogsOf(x)
  BY <1>1 DEF LogsOf
<1>7. RunOK(x)'
  BY <1>1, <1>3, <1>6
  DEF RunOK, LogsFollow, EndFollows, Budget, GateFollows, Early, At, BeforeCalls,
      Logging
<1>8. \A y \in Runs : RunOK(y)'
  BY <1>1, <1>3, <1>7, OthersOK
<1>9. IdsFollow' /\ UniqueIds' /\ Backed' /\ Traced'
  BY <1>1, <1>4 DEF UnitInv, IdsFollow, UniqueIds, Backed, Traced
<1>10. Owner'
  BY <1>3, <1>4 DEF Owner, At, MCall
<1>11. Alone'
  <2>1. ~setting.overlap => ~(setting.failOpen /\ record # 0)
    BY DEF UnitInv, Alone
  <2>2. ~setting.overlap => \A y \in Runs \ {x} : ~Live(y)'
    BY <1>1, <1>3 DEF Live
  <2> QED BY <1>1, <2>1, <2>2 DEF Alone
<1> QED BY <1>5, <1>8, <1>9, <1>10, <1>11 DEF UnitInv

\* The skips and the failures that add no model call log.
LEMMA UnitWriteStep ==
  ASSUME UnitInv, NEW x \in Runs, SkipUnit(x) \/ FailGate(x) \/ FailVlm(x),
         UNCHANGED setting
  PROVE  UnitInv'
<1>1. /\ TypeOK /\ RunOK(x) /\ UNCHANGED <<record, logs, gateLogs>>
      /\ run[x] \in RunType
  BY DEF UnitInv, TypeOK, SkipUnit, FailGate, FailVlm
<1>2. PICK how \in {"no_frames", "skipped", "gate_failed", "vlm_failed"} :
        Settle(x, how) /\ (how = "no_frames" => At(x, "no_frames"))
                       /\ (how = "vlm_failed" => At(x, "vlm_failed"))
  BY DEF SkipUnit, FailGate, FailVlm
<1>3. Keeps(x, "settled", how)
  BY <1>1, <1>2, SettleKeeps DEF Endings
<1>4. /\ run' \in [Runs -> RunType] /\ \A y \in Runs \ {x} : run'[y] = run[y]
      /\ run'[x].pc = "settled" /\ run'[x].end = how
      /\ run'[x].calls = run[x].calls /\ run'[x].provider = run[x].provider
      /\ run'[x].schema = run[x].schema
  BY <1>3 DEF Keeps, NowAt
<1>5. Live(x) /\ ~At(x, "settled")
  BY DEF Live, At, SkipUnit, FailGate, FailVlm
<1>6. /\ unit' \in UnitType /\ unit'.status \in {"failed", "skipped"}
      /\ unit'.status = "failed" =>
           /\ unit'.latest = <<x, 1>>
           /\ At(x, "gate_failed") \/ At(x, "vlm_failed")
  <2>1. CASE SkipUnit(x)
    BY <1>1, <2>1, RowTypes DEF SkipUnit, Errors
  <2>2. CASE FailGate(x)
    <3> DEFINE f == Failed(x, "object_detection_schema_validation_failed")
    <3>1. /\ f \in UnitType /\ f.status = "failed" /\ f.latest = <<x, 1>>
          /\ unit' = [f EXCEPT !.attempts = 0]
      BY <1>1, <2>2, RowTypes DEF FailGate, Errors
    <3> HIDE DEF f
    <3> QED BY <2>2, <3>1 DEF UnitType, FailGate
  <2>3. CASE FailVlm(x)
    <3> DEFINE f == Failed(x, "vlm_error")
    <3>1. /\ f \in UnitType /\ f.status = "failed" /\ f.latest = <<x, 1>>
          /\ unit' = [f EXCEPT !.attempts = run[x].calls]
      BY <1>1, <2>3, RowTypes DEF FailVlm, Errors
    <3> HIDE DEF f
    <3>2. run[x].calls \in Nat
      BY <1>1 DEF RunType
    <3> QED BY <2>3, <3>1, <3>2 DEF UnitType, FailVlm
  <2> QED BY <2>1, <2>2, <2>3
<1>7. TypeOK'
  BY <1>1, <1>4, <1>6 DEF TypeOK
<1>8. LogsOf(x)' = LogsOf(x)
  BY <1>1 DEF LogsOf
<1>9. RunOK(x)'
  <2>1. At(x, "vlm_failed") =>
          LogsOf(x) = EndedCalls(x, run[x].calls, "vlm_failed")
    <3>1. EndedCalls(x, run[x].calls, "vlm_failed") = FailedCalls(x, run[x].calls)
      BY DEF EndedCalls, FailedCalls
    <3> QED BY <1>1, <3>1 DEF RunOK, LogsFollow
  <2>2. At(x, "no_frames") => Early(x)
    BY DEF At, Early, BeforeCalls
  <2> QED BY <1>1, <1>2, <1>4, <1>8, <2>1, <2>2
      DEF RunOK, LogsFollow, EndFollows, Budget, GateFollows, Early, At,
          BeforeCalls, Logging
<1>10. \A y \in Runs : RunOK(y)'
  BY <1>1, <1>4, <1>9, OthersOK
<1>11. IdsFollow' /\ UniqueIds'
  BY <1>1 DEF UnitInv, IdsFollow, UniqueIds
<1>12. Traced'
  <2> SUFFICES ASSUME unit'.status = "failed" PROVE Traced'
    BY DEF Traced
  <2>1. CASE At(x, "gate_failed")
    BY <1>1, <1>6, <2>1 DEF RunOK, GateFollows, Traced
  <2>2. CASE At(x, "vlm_failed")
    <3>1. LogRow(x, <<x, 1>>, 1, "failed") \in FailedCalls(x, run[x].calls)
      BY <1>1, <2>2 DEF RunOK, LogsFollow, FailedCalls, RunType
    <3>2. LogRow(x, <<x, 1>>, 1, "failed") \in logs
      BY <1>1, <2>2, <3>1 DEF RunOK, LogsFollow, LogsOf
    <3> QED BY <1>1, <1>6, <3>2 DEF Traced, LogRow
  <2> QED BY <1>6, <2>1, <2>2
<1> QED BY <1>1, <1>4, <1>5, <1>6, <1>7, <1>10, <1>11, <1>12, TerminalWrite
    DEF UnitInv

\* Reconciliation fails what is still running, and only that.
LEMMA ReconcileStep ==
  ASSUME UnitInv, Reconcile, UNCHANGED setting
  PROVE  UnitInv'
<1>1. /\ TypeOK /\ unit.status = "running"
      /\ unit' = [unit EXCEPT !.status = "failed", !.error = "residual"]
      /\ UNCHANGED <<record, logs, gateLogs, run, setting>>
  BY DEF UnitInv, Reconcile
<1>2. unit' \in UnitType /\ unit'.status = "failed" /\ unit'.error = "residual"
  BY <1>1 DEF TypeOK, UnitType, Errors
<1>3. TypeOK'
  BY <1>1, <1>2 DEF TypeOK
<1>4. \A y \in Runs : RunOK(y)'
  BY <1>1, ZenonT(60) DEF UnitInv, RunOK, LogsFollow, EndFollows, Budget, GateFollows, Early,
              At, LogsOf
<1>5. IdsFollow' /\ UniqueIds' /\ Backed' /\ Traced' /\ Owner'
  BY <1>1, <1>2 DEF UnitInv, IdsFollow, UniqueIds, Backed, Traced, Owner
<1>6. Alone'
  BY <1>1 DEF UnitInv, Alone, Live, At
<1> QED BY <1>3, <1>4, <1>5, <1>6 DEF UnitInv

-----------------------------------------------------------------------------
(* Steps that write a model call log. *)

\* A log under a number the run has not used yet keeps ids unique.
LEMMA NewLog ==
  ASSUME UnitInv, NEW x \in Runs, NEW n \in Nat, NEW k \in Nat,
         NEW s \in LogStatus,
         logs' = logs \cup {LogRow(x, <<x, n>>, k, s)},
         \/ n >= 1 /\ k = n /\ \A l \in LogsOf(x) : l.id # <<x, n>>
         \/ n = 0 /\ k = 1 /\ s = "failed"
  PROVE  /\ logs' \subseteq LogType /\ IdsFollow' /\ UniqueIds'
         /\ LogsOf(x)' = LogsOf(x) \cup {LogRow(x, <<x, n>>, k, s)}
         /\ logs \subseteq logs'
         /\ \A l \in logs' : l \in logs \/ l.run = x
<1> DEFINE r == LogRow(x, <<x, n>>, k, s)
<1>0. x \in Nat
  BY UnitAssumption DEF Runs
<1>1. /\ r \in LogType /\ r.run = x /\ r.id = <<x, n>>
      /\ r.attempt = k /\ r.status = s
  BY <1>0 DEF LogRow, LogType
<1>2. logs \subseteq LogType
  BY DEF UnitInv, TypeOK
<1>3. r = [run |-> x, id |-> <<x, n>>, attempt |-> k, status |-> s]
  BY DEF LogRow
<1> HIDE DEF r
<1>4. logs' = logs \cup {r}
  BY DEF r
<1>5. IdsFollow'
  BY <1>1, <1>4 DEF UnitInv, IdsFollow
<1>6. ASSUME NEW l \in logs, l.id = <<x, n>> PROVE l = r
  <2>1. l \in LogType
    BY <1>2
  <2>2. \/ l.attempt >= 1 /\ l.id = <<l.run, l.attempt>>
        \/ l.id = <<l.run, 0>> /\ l.attempt = 1 /\ l.status = "failed"
    BY DEF UnitInv, IdsFollow
  <2>3. l.run = x
    BY <1>6, <2>2
  <2>4. n = 0
    BY <1>6, <2>3 DEF LogsOf
  <2>5. l.attempt = 1 /\ l.status = "failed"
    BY <1>6, <2>1, <2>2, <2>4 DEF LogType
  <2> QED BY <1>3, <1>6, <2>1, <2>3, <2>4, <2>5 DEF LogType
<1>7. UniqueIds'
  BY <1>1, <1>4, <1>6 DEF UnitInv, UniqueIds
<1>8. LogsOf(x)' = LogsOf(x) \cup {r}
  BY <1>1, <1>4 DEF LogsOf
<1> QED BY <1>1, <1>2, <1>4, <1>5, <1>7, <1>8 DEF r

\* The next attempt is logged under its own number.
LEMMA NextCall ==
  ASSUME UnitInv, NEW x \in Runs, run[x].pc \in Logging
  PROVE  /\ run[x].calls \in Nat /\ run[x].calls >= 1
         /\ \A l \in LogsOf(x) : l.id # <<x, run[x].calls>>
         /\ LogsOf(x) \cup {LogRow(x, <<x, run[x].calls>>, run[x].calls, "failed")}
              = FailedCalls(x, run[x].calls)
         /\ LogsOf(x) \cup {LogRow(x, <<x, run[x].calls>>, run[x].calls, "succeeded")}
              = EndedCalls(x, run[x].calls, "published")
<1> DEFINE n == run[x].calls
<1>1. n \in Nat /\ n >= 1 /\ LogsOf(x) = FailedCalls(x, n - 1)
  BY DEF UnitInv, TypeOK, RunType, RunOK, LogsFollow
<1> HIDE DEF n
<1>2. \A l \in FailedCalls(x, n - 1) : l.id # <<x, n>>
  BY <1>1 DEF FailedCalls, LogRow
<1>3. 1..n = (1..(n - 1)) \cup {n} /\ \A a \in 1..(n - 1) : a # n
  BY <1>1
<1>4. FailedCalls(x, n - 1) \cup {LogRow(x, <<x, n>>, n, "failed")} = FailedCalls(x, n)
  BY <1>3 DEF FailedCalls
<1>5. FailedCalls(x, n - 1) \cup {LogRow(x, <<x, n>>, n, "succeeded")}
        = EndedCalls(x, n, "published")
  BY <1>3 DEF FailedCalls, EndedCalls
<1> QED BY <1>1, <1>2, <1>4, <1>5 DEF n

\* A frame failure is logged as the first call: the run has logged none yet.
LEMMA FailFramesStep ==
  ASSUME UnitInv, NEW x \in Runs, FailFrames(x), UNCHANGED setting
  PROVE  UnitInv'
<1>1. /\ TypeOK /\ RunOK(x) /\ UNCHANGED <<record, gateLogs>>
      /\ At(x, "frames_failed")
      /\ unit' = Failed(x, "frame_extraction_failed")
      /\ logs' = logs \cup {LogRow(x, <<x, 1>>, 1, "failed")}
      /\ Settle(x, "frame_failed")
  BY DEF UnitInv, FailFrames, MCall
<1>2. /\ run' \in [Runs -> RunType] /\ \A y \in Runs \ {x} : run'[y] = run[y]
      /\ run'[x].pc = "settled" /\ run'[x].end = "frame_failed"
      /\ run'[x].calls = run[x].calls /\ run'[x].provider = run[x].provider
      /\ run'[x].schema = run[x].schema
  <2>1. Keeps(x, "settled", "frame_failed")
    BY <1>1, SettleKeeps DEF Endings
  <2> QED BY <2>1 DEF Keeps, NowAt
<1>3. LogsOf(x) = {}
  BY <1>1 DEF RunOK, LogsFollow, Early, At, BeforeCalls
<1>4. /\ logs' \subseteq LogType /\ IdsFollow' /\ UniqueIds'
      /\ logs \subseteq logs'
      /\ \A l \in logs' : l \in logs \/ l.run = x
  <2>1. /\ 1 \in Nat /\ 1 >= 1 /\ "failed" \in LogStatus
        /\ \A l \in LogsOf(x) : l.id # <<x, 1>>
    BY <1>3 DEF LogStatus
  <2> QED BY <1>1, <2>1, NewLog
<1>5. unit' \in UnitType /\ unit'.status = "failed" /\ unit'.latest = <<x, 1>>
  BY <1>1, RowTypes DEF Errors
<1>6. TypeOK'
  BY <1>1, <1>2, <1>4, <1>5 DEF TypeOK
<1>7. RunOK(x)'
  BY <1>1, <1>2
  DEF RunOK, LogsFollow, EndFollows, Budget, GateFollows, Early, At, BeforeCalls,
      Logging
<1>8. \A y \in Runs : RunOK(y)'
  BY <1>1, <1>2, <1>4, <1>7, OthersOK
<1>9. Traced'
  <2> DEFINE r == LogRow(x, <<x, 1>>, 1, "failed")
  <2>1. r \in logs' /\ r.run = x /\ r.status = "failed" /\ unit'.latest[1] = x
    BY <1>1, <1>5 DEF LogRow
  <2> QED BY <2>1 DEF Traced
<1>10. Owner' /\ Alone' /\ Backed'
  BY <1>1, <1>2, <1>5, TerminalWrite DEF Live, At
<1> QED BY <1>4, <1>6, <1>8, <1>9, <1>10 DEF UnitInv

\* The guard's log: it may have been written before, by the same run.
LEMMA ForceTerminalizeStep ==
  ASSUME UnitInv, NEW x \in Runs, ForceTerminalize(x), UNCHANGED setting
  PROVE  UnitInv'
<1>1. /\ TypeOK /\ RunOK(x) /\ UNCHANGED <<record, gateLogs>>
      /\ At(x, "guard")
      /\ unit' = Failed(x, "analysis_unit_failed")
      /\ logs' = logs \cup {LogRow(x, <<x, 0>>, 1, "failed")}
      /\ Leave(x, "guard")
  BY DEF UnitInv, ForceTerminalize, GuardCall
<1>2. /\ run' \in [Runs -> RunType] /\ \A y \in Runs \ {x} : run'[y] = run[y]
      /\ run'[x].pc = "done" /\ run'[x].end = "guard"
      /\ run'[x].calls = run[x].calls /\ run'[x].provider = run[x].provider
      /\ run'[x].schema = run[x].schema
  <2>1. Keeps(x, "done", "guard")
    BY <1>1, LeaveKeeps DEF Endings
  <2> QED BY <2>1 DEF Keeps, NowAt
<1>4. /\ logs' \subseteq LogType /\ IdsFollow' /\ UniqueIds'
      /\ logs \subseteq logs'
      /\ \A l \in logs' : l \in logs \/ l.run = x
  BY <1>1, NewLog DEF LogStatus
<1>5. unit' \in UnitType /\ unit'.status = "failed" /\ unit'.latest = <<x, 1>>
  BY <1>1, RowTypes DEF Errors
<1>6. TypeOK'
  BY <1>1, <1>2, <1>4, <1>5 DEF TypeOK
<1>7. RunOK(x)'
  BY <1>1, <1>2
  DEF RunOK, LogsFollow, EndFollows, Budget, GateFollows, Early, At, BeforeCalls,
      Logging
<1>8. \A y \in Runs : RunOK(y)'
  BY <1>1, <1>2, <1>4, <1>7, OthersOK
<1>9. Traced'
  <2> DEFINE r == LogRow(x, <<x, 0>>, 1, "failed")
  <2>1. r \in logs' /\ r.run = x /\ r.status = "failed" /\ unit'.latest[1] = x
    BY <1>1, <1>5 DEF LogRow
  <2> QED BY <2>1 DEF Traced
<1>10. Owner' /\ Alone' /\ Backed'
  BY <1>1, <1>2, <1>5, TerminalWrite DEF Live, At
<1> QED BY <1>4, <1>6, <1>8, <1>9, <1>10 DEF UnitInv

\* A failed attempt is logged before the next one or before the unit fails.
LEMMA LogFailedAttemptStep ==
  ASSUME UnitInv, NEW x \in Runs, LogFailedAttempt(x), UNCHANGED setting
  PROVE  UnitInv'
<1>1. /\ TypeOK /\ RunOK(x) /\ UNCHANGED <<unit, record, gateLogs>>
      /\ run[x].pc \in {"log_retry", "log_last"} /\ run[x].pc \in Logging
      /\ logs' = logs \cup {LogRow(x, <<x, run[x].calls>>, run[x].calls, "failed")}
      /\ Goto(x, IF At(x, "log_retry") THEN "vlm" ELSE "vlm_failed")
  BY DEF UnitInv, LogFailedAttempt, Logging
<1>2. PICK place \in {"vlm", "vlm_failed"} :
        Goto(x, place) /\ (place = "vlm" <=> At(x, "log_retry"))
  BY <1>1
<1>3. /\ run' \in [Runs -> RunType] /\ \A y \in Runs \ {x} : run'[y] = run[y]
      /\ run'[x].pc = place /\ run'[x].end = run[x].end
      /\ run'[x].calls = run[x].calls /\ run'[x].provider = run[x].provider
      /\ run'[x].schema = run[x].schema
  <2>1. Keeps(x, place, run[x].end)
    BY <1>1, <1>2, GotoKeeps DEF Places
  <2> QED BY <2>1 DEF Keeps, NowAt
<1>4. /\ run[x].calls \in Nat /\ run[x].calls >= 1
      /\ \A l \in LogsOf(x) : l.id # <<x, run[x].calls>>
      /\ LogsOf(x) \cup {LogRow(x, <<x, run[x].calls>>, run[x].calls, "failed")}
           = FailedCalls(x, run[x].calls)
  BY <1>1, NextCall
<1>5. /\ logs' \subseteq LogType /\ IdsFollow' /\ UniqueIds'
      /\ LogsOf(x)' = FailedCalls(x, run[x].calls)
      /\ logs \subseteq logs'
      /\ \A l \in logs' : l \in logs \/ l.run = x
  <2>1. "failed" \in LogStatus
    BY DEF LogStatus
  <2> QED BY <1>1, <1>4, <2>1, NewLog
<1>6. TypeOK'
  BY <1>1, <1>3, <1>5 DEF TypeOK
<1>7. run[x].end = "none"
  BY <1>1 DEF RunOK, EndFollows
<1>8. RunOK(x)'
  <2>1. LogsFollow(x)'
    BY <1>2, <1>3, <1>4, <1>5, <1>7 DEF LogsFollow, Early, At, BeforeCalls, Logging
  <2>2. EndFollows(x)' /\ GateFollows(x)'
    BY <1>2, <1>3, <1>7 DEF EndFollows, GateFollows, At
  <2>3. Budget(x)'
    BY <1>1, <1>2, <1>3, <1>7 DEF RunOK, Budget, Early, At, BeforeCalls
  <2> QED BY <2>1, <2>2, <2>3 DEF RunOK
<1>9. \A y \in Runs : RunOK(y)'
  BY <1>1, <1>3, <1>5, <1>8, OthersOK
<1>10. Traced' /\ Backed'
  BY <1>1, <1>5 DEF UnitInv, Traced, Backed
<1>11. Owner'
  BY <1>1, <1>2, <1>3, OwnerStays DEF At
<1>12. Alone'
  <2>1. Live(x) /\ ~At(x, "settled")
    BY <1>1 DEF Live, At
  <2>2. ~(~setting.overlap /\ setting.failOpen /\ record' # 0)
    BY <1>1, <2>1 DEF UnitInv, Alone
  <2> QED BY <1>3, <2>1, <2>2, AloneStays
<1> QED BY <1>5, <1>6, <1>9, <1>10, <1>11, <1>12 DEF UnitInv

-----------------------------------------------------------------------------
(* Attempts and gates. *)

\* An attempt was made, and it is counted before anything is written.
LEMMA AttemptStep ==
  ASSUME UnitInv, NEW x \in Runs, UNCHANGED setting,
         \/ AttemptSucceeds(x)
         \/ \E kind \in {"provider", "schema", "other"} : AttemptFails(x, kind)
  PROVE  UnitInv'
<1>1. /\ TypeOK /\ RunOK(x) /\ UNCHANGED <<unit, record, logs, gateLogs>>
      /\ At(x, "vlm") /\ run[x] \in RunType
  BY DEF UnitInv, TypeOK, AttemptSucceeds, AttemptFails, rows
<1>2. PICK place \in Logging, provider, schema \in Nat :
        /\ NowAt(x, place, run[x].end, run[x].calls + 1, provider, schema)
        /\ place = "log_retry" =>
             /\ run[x].calls + 1 = provider + schema
             /\ provider < MaxAttempts /\ schema <= SchemaMax
  <2>0. /\ run[x].calls = run[x].provider + run[x].schema
        /\ run[x].provider < MaxAttempts /\ run[x].schema <= SchemaMax
        /\ run[x].calls \in Nat /\ run[x].provider \in Nat /\ run[x].schema \in Nat
    BY <1>1 DEF RunOK, Budget, RunType
  <2>1. CASE AttemptSucceeds(x)
    BY <1>1, <2>0, <2>1, AttemptSucceedsMoves DEF Logging
  <2>2. ASSUME NEW kind \in {"provider", "schema", "other"}, AttemptFails(x, kind)
        PROVE  \E place \in Logging, provider, schema \in Nat :
                 /\ NowAt(x, place, run[x].end, run[x].calls + 1, provider, schema)
                 /\ place = "log_retry" =>
                      /\ run[x].calls + 1 = provider + schema
                      /\ provider < MaxAttempts /\ schema <= SchemaMax
    <3>1. PICK place \in {"log_retry", "log_last"}, provider, schema \in Nat :
           /\ provider = run[x].provider + (IF kind = "provider" THEN 1 ELSE 0)
           /\ schema = run[x].schema + (IF kind = "schema" THEN 1 ELSE 0)
           /\ place = "log_retry" <=> WillRetry(kind, provider, schema)
           /\ NowAt(x, place, run[x].end, run[x].calls + 1, provider, schema)
      BY <1>1, <2>2, AttemptFailsMoves
    <3>2. place = "log_retry" =>
             /\ run[x].calls + 1 = provider + schema
             /\ provider < MaxAttempts /\ schema <= SchemaMax
      BY <2>0, <3>1, UnitAssumption DEF WillRetry
    <3> QED BY <3>1, <3>2 DEF Logging
  <2> QED BY <2>1, <2>2
<1>3. /\ run' \in [Runs -> RunType] /\ \A y \in Runs \ {x} : run'[y] = run[y]
      /\ run'[x].pc = place /\ run'[x].end = run[x].end
      /\ run'[x].calls = run[x].calls + 1 /\ run'[x].provider = provider
      /\ run'[x].schema = schema
  BY <1>2 DEF NowAt
<1>4. run[x].end = "none"
  BY <1>1 DEF RunOK, EndFollows, At
<1>5. /\ run[x].calls \in Nat /\ LogsOf(x) = FailedCalls(x, run[x].calls)
      /\ LogsOf(x)' = LogsOf(x)
  BY <1>1 DEF RunType, RunOK, LogsFollow, LogsOf
<1>6. RunOK(x)'
  <2>1. LogsFollow(x)'
    <3>1. run'[x].calls >= 1 /\ run'[x].calls - 1 = run[x].calls
      BY <1>3, <1>5
    <3>2. ~Early(x)' /\ ~At(x, "vlm")' /\ ~At(x, "vlm_failed")'
      BY <1>2, <1>3, <1>4 DEF Early, At, BeforeCalls, Logging
    <3> QED BY <1>3, <1>4, <1>5, <3>1, <3>2 DEF LogsFollow
  <2>2. EndFollows(x)' /\ GateFollows(x)'
    BY <1>2, <1>3, <1>4 DEF EndFollows, GateFollows, At, Logging
  <2>3. Budget(x)'
    BY <1>1, <1>2, <1>3, <1>4, UnitAssumption
    DEF RunOK, Budget, Early, At, BeforeCalls, Logging, RunType
  <2> QED BY <2>1, <2>2, <2>3 DEF RunOK
<1>7. \A y \in Runs : RunOK(y)'
  BY <1>1, <1>3, <1>6, OthersOK
<1>8. TypeOK' /\ IdsFollow' /\ UniqueIds' /\ Traced' /\ Backed'
  BY <1>1, <1>3 DEF UnitInv, TypeOK, IdsFollow, UniqueIds, Traced, Backed
<1>9. Owner'
  BY <1>1, <1>2, <1>3, OwnerStays DEF At, Logging
<1>10. Alone'
  <2>1. Live(x) /\ ~At(x, "settled")
    BY <1>1 DEF Live, At
  <2>2. ~(~setting.overlap /\ setting.failOpen /\ record' # 0)
    BY <1>1, <2>1 DEF UnitInv, Alone
  <2> QED BY <1>3, <2>1, <2>2, AloneStays
<1> QED BY <1>7, <1>8, <1>9, <1>10 DEF UnitInv

\* The gate's log is written before the run acts on the decision.
LEMMA GateStep ==
  ASSUME UnitInv, NEW x \in Runs, GateDecides(x) \/ GateSchemaFails(x),
         UNCHANGED setting
  PROVE  UnitInv'
<1>1. /\ TypeOK /\ RunOK(x) /\ UNCHANGED <<unit, record, logs>>
      /\ At(x, "gate")
  BY DEF UnitInv, GateDecides, GateSchemaFails
<1>2. PICK place \in {"vlm", "detector_only", "suppressed", "gate_failed"},
           s \in LogStatus :
        /\ Goto(x, place) /\ gateLogs' = gateLogs \cup {[run |-> x, status |-> s]}
        /\ (place = "detector_only" => s = "succeeded")
        /\ (place = "gate_failed" => s = "failed")
  <2>1. CASE GateDecides(x)
    BY <2>1 DEF GateDecides, AfterGate, LogStatus
  <2>2. CASE GateSchemaFails(x)
    BY <2>2 DEF GateSchemaFails, LogStatus
  <2> QED BY <2>1, <2>2
<1>3. /\ run' \in [Runs -> RunType] /\ \A y \in Runs \ {x} : run'[y] = run[y]
      /\ run'[x].pc = place /\ run'[x].end = run[x].end
      /\ run'[x].calls = run[x].calls /\ run'[x].provider = run[x].provider
      /\ run'[x].schema = run[x].schema
  <2>1. Keeps(x, place, run[x].end)
    BY <1>1, <1>2, GotoKeeps DEF Places, BeforeCalls
  <2> QED BY <2>1 DEF Keeps, NowAt
<1>4. gateLogs' \subseteq GateLogType /\ gateLogs \subseteq gateLogs'
  BY <1>1, <1>2 DEF TypeOK, GateLogType
<1>5. run[x].end = "none" /\ LogsOf(x)' = LogsOf(x)
  BY <1>1 DEF RunOK, EndFollows, At, LogsOf
<1>6. run[x].calls = 0 /\ LogsOf(x) = {} /\ run[x].provider = 0 /\ run[x].schema = 0
  BY <1>1 DEF RunOK, LogsFollow, Budget, Early, At, BeforeCalls
<1>7. RunOK(x)'
  <2>1. FailedCalls(x, 0) = {}
    BY DEF FailedCalls
  <2>2. LogsFollow(x)'
    BY <1>2, <1>3, <1>5, <1>6, <2>1 DEF LogsFollow, Early, At, BeforeCalls, Logging
  <2>3. EndFollows(x)' /\ GateFollows(x)'
    BY <1>2, <1>3, <1>5 DEF EndFollows, GateFollows, At
  <2>4. Budget(x)'
    BY <1>2, <1>3, <1>6, UnitAssumption DEF Budget, At
  <2> QED BY <2>2, <2>3, <2>4 DEF RunOK
<1>8. \A y \in Runs : RunOK(y)'
  BY <1>1, <1>3, <1>4, <1>7, OthersOK
<1>9. TypeOK' /\ IdsFollow' /\ UniqueIds' /\ Traced' /\ Backed'
  BY <1>1, <1>3, <1>4 DEF UnitInv, TypeOK, IdsFollow, UniqueIds, Traced, Backed
<1>10. Owner'
  BY <1>1, <1>2, <1>3, OwnerStays DEF At
<1>11. Alone'
  <2>1. Live(x) /\ ~At(x, "settled")
    BY <1>1 DEF Live, At
  <2>2. ~(~setting.overlap /\ setting.failOpen /\ record' # 0)
    BY <1>1, <2>1 DEF UnitInv, Alone
  <2> QED BY <1>3, <2>1, <2>2, AloneStays
<1> QED BY <1>8, <1>9, <1>10, <1>11 DEF UnitInv

-----------------------------------------------------------------------------
(* Publication. *)

\* What the two publications share: the unit names the record of this run.
LEMMA PublishedUnit ==
  ASSUME UnitInv, NEW x \in Runs, UNCHANGED setting, Live(x),
         \A y \in Runs \ {x} : run'[y] = run[y], At(x, "settled")',
         record' = x, unit'.status = "succeeded", unit'.produced = x,
         \/ \E l \in logs' : l.id = unit'.success /\ l.status = "succeeded"
         \/ /\ unit'.success = NoCall
            /\ [run |-> x, status |-> "succeeded"] \in gateLogs'
  PROVE  Backed' /\ Traced' /\ Owner' /\ Alone'
<1>1. x # 0
  BY UnitAssumption DEF Runs
<1>2. Backed'
  BY <1>1 DEF Backed
<1>3. Traced' /\ Owner'
  BY DEF Traced, Owner
<1>4. Alone'
  BY AloneStays
<1> QED BY <1>2, <1>3, <1>4

\* _publish_and_mark: the log of the last attempt is the one that succeeded.
LEMMA PublishStep ==
  ASSUME UnitInv, NEW x \in Runs, Publish(x), UNCHANGED setting
  PROVE  UnitInv'
<1> DEFINE n == run[x].calls
<1>1. /\ TypeOK /\ RunOK(x) /\ UNCHANGED gateLogs
      /\ At(x, "publish") /\ run[x].pc \in Logging
      /\ record' = x
      /\ logs' = logs \cup {LogRow(x, <<x, n>>, n, "succeeded")}
      /\ unit' = Succeeded(x, <<x, n>>, n)
      /\ Settle(x, "published")
  BY DEF UnitInv, Publish, Logging, At
<1>2. /\ run' \in [Runs -> RunType] /\ \A y \in Runs \ {x} : run'[y] = run[y]
      /\ run'[x].pc = "settled" /\ run'[x].end = "published"
      /\ run'[x].calls = n /\ run'[x].provider = run[x].provider
      /\ run'[x].schema = run[x].schema
  <2>1. Keeps(x, "settled", "published")
    BY <1>1, SettleKeeps DEF Endings
  <2> QED BY <2>1 DEF Keeps, NowAt
<1>3. /\ n \in Nat /\ n >= 1
      /\ \A l \in LogsOf(x) : l.id # <<x, n>>
      /\ LogsOf(x) \cup {LogRow(x, <<x, n>>, n, "succeeded")}
           = EndedCalls(x, n, "published")
  BY <1>1, NextCall
<1> HIDE DEF n
<1>4. /\ logs' \subseteq LogType /\ IdsFollow' /\ UniqueIds'
      /\ LogsOf(x)' = EndedCalls(x, n, "published")
      /\ logs \subseteq logs'
      /\ \A l \in logs' : l \in logs \/ l.run = x
  <2>1. "succeeded" \in LogStatus
    BY DEF LogStatus
  <2> QED BY <1>1, <1>3, <2>1, NewLog
<1>5. unit' \in UnitType /\ x \in Nat
  BY <1>1, <1>3, RowTypes
<1>6. unit'.status = "succeeded" /\ unit'.produced = x /\ unit'.success = <<x, n>>
  BY <1>1 DEF Succeeded
<1>7. TypeOK'
  BY <1>1, <1>2, <1>4, <1>5 DEF TypeOK
<1>8. RunOK(x)'
  <2>1. LogsFollow(x)'
    BY <1>2, <1>4 DEF LogsFollow, Early, At, BeforeCalls, Logging
  <2>2. EndFollows(x)' /\ GateFollows(x)'
    BY <1>2 DEF EndFollows, GateFollows, At
  <2>3. Budget(x)'
    BY <1>1, <1>2 DEF RunOK, Budget, Early, At, BeforeCalls, n
  <2> QED BY <2>1, <2>2, <2>3 DEF RunOK
<1>9. \A y \in Runs : RunOK(y)'
  BY <1>1, <1>2, <1>4, <1>8, OthersOK
<1>10. Backed' /\ Traced' /\ Owner' /\ Alone'
  <2> DEFINE r == LogRow(x, <<x, n>>, n, "succeeded")
  <2>1. r \in logs' /\ r.id = unit'.success /\ r.status = "succeeded"
    BY <1>1, <1>6 DEF LogRow
  <2> HIDE DEF r
  <2>2. \E l \in logs' : l.id = unit'.success /\ l.status = "succeeded"
    BY <2>1
  <2>3. Live(x) /\ At(x, "settled")'
    BY <1>1, <1>2 DEF Live, At
  <2> QED BY <1>1, <1>2, <1>6, <2>2, <2>3, PublishedUnit
<1> QED BY <1>4, <1>7, <1>9, <1>10 DEF UnitInv

\* _publish_detector_only_unit: the gate's log backs the record.
LEMMA PublishDetectorOnlyStep ==
  ASSUME UnitInv, NEW x \in Runs, PublishDetectorOnly(x), UNCHANGED setting
  PROVE  UnitInv'
<1>1. /\ TypeOK /\ RunOK(x) /\ UNCHANGED <<logs, gateLogs>>
      /\ At(x, "detector_only")
      /\ record' = x
      /\ unit' = Succeeded(x, NoCall, 0)
      /\ Settle(x, "detector_only")
  BY DEF UnitInv, PublishDetectorOnly
<1>2. /\ run' \in [Runs -> RunType] /\ \A y \in Runs \ {x} : run'[y] = run[y]
      /\ run'[x].pc = "settled" /\ run'[x].end = "detector_only"
      /\ run'[x].calls = run[x].calls /\ run'[x].provider = run[x].provider
      /\ run'[x].schema = run[x].schema
  <2>1. Keeps(x, "settled", "detector_only")
    BY <1>1, SettleKeeps DEF Endings
  <2> QED BY <2>1 DEF Keeps, NowAt
<1>3. unit' \in UnitType /\ x \in Nat
  BY <1>1, RowTypes
<1>4. unit'.status = "succeeded" /\ unit'.produced = x /\ unit'.success = NoCall
  BY <1>1 DEF Succeeded
<1>5. TypeOK' /\ IdsFollow' /\ UniqueIds'
  BY <1>1, <1>2, <1>3 DEF UnitInv, TypeOK, IdsFollow, UniqueIds
<1>6. RunOK(x)'
  <2>1. LogsFollow(x)'
    BY <1>2 DEF LogsFollow, Early, At, BeforeCalls, Logging
  <2>2. EndFollows(x)' /\ GateFollows(x)'
    BY <1>2 DEF EndFollows, GateFollows, At
  <2>3. Budget(x)'
    BY <1>1, <1>2 DEF RunOK, Budget, Early, At, BeforeCalls
  <2> QED BY <2>1, <2>2, <2>3 DEF RunOK
<1>7. \A y \in Runs : RunOK(y)'
  BY <1>1, <1>2, <1>6, OthersOK
<1>8. Backed' /\ Traced' /\ Owner' /\ Alone'
  <2>1. [run |-> x, status |-> "succeeded"] \in gateLogs'
    BY <1>1 DEF RunOK, GateFollows
  <2>2. Live(x) /\ At(x, "settled")'
    BY <1>1, <1>2 DEF Live, At
  <2> QED BY <1>1, <1>2, <1>4, <2>1, <2>2, PublishedUnit
<1> QED BY <1>5, <1>7, <1>8 DEF UnitInv

-----------------------------------------------------------------------------
(* The theorems. *)

\* A unit that is pending satisfies the invariant.
LEMMA UnitInvInit == Init => UnitInv
<1> SUFFICES ASSUME Init PROVE UnitInv
  OBVIOUS
<1>1. TypeOK
  <2>1. unit \in UnitType
    BY DEF Init, UnitType, Errors, NoCall
  <2>2. run \in [Runs -> RunType]
    BY DEF Init, RunType, Places, BeforeCalls, Endings
  <2> QED BY <2>1, <2>2 DEF Init, TypeOK
<1>2. ASSUME NEW x \in Runs PROVE RunOK(x)
  <2>1. /\ run[x].pc = "idle" /\ run[x].calls = 0 /\ run[x].provider = 0
        /\ run[x].schema = 0 /\ run[x].end = "none" /\ LogsOf(x) = {}
    BY DEF Init, LogsOf
  <2> QED BY <2>1, UnitAssumption
      DEF RunOK, LogsFollow, EndFollows, Budget, GateFollows, Early, At,
          BeforeCalls, Logging
<1>3. IdsFollow /\ UniqueIds /\ Backed /\ Traced /\ Owner
  BY DEF Init, IdsFollow, UniqueIds, Backed, Traced, Owner
<1>4. Alone
  BY DEF Init, Alone, Live
<1> QED BY <1>1, <1>2, <1>3, <1>4 DEF UnitInv

\* Every step of every runner keeps the invariant.
LEMMA UnitInvStep == UnitInv /\ [Next]_vars => UnitInv'
<1> SUFFICES ASSUME UnitInv, [Next]_vars PROVE UnitInv'
  OBVIOUS
<1>1. CASE UNCHANGED vars
  <2>1. UNCHANGED <<setting, unit, record, logs, gateLogs, run>>
    BY <1>1 DEF vars
  <2>2. TypeOK' /\ IdsFollow' /\ UniqueIds' /\ Backed' /\ Traced' /\ Owner'
    BY <2>1 DEF UnitInv, TypeOK, IdsFollow, UniqueIds, Backed, Traced, Owner, At
  <2>3. Alone'
    BY <2>1 DEF UnitInv, Alone, Live, At
  <2>4. \A x \in Runs : RunOK(x)'
    BY <2>1 DEF UnitInv, RunOK, LogsFollow, EndFollows, Budget, GateFollows, Early,
                At, LogsOf
  <2> QED BY <2>2, <2>3, <2>4 DEF UnitInv
<1>2. CASE Next
  <2>1. UNCHANGED setting
    BY <1>2 DEF Next
  <2>2. CASE Reconcile
    BY <2>1, <2>2, ReconcileStep
  <2>3. ASSUME NEW x \in Runs, Step(x) PROVE UnitInv'
    <3>1. TypeOK
      BY DEF UnitInv
    <3>2. CASE \/ Start(x) /\ unit.status \in {"succeeded", "skipped"}
               \/ StartFails(x) \/ SelectFrames(x) \/ SkipUnitFails(x) \/ NoGate(x) \/ BodyRaises(x)
               \/ ForceTerminalizeFails(x) \/ Return(x) \/ TimelineRaises(x)
               \/ Crash(x)
      <4>1. QuietMove(x)
        BY <3>1, <3>2, QuietSteps
      <4> QED BY <2>1, <4>1, QuietStep
    <3>3. CASE Start(x) /\ unit.status \notin {"succeeded", "skipped"}
      BY <2>1, <3>3, StartStep
    <3>4. CASE SkipUnit(x) \/ FailGate(x) \/ FailVlm(x)
      BY <2>1, <3>4, UnitWriteStep
    <3>5. CASE FailFrames(x)
      BY <2>1, <3>5, FailFramesStep
    <3>6. CASE GateDecides(x) \/ GateSchemaFails(x)
      BY <2>1, <3>6, GateStep
    <3>7. CASE \/ AttemptSucceeds(x)
               \/ \E kind \in {"provider", "schema", "other"} : AttemptFails(x, kind)
      BY <2>1, <3>7, AttemptStep
    <3>8. CASE LogFailedAttempt(x)
      BY <2>1, <3>8, LogFailedAttemptStep
    <3>9. CASE Publish(x)
      BY <2>1, <3>9, PublishStep
    <3>10. CASE PublishDetectorOnly(x)
      BY <2>1, <3>10, PublishDetectorOnlyStep
    <3>11. CASE ForceTerminalize(x)
      BY <2>1, <3>11, ForceTerminalizeStep
    <3> QED BY <2>3, <3>2, <3>3, <3>4, <3>5, <3>6, <3>7, <3>8, <3>9, <3>10, <3>11
        DEF Step
  <2> QED BY <1>2, <2>2, <2>3 DEF Next
<1> QED BY <1>1, <1>2

\* The inductive invariant holds in every reachable state: every row and every
\* run of the two unit processors is of its type, and the log of each run is the
\* history of its attempts.
THEOREM UnitInvHolds == Spec => []UnitInv
BY UnitInvInit, UnitInvStep, PTL DEF Spec

\* A succeeded unit is backed by the active record and a succeeded call or gate
\* log, however many workers run it; a unit that one worker failed or skipped has
\* published nothing (_execute_running_unit, _force_terminalize_running).
THEOREM OutcomeBacked == Spec => []OutcomeIsBacked
<1>1. UnitInv => OutcomeIsBacked
  BY DEF UnitInv, Backed, Alone, OutcomeIsBacked
<1> QED BY <1>1, UnitInvHolds, PTL

\* Every failure leaves a trace, call ids are unique, and the log of a run that
\* ended by its VLM calls is exactly its attempts, within the two budgets
\* (_log_failed_attempt, _log_success, the retry loop of both processors).
THEOREM CallsAccountedFor == Spec => []CallsAreAccountedFor
<1>1. UnitInv => CallsAreAccountedFor
  <2> SUFFICES ASSUME UnitInv PROVE CallsAreAccountedFor
    OBVIOUS
  <2>1. Traced /\ UniqueIds
    BY DEF UnitInv
  <2>2. ASSUME NEW x \in Runs
        PROVE  /\ run[x].calls <= MaxAttempts + SchemaMax
               /\ run[x].end \in {"vlm_failed", "published"} =>
                    LogsOf(x) = EndedCalls(x, run[x].calls, run[x].end)
    BY DEF UnitInv, RunOK, Budget, LogsFollow
  <2> QED BY <2>1, <2>2 DEF CallsAreAccountedFor, Traced, UniqueIds, LogsOf, EndedCalls
<1> QED BY <1>1, UnitInvHolds, PTL

\* A unit is left running only by a live run, a crash, a lost guard write or an
\* event that escaped the guard: what reconciliation exists for.
THEOREM RunningOwned == Spec => []RunningIsOwned
<1>1. UnitInv => RunningIsOwned
  BY DEF UnitInv, Owner, RunningIsOwned, Live, At
<1> QED BY <1>1, UnitInvHolds, PTL

-----------------------------------------------------------------------------
(* A run implements UnitContract. *)

\* Where a run is decides what the scheduler sees of it.
LEMMA AttemptIs ==
  ASSUME NEW x \in Runs
  PROVE  /\ At(x, "idle") => AttemptOf(x) = "none"
         /\ At(x, "done") /\ run[x].end = "crashed" => AttemptOf(x) = "none"
         /\ At(x, "settled") \/ (At(x, "done") /\ run[x].end # "crashed") =>
              AttemptOf(x) = OutcomeOf(run[x].end)
         /\ run[x].pc \notin {"idle", "settled", "done"} => AttemptOf(x) = "running"
BY DEF AttemptOf, At

\* Every ending is one of the three outcomes.
LEMMA OutcomeType == \A end : OutcomeOf(end) \in {"succeeded", "skipped", "failed"}
BY DEF OutcomeOf

\* A step of run x turns at most its own attempt.
LEMMA ContractTurn ==
  ASSUME NEW x \in Runs, \A y \in Runs \ {x} : run'[y] = run[y], UNCHANGED setting
  PROVE  /\ Contract!Turn(x, AttemptOf(x)')
         /\ UNCHANGED <<unit, record>> /\ AttemptOf(x)' = AttemptOf(x) =>
              UNCHANGED Contract!vars
<1>1. \A y \in Runs \ {x} : AttemptOf(y)' = AttemptOf(y)
  BY DEF AttemptOf, At
<1>2. Attempts' = [Attempts EXCEPT ![x] = AttemptOf(x)']
  BY <1>1 DEF Attempts
<1>3. AttemptOf(x)' = AttemptOf(x) => Attempts' = Attempts
  BY <1>1 DEF Attempts
<1> QED BY <1>2, <1>3 DEF Contract!Turn, Contract!vars

\* The steps of the contract.
LEMMA ContractSteps ==
  ASSUME NEW x \in Runs,
         \/ Contract!Begin(x) \/ Contract!Decline(x) \/ Contract!Lose(x)
         \/ Contract!Forget(x) \/ Contract!Reopen(x)
         \/ Contract!End(x, "succeeded") \/ Contract!End(x, "skipped")
         \/ Contract!End(x, "failed")
  PROVE  Contract!Next
BY DEF Contract!Next, Contract!Outcome, Contract!Final

\* Without overlap nobody else is at work while run x is live.
LEMMA NobodyElse ==
  ASSUME UnitInv, NEW x \in Runs, ~setting.overlap, Live(x), AttemptOf(x) # "running"
  PROVE  \A y \in Runs : Attempts[y] # "running"
<1>1. \A y \in Runs \ {x} : ~Live(y)
  BY DEF UnitInv, Alone
<1>2. \A y \in Runs : ~Live(y) => AttemptOf(y) # "running"
  BY AttemptIs, OutcomeType DEF Live, At
<1> QED BY <1>1, <1>2 DEF Attempts

\* Steps that write no row: an early return, an end without a write, a death,
\* or, with a recorder that raises, a second start after the terminal write.
LEMMA QuietSimulation ==
  ASSUME UnitInv, NEW x \in Runs, QuietMove(x), UNCHANGED setting
  PROVE  [Contract!Next]_(Contract!vars)
<1>1. /\ UNCHANGED <<unit, record>>
      /\ \A y \in Runs \ {x} : run'[y] = run[y]
      /\ Attempts[x] = AttemptOf(x)
  BY DEF QuietMove, rows, Keeps, NowAt, Attempts
<1>2. Contract!Turn(x, AttemptOf(x)')
  BY <1>1, ContractTurn
<1>3. AttemptOf(x)' = AttemptOf(x) => UNCHANGED Contract!vars
  BY <1>1, ContractTurn
<1>m. /\ At(x, "idle")' => AttemptOf(x)' = "none"
      /\ At(x, "done")' /\ run'[x].end = "crashed" => AttemptOf(x)' = "none"
      /\ At(x, "settled")' \/ (At(x, "done")' /\ run'[x].end # "crashed") =>
           AttemptOf(x)' = OutcomeOf(run'[x].end)
      /\ run'[x].pc \notin {"idle", "settled", "done"} => AttemptOf(x)' = "running"
  BY DEF AttemptOf, At
<1>e. At(x, "settled") => run[x].end # "crashed"
  BY DEF UnitInv, RunOK, EndFollows
<1>4. CASE /\ At(x, "idle") /\ unit.status \in {"succeeded", "skipped"}
           /\ Keeps(x, "done", unit.status)
  <2>1. AttemptOf(x) = "none" /\ AttemptOf(x)' = unit.status
    BY <1>4, <1>m, AttemptIs DEF Keeps, NowAt, OutcomeOf, At
  <2>2. Contract!Decline(x)
    BY <1>1, <1>2, <1>4, <2>1 DEF Contract!Decline, Contract!Final
  <2> QED BY <2>2, ContractSteps
<1>9. CASE At(x, "idle") /\ Keeps(x, "done", "unstarted")
  <2>1. AttemptOf(x) = "none" /\ AttemptOf(x)' = "failed"
    BY <1>9, <1>m, AttemptIs DEF Keeps, NowAt, OutcomeOf, At
  <2>2. Contract!Lose(x)
    BY <1>1, <1>2, <2>1 DEF Contract!Lose
  <2> QED BY <2>2, ContractSteps
<1>5. CASE Live(x) /\ Keeps(x, "done", "crashed")
  <2>1. AttemptOf(x) # "none" /\ AttemptOf(x)' = "none"
    BY <1>5, <1>m, AttemptIs, OutcomeType DEF Keeps, NowAt, At, Live
  <2>2. Contract!Forget(x)
    BY <1>1, <1>2, <2>1 DEF Contract!Forget
  <2> QED BY <2>2, ContractSteps
<1>6. CASE /\ At(x, "started") \/ At(x, "guard")
           /\ \E how \in {"lost", "escaped"} : Keeps(x, "done", how)
  <2>1. AttemptOf(x) = "running" /\ AttemptOf(x)' = "failed"
    BY <1>6, <1>m, AttemptIs DEF Keeps, NowAt, OutcomeOf, At
  <2>2. Contract!Lose(x)
    BY <1>1, <1>2, <2>1 DEF Contract!Lose
  <2> QED BY <2>2, ContractSteps
<1>7. CASE At(x, "settled") /\ Keeps(x, "done", run[x].end)
  BY <1>3, <1>7, <1>m, <1>e, AttemptIs DEF Keeps, NowAt, At
<1>8. CASE /\ Live(x) /\ run'[x].pc \notin {"idle", "settled", "done"}
           /\ At(x, "settled") => ~setting.failOpen
  <2>1. CASE ~At(x, "settled")
    BY <1>3, <1>8, <1>m, <2>1, AttemptIs DEF Live, At
  <2>2. CASE At(x, "settled")
    <3>1. AttemptOf(x) \in {"succeeded", "skipped", "failed"} /\ AttemptOf(x)' = "running"
      BY <1>8, <1>m, <2>2, AttemptIs, OutcomeType
    <3>2. ~setting.overlap => \A y \in Runs : Attempts[y] # "running"
      BY <1>8, <3>1, NobodyElse
    <3>3. Contract!Reopen(x)
      BY <1>1, <1>2, <1>8, <2>2, <3>1, <3>2
      DEF Contract!Reopen, Contract!Outcome, Contract!Final
    <3> QED BY <3>3, ContractSteps
  <2> QED BY <2>1, <2>2
<1> QED BY <1>4, <1>5, <1>6, <1>7, <1>8, <1>9 DEF QuietMove, Keeps, NowAt, At, Live

\* Steps that end an attempt: row, record and outcome at once.
LEMMA EndSimulation ==
  ASSUME UnitInv, NEW x \in Runs, UNCHANGED setting,
         \/ SkipUnit(x) \/ FailGate(x) \/ FailVlm(x) \/ FailFrames(x)
         \/ ForceTerminalize(x) \/ Publish(x) \/ PublishDetectorOnly(x)
  PROVE  Contract!Next
<1>t. TypeOK /\ run[x] \in RunType /\ unit \in UnitType
  BY DEF UnitInv, TypeOK
<1>1. PICK how \in Endings \ {"crashed"} :
        /\ Settle(x, how) \/ Leave(x, how)
        /\ unit'.status = OutcomeOf(how)
        /\ IF OutcomeOf(how) = "succeeded" THEN record' = x ELSE UNCHANGED record
  <2>1. CASE SkipUnit(x)
    BY <1>t, <2>1 DEF SkipUnit, Skipped, UnitType, Endings, OutcomeOf
  <2>2. CASE FailGate(x)
    BY <1>t, <2>2 DEF FailGate, Failed, UnitType, Endings, OutcomeOf
  <2>3. CASE FailVlm(x)
    BY <1>t, <2>3 DEF FailVlm, Failed, UnitType, Endings, OutcomeOf
  <2>4. CASE FailFrames(x)
    BY <1>t, <2>4 DEF FailFrames, Failed, UnitType, Endings, OutcomeOf
  <2>5. CASE ForceTerminalize(x)
    BY <1>t, <2>5 DEF ForceTerminalize, Failed, UnitType, Endings, OutcomeOf
  <2>6. CASE Publish(x)
    BY <2>6 DEF Publish, Succeeded, Endings, OutcomeOf
  <2>7. CASE PublishDetectorOnly(x)
    BY <2>7 DEF PublishDetectorOnly, Succeeded, Endings, OutcomeOf
  <2> QED BY <2>1, <2>2, <2>3, <2>4, <2>5, <2>6, <2>7
<1>2. /\ \A y \in Runs \ {x} : run'[y] = run[y]
      /\ run'[x].pc \in {"settled", "done"} /\ run'[x].end = how
  BY <1>t, <1>1, SettleKeeps, LeaveKeeps DEF Keeps, NowAt
<1>3. AttemptOf(x)' = OutcomeOf(how)
  BY <1>1, <1>2 DEF AttemptOf, At
<1>4. AttemptOf(x) = "running"
  <2>1. run[x].pc \notin {"idle", "settled", "done"}
    BY DEF SkipUnit, FailGate, FailVlm, FailFrames, ForceTerminalize, Publish,
           PublishDetectorOnly, At
  <2> QED BY <2>1, AttemptIs
<1>5. Contract!Turn(x, OutcomeOf(how))
  BY <1>2, <1>3, ContractTurn
<1>6. (record' # 0) = (record # 0 \/ OutcomeOf(how) = "succeeded")
  BY <1>1, UnitAssumption DEF Runs
<1>7. Contract!End(x, OutcomeOf(how))
  BY <1>1, <1>4, <1>5, <1>6 DEF Contract!End, Attempts
<1> QED BY <1>7, OutcomeType, ContractSteps

\* Every step of every run is a step of the contract or changes nothing it sees.
LEMMA ContractSimulation ==
  UnitInv /\ [Next]_vars => [Contract!Next]_(Contract!vars)
<1> SUFFICES ASSUME UnitInv, [Next]_vars PROVE [Contract!Next]_(Contract!vars)
  OBVIOUS
<1>1. CASE UNCHANGED vars
  BY <1>1 DEF vars, Contract!vars, Attempts, AttemptOf, At
<1>2. CASE Next
  <2>1. UNCHANGED setting
    BY <1>2 DEF Next
  <2>2. CASE Reconcile
    <3>1. unit.status = "running" /\ unit'.status = "failed" /\ UNCHANGED <<record, run>>
      BY <2>2 DEF Reconcile, UnitInv, TypeOK, UnitType
    <3>2. UNCHANGED Attempts
      BY <3>1 DEF Attempts, AttemptOf, At
    <3> QED BY <2>1, <3>1, <3>2 DEF Contract!Next, Contract!Recover
  <2>3. ASSUME NEW x \in Runs, Step(x) PROVE [Contract!Next]_(Contract!vars)
    <3>1. TypeOK /\ run[x] \in RunType /\ unit \in UnitType
      BY DEF UnitInv, TypeOK
    <3>2. CASE \/ Start(x) /\ unit.status \in {"succeeded", "skipped"}
               \/ StartFails(x) \/ SelectFrames(x) \/ SkipUnitFails(x) \/ NoGate(x) \/ BodyRaises(x)
               \/ ForceTerminalizeFails(x) \/ Return(x) \/ TimelineRaises(x)
               \/ Crash(x)
      BY <2>1, <3>1, <3>2, QuietSteps, QuietSimulation
    <3>3. CASE Start(x) /\ unit.status \notin {"succeeded", "skipped"}
      <4>1. /\ At(x, "idle") /\ Goto(x, "started") /\ UNCHANGED record
            /\ setting.overlap \/ \A y \in Runs : ~Live(y)
            /\ unit'.status = "running"
        BY <3>1, <3>3 DEF Start, UnitType
      <4>2. /\ \A y \in Runs \ {x} : run'[y] = run[y]
            /\ run'[x].pc = "started"
        BY <3>1, <4>1, GotoKeeps DEF Keeps, NowAt, Places, BeforeCalls
      <4>3. AttemptOf(x) = "none" /\ AttemptOf(x)' = "running"
        BY <4>1, <4>2 DEF AttemptOf, At
      <4>4. Contract!Turn(x, "running")
        BY <2>1, <4>2, <4>3, ContractTurn
      <4>5. ~setting.overlap => \A y \in Runs : Attempts[y] # "running"
        BY <4>1, AttemptIs, OutcomeType DEF Live, At, Attempts
      <4>6. Contract!Begin(x)
        BY <3>3, <4>1, <4>3, <4>4, <4>5 DEF Contract!Begin, Contract!Final, Attempts
      <4> QED BY <4>6, ContractSteps
    <3>4. CASE \/ SkipUnit(x) \/ FailGate(x) \/ FailVlm(x) \/ FailFrames(x)
               \/ ForceTerminalize(x) \/ Publish(x) \/ PublishDetectorOnly(x)
      BY <2>1, <3>4, EndSimulation
    <3>5. CASE \/ GateDecides(x) \/ GateSchemaFails(x) \/ AttemptSucceeds(x)
               \/ \E kind \in {"provider", "schema", "other"} : AttemptFails(x, kind)
               \/ LogFailedAttempt(x)
      <4>1. /\ run[x].pc \notin {"idle", "settled", "done"} /\ UNCHANGED <<unit, record>>
            /\ run'[x].pc \notin {"idle", "settled", "done"}
            /\ \A y \in Runs \ {x} : run'[y] = run[y]
        BY <3>1, <3>5
        DEF GateDecides, GateSchemaFails, AttemptSucceeds, AttemptFails,
            LogFailedAttempt, AfterGate, Goto, At, TypeOK, RunType, rows
      <4>2. AttemptOf(x)' = AttemptOf(x)
        BY <4>1 DEF AttemptOf, At
      <4> QED BY <2>1, <4>1, <4>2, ContractTurn
    <3> QED BY <2>3, <3>2, <3>3, <3>4, <3>5 DEF Step
  <2> QED BY <1>2, <2>2, <2>3 DEF Next
<1> QED BY <1>1, <1>2

\* Executing a unit implements UnitContract, for any number of runs, overlapping
\* or not, any budgets and any failing writes (_run_unit_in_fresh_session of both
\* processors).
THEOREM RunsImplementContract == Spec => ImplementsUnitContract
<1>1. Init => Contract!Init
  <2> SUFFICES ASSUME Init PROVE Contract!Init
    OBVIOUS
  <2>1. Attempts = [x \in Runs |-> "none"]
    BY DEF Init, Attempts, AttemptOf, At
  <2> QED BY <2>1 DEF Init, Contract!Init, Settings
<1> QED BY <1>1, ContractSimulation, UnitInvHolds, PTL
        DEF Spec, ImplementsUnitContract, Contract!Spec

=============================================================================
