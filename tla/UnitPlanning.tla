---------------------------- MODULE UnitPlanning ----------------------------
(***************************************************************************)
(* From a video to the ordered queue of analysis units of one job: the     *)
(* motion scan and its triggers, the duration probe, the windows of the    *)
(* two scales, and the dispatch order of the cross-scale scheduler.        *)
(*                                                                         *)
(* The planners are the pure functions of domain/policies.  The state      *)
(* machine around them has the orders in which the worker can call them:   *)
(* a scan repeated after a crash, and a duration that another job of the   *)
(* same video has recorded in between.  Times are in milliseconds.         *)
(***************************************************************************)
EXTENDS Integers, Sequences, FiniteSets, FiniteSetsExt

CONSTANTS
  Window, Overlap,      \* default_segment.window_seconds, overlap_seconds
  HfWindow,             \* high_freq_event.window_seconds
  HfRatio,              \* high_freq_event.overlap_ratio, as <<num, den>>
  Threshold,            \* motion_scan.threshold
  MinDuration,          \* motion_scan.min_duration_ms
  MergeGap,             \* motion_scan.merge_gap_ms
  Interval,             \* 1000 / motion_scan.sample_fps
  Quota,                \* cross_scale.high_freq_quota
  Videos,               \* the videos: [duration, scores of the sampled frames]
  MaxScans              \* bound: executions of the motion scan

\* plan_default_segments and plan_high_freq_windows raise ValueError otherwise, and
\* the settings have no negative merge_gap_ms.
ASSUME PlanningAssumption ==
  /\ Window \in Nat /\ Overlap \in Nat /\ Overlap < Window
  /\ HfWindow \in Nat \ {0}
  /\ HfRatio[1] \in Nat /\ HfRatio[2] \in Nat \ {0} /\ HfRatio[1] < HfRatio[2]
  /\ Threshold \in Int /\ MinDuration \in Nat /\ MergeGap \in Nat
  /\ Interval \in Nat \ {0} /\ Quota \in Int /\ MaxScans \in Nat
  /\ \A v \in Videos : v.duration \in Nat /\ v.scores \in Seq(Int)

MinWindow == 1  \* min_window_ms: no caller changes the default
Unknown == -1   \* source.duration_ms is None

-----------------------------------------------------------------------------
(* domain/policies: the planners *)

\* The shared loop of the two planners: windows from `from`, `step` apart, the
\* first one that reaches `to` clamped to it and last.
Tile(from, to, window, step) ==
  LET Nth(k) == from + (k - 1) * step
      count == CHOOSE n \in 1..(to - from) :
                 /\ Nth(n) + window >= to
                 /\ \A k \in 1..(n - 1) : Nth(k) + window < to
  IN [k \in 1..count |->
        [start |-> Nth(k), end |-> Min({Nth(k) + window, to})]]

DefaultSegments(duration) ==
  IF duration <= 0 THEN <<>> ELSE Tile(0, duration, Window, Window - Overlap)

\* FrameDiffMotionDetector.score_frames: the first frame has no predecessor,
\* and fewer than two frames give no sample.
Samples(scores) ==
  [i \in 1..Len(scores) |-> [at |-> i * Interval, score |-> scores[i]]]

\* The median is the difference that half of them, rounded down, precede in
\* their order.
MedianStep(times) ==
  LET I == 1..(Len(times) - 1)
      diff == [i \in I |-> times[i + 1] - times[i]]
      half == Cardinality(I) \div 2
      mid == CHOOSE d \in {diff[i] : i \in I} :
               /\ Cardinality({i \in I : diff[i] < d}) <= half
               /\ half < Cardinality({i \in I : diff[i] <= d})
  IN IF Len(times) < 2 THEN 1 ELSE Max({1, mid})

\* Seeded fault: a sample has no span of its own.
SampleEndNow(samples, i) == samples[i].at

\* Up to the next sample, or by the usual step after the last one.
SampleEnd(samples, i) ==
  IF i < Len(samples) THEN samples[i + 1].at
  ELSE samples[i].at + MedianStep([k \in 1..Len(samples) |-> samples[k].at])
\* Runs of samples at or above the threshold, joined over gaps of at most
\* MergeGap, as [first, last] pairs of sample indices.
Runs(samples) ==
  LET Hot == {i \in 1..Len(samples) : samples[i].score >= Threshold}
      Joined(i, j) == samples[j].at - SampleEnd(samples, i) <= MergeGap
      Next(i) == {j \in Hot : j > i /\ \A k \in Hot : k > i => k >= j}
      Prev(i) == {j \in Hot : j < i /\ \A k \in Hot : k < i => k <= j}
      Firsts == {i \in Hot : \A j \in Prev(i) : ~Joined(j, i)}
      Lasts == {i \in Hot : \A j \in Next(i) : ~Joined(i, j)}
  IN {r \in Firsts \X Lasts :
        r[1] <= r[2] /\ \A i \in Firsts : i > r[1] => i > r[2]}

\* A run shorter than MinDuration is extended to it; clamping to the end of the
\* video may drop it.
TriggerOf(samples, r, bound) ==
  LET start == samples[r[1]].at
      end == Max({SampleEnd(samples, r[2]), start + MinDuration})
  IN [start |-> start,
      end |-> IF bound = Unknown THEN end ELSE Min({end, bound})]

Triggers(samples, bound) ==
  {t \in {TriggerOf(samples, r, bound) : r \in Runs(samples)} :
     bound # Unknown => t.start < bound}

\* MotionScanProcessor.process: the bound is the recorded duration, or else the
\* last sample.
ScanBound(duration, samples) ==
  IF duration = Unknown /\ samples # <<>>
  THEN Max({samples[i].at : i \in DOMAIN samples}) ELSE duration

\* plan_high_freq_windows, but for the last filter, which drops what is not
\* Usable.
HighFreqWindows(t, duration) ==
  LET to == IF duration = Unknown THEN t.end ELSE Min({t.end, duration})
      span == to - t.start
      step == Max({1, (HfWindow * (HfRatio[2] - HfRatio[1])) \div HfRatio[2]})
  IN IF span <= 0 THEN <<>>
     ELSE IF HfWindow >= span THEN <<[start |-> t.start, end |-> to]>>
     ELSE Tile(t.start, to, HfWindow, step)
Usable(w) == w.end - w.start >= MinWindow

\* HighFreqEventProcessor.plan_units: the windows of all triggers one after the
\* other, first of equal ones kept.  Window k of trigger i is <<i, k>>.
Upto(p, q) == p[1] < q[1] \/ (p[1] = q[1] /\ p[2] <= q[2])
HighFreqPlan(ts, duration) ==
  LET ws == [i \in DOMAIN ts |-> HighFreqWindows(ts[i], duration)]
      Of(p) == ws[p[1]][p[2]]
      All == {p \in UNION {{i} \X DOMAIN ws[i] : i \in DOMAIN ts} : Usable(Of(p))}
      Kept == {p \in All : \A q \in All : Upto(q, p) /\ Of(q) = Of(p) => q = p}
      Place(p) == Cardinality({q \in Kept : Upto(q, p)})
  IN [n \in 1..Cardinality(Kept) |-> Of(CHOOSE p \in Kept : Place(p) = n)]

\* Seeded fault: the priority without the forced default unit.
DispatchOrderGreedy(hf, df) ==
  [n \in 1..(Len(hf) + Len(df)) |->
     IF n <= Len(hf) THEN [scale |-> "high_freq_event", window |-> hf[n]]
     ELSE [scale |-> "default_segment", window |-> df[n - Len(hf)]]]

\* dispatch_order: q high_freq units, then one default unit, and so on; what
\* is left of one scale follows when the other is exhausted.
DispatchOrder(hf, df) ==
  LET q == Max({1, Quota})
      PlaceHf(i) == i + Min({Len(df), (i - 1) \div q})
      PlaceDf(i) == i + Min({Len(hf), q * i})
  IN [n \in 1..(Len(hf) + Len(df)) |->
        IF \E i \in DOMAIN hf : PlaceHf(i) = n
        THEN [scale |-> "high_freq_event",
              window |-> hf[CHOOSE i \in DOMAIN hf : PlaceHf(i) = n]]
        ELSE [scale |-> "default_segment",
              window |-> df[CHOOSE i \in DOMAIN df : PlaceDf(i) = n]]]

-----------------------------------------------------------------------------
VARIABLES
  video,     \* what the video really is; one of Videos
  duration,  \* source.duration_ms
  triggers,  \* HighFreqTrigger rows of the job, by their idempotency key
  scans,     \* motion scans whose triggers are committed
  timed,     \* history: one of them was with the duration recorded
  plans,     \* the planned windows of each scale
  queue,     \* the dispatch order
  phase      \* where _process_cross_scale is

planVars == <<video, duration, triggers, scans, timed, plans, queue, phase>>

PlanInit ==
  /\ video \in Videos
  /\ duration = Unknown
  /\ triggers = {}
  /\ scans = 0 /\ timed = FALSE
  /\ plans = [default |-> <<>>, hf |-> <<>>]
  /\ queue = <<>>
  /\ phase = "motion"

\* Phase 1.  The triggers commit with the scan's session, before the scale task
\* is finalized.
ScanMotion ==
  /\ phase = "motion"
  /\ scans < MaxScans
  /\ LET samples == Samples(video.scores)
     IN triggers' = triggers \cup Triggers(samples, ScanBound(duration, samples))
  /\ scans' = scans + 1
  /\ timed' = (timed \/ duration # Unknown)
  /\ phase' = "scanned"
  /\ UNCHANGED <<video, duration, plans, queue>>

\* ffmpeg fails or times out: the optional scale fails, the job goes on.
ScanFails ==
  /\ phase = "motion"
  /\ phase' = "plan"
  /\ UNCHANGED <<video, duration, triggers, scans, timed, plans, queue>>

FinalizeMotion ==
  /\ phase = "scanned"
  /\ phase' = "plan"
  /\ UNCHANGED <<video, duration, triggers, scans, timed, plans, queue>>

\* The worker dies before the scale task is final; the reclaim scans again.
Reclaim ==
  /\ phase = "scanned"
  /\ scans < MaxScans
  /\ phase' = "motion"
  /\ UNCHANGED <<video, duration, triggers, scans, timed, plans, queue>>

\* update_probe_metadata, by another job of the same video.
OtherJobProbes ==
  /\ duration = Unknown
  /\ phase \in {"motion", "scanned", "plan"}
  /\ duration' = video.duration
  /\ UNCHANGED <<video, triggers, scans, timed, plans, queue, phase>>

\* Phase 3, default scale: probe, record the duration, plan the windows.  A
\* failed probe fails the job.
PlanDefault ==
  /\ phase = "plan"
  /\ duration' = video.duration
  /\ plans' = [plans EXCEPT !.default = DefaultSegments(video.duration)]
  /\ phase' = "plan_hf"
  /\ UNCHANGED <<video, triggers, scans, timed, queue>>
ProbeFails ==
  /\ phase = "plan"
  /\ phase' = "failed"
  /\ UNCHANGED <<video, duration, triggers, scans, timed, plans, queue>>

\* Phase 3, high_freq scale: list_by_job returns the rows in no stated order.
PlanHighFreq ==
  /\ phase = "plan_hf"
  /\ \E ts \in [1..Cardinality(triggers) -> triggers] :
       /\ {ts[i] : i \in DOMAIN ts} = triggers
       /\ plans' = [plans EXCEPT !.hf = HighFreqPlan(ts, duration)]
  /\ phase' = "dispatch"
  /\ UNCHANGED <<video, duration, triggers, scans, timed, queue>>

\* Phase 4.
Dispatch ==
  /\ phase = "dispatch"
  /\ queue' = DispatchOrder(plans.hf, plans.default)
  /\ phase' = "done"
  /\ UNCHANGED <<video, duration, triggers, scans, timed, plans>>

PlanNext ==
  \/ ScanMotion \/ ScanFails \/ FinalizeMotion \/ Reclaim \/ OtherJobProbes
  \/ PlanDefault \/ ProbeFails \/ PlanHighFreq \/ Dispatch

PlanSpec == PlanInit /\ [][PlanNext]_planVars

-----------------------------------------------------------------------------
(* Properties. *)

QueueOf(s) == {queue[n].window : n \in {m \in DOMAIN queue : queue[m].scale = s}}

\* What the queue must look at: every instant of the video in some default
\* window, and the instant of every sample with motion inside the video in some
\* high_freq window, however short the motion; and no window leaves the video,
\* whatever bound the triggers were clamped to (plan_default_segments,
\* plan_motion_triggers, plan_high_freq_windows, MotionScanProcessor.process).
\* The last sample is looked at once a scan has known the duration: without it
\* the triggers are clamped to that sample.
QueueCoversVideo ==
  phase = "done" =>
    /\ \A n \in DOMAIN queue :
         0 <= queue[n].window.start /\ queue[n].window.start < queue[n].window.end
           /\ queue[n].window.end <= duration
    /\ \A t \in 0..(duration - 1) :
         \E w \in QueueOf("default_segment") : w.start <= t /\ t < w.end
    /\ scans > 0 =>
         \A i \in DOMAIN video.scores :
           LET at == i * Interval
           IN (/\ video.scores[i] >= Threshold
               /\ at < duration
               /\ at < Len(video.scores) * Interval \/ timed)
              => \E w \in QueueOf("high_freq_event") : w.start <= at /\ at < w.end

\* Not so in the code: "Each resulting window must be at least min_duration_ms long
\* (short blips are dropped)" (plan_motion_triggers), which extends them instead.
ShortRunsAreDropped ==
  LET samples == Samples(video.scores)
  IN \A t \in triggers : \E r \in Runs(samples) :
       /\ samples[r[1]].at = t.start
       /\ SampleEnd(samples, r[2]) - t.start >= MinDuration

\* Each unit of the order is the one whose turn it is in the plan of its scale,
\* none is left over, and no more than q high_freq units come while a default
\* unit waits.
Fair(order, hf, df, q) ==
  LET PlanOf(s) == IF s = "high_freq_event" THEN hf ELSE df
      Turn(n) == Cardinality({m \in 1..n : order[m].scale = order[n].scale})
  IN /\ Len(order) = Len(hf) + Len(df)
     /\ \A n \in DOMAIN order :
          /\ Turn(n) \in DOMAIN PlanOf(order[n].scale)
          /\ order[n].window = PlanOf(order[n].scale)[Turn(n)]
     /\ \A m, n \in DOMAIN order :
          (/\ m < n
           /\ order[n].scale = "default_segment"
           /\ \A k \in m..(n - 1) : order[k].scale = "high_freq_event")
          => n - m <= q

\* The scheduler starves neither scale: it dispatches every planned unit once,
\* in the order of its scale, and no more than the quota of high_freq units
\* while a default unit waits (dispatch_order).
DispatchIsFair ==
  phase = "done" => Fair(queue, plans.hf, plans.default, Max({1, Quota}))
=============================================================================
