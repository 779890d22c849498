---------------------------- MODULE CallTimeline ----------------------------
(***************************************************************************)
(* The timeline: the events that concurrently running units record about   *)
(* themselves and about their VLM calls, and the export that folds the     *)
(* events back into concurrency curves, peaks and bottleneck hints.        *)
(*                                                                         *)
(* The export reads the events in the order of their time stamps, which is *)
(* the order of the Emit steps, so its folds are kept up to date event by  *)
(* event.  The recorder is fail-open: an event that cannot be written is   *)
(* lost and the unit goes on.  vlm_attempt and interval events belong to   *)
(* no curve and are left out.                                              *)
(***************************************************************************)
EXTENDS Integers, FiniteSets, FiniteSetsExt, Sequences

CONSTANTS
  DefaultUnits,   \* units of the default_segment scale
  HfUnits,        \* units of the high_freq_event scale
  Permits,        \* vlm.max_concurrent_requests
  Attempts,       \* RetryPolicy.max_attempts
  MaxFaults       \* bound: events lost and deaths of the process

TimelineUnits == DefaultUnits \cup HfUnits

\* A video has finitely many units, and the scheduler a number of permits.
ASSUME TimelineAssumption == IsFiniteSet(TimelineUnits) /\ Permits \in Nat

VARIABLES
  at,         \* where each unit thread is
  rerun,      \* how often the unit was started before; <<u, rerun>> is its mcall_id
  tries,      \* VLM attempts made by this run
  free,       \* permits of the VlmScheduler
  curves,     \* the export of what is stored: curve -> group -> [active, peak]
  blurred,    \* history: runs that lost an event or died half-way
  silent,     \* history: units whose last run ended without unit_finished
  saturated,  \* history: every permit was taken at some moment
  lost, crashes

timelineVars == <<at, rerun, tries, free, curves, blurred, silent, saturated, lost, crashes>>

-----------------------------------------------------------------------------
(* The events *)

\* _timeline_event of the two processors fills in the scale they work for.
DefaultEvent(u, name, phase) ==
  [name |-> name, phase |-> phase, unit |-> u, call |-> <<u, rerun[u]>>,
   scale |-> "default_segment"]
HfEvent(u, name, phase) ==
  [name |-> name, phase |-> phase, unit |-> u, call |-> <<u, rerun[u]>>,
   scale |-> "high_freq_event"]
EventOf(u, name, phase) ==
  IF u \in DefaultUnits THEN DefaultEvent(u, name, phase) ELSE HfEvent(u, name, phase)

\* Seeded fault: a call counts as outbound from the moment it waits.
OnEventEarly(callback) ==
  CASE callback = "wait_start"  -> <<"vlm_provider_call", "start">>
    [] callback = "wait_finish" -> <<"vlm_scheduler_wait", "finish">>
    [] callback = "call_start"  -> <<"vlm_provider_call", "start">>
    [] callback = "call_finish" -> <<"vlm_provider_call", "finish">>
    [] callback = "call_fail"   -> <<"vlm_provider_call", "fail">>

\* _on_event: what the callbacks of VlmScheduler.run are recorded as.
OnEvent(callback) ==
  CASE callback = "wait_start"  -> <<"vlm_scheduler_wait", "start">>
    [] callback = "wait_finish" -> <<"vlm_scheduler_wait", "finish">>
    [] callback = "call_start"  -> <<"vlm_provider_call", "start">>
    [] callback = "call_finish" -> <<"vlm_provider_call", "finish">>
    [] callback = "call_fail"   -> <<"vlm_provider_call", "fail">>

Stages == <<"frame_select", "media_refs_built", "detector_gate">>
StageNames == {Stages[i] : i \in DOMAIN Stages}

-----------------------------------------------------------------------------
(* The export *)

\* What a curve adds and removes for an event.  A unit is its unit_id, a call
\* its model_call_id, a stage the span of this run.
SeriesKey(curve, e) ==
  CASE curve = "units" -> e.unit
    [] curve = "pre_vlm" -> <<e.call, e.name>>
    [] OTHER -> e.call
Opens(curve, e) ==
  CASE curve = "units" -> e.name = "unit_running"
    [] curve = "pre_vlm" -> e.name \in StageNames /\ e.phase = "start"
    [] curve = "waiters" -> e.name = "vlm_scheduler_wait" /\ e.phase = "start"
    [] curve = "outbound" -> e.name = "vlm_provider_call" /\ e.phase = "start"
Closes(curve, e) ==
  CASE curve = "units" -> e.name = "unit_finished"
    [] curve = "pre_vlm" -> e.name \in StageNames /\ e.phase \in {"finish", "fail"}
    [] curve = "waiters" -> e.name = "vlm_scheduler_wait" /\ e.phase \in {"finish", "fail"}
    [] curve = "outbound" -> e.name = "vlm_provider_call" /\ e.phase \in {"finish", "fail"}

\* _series_for_active_keys and _stage_series, one event further.
SeriesStep(series, curve, e) ==
  LET key == SeriesKey(curve, e)
      active == IF Opens(curve, e) THEN series.active \cup {key}
                ELSE IF Closes(curve, e) THEN series.active \ {key}
                ELSE series.active
  IN [active |-> active, peak |-> Max({series.peak, Cardinality(active)})]

\* _active_series of all events and, for _group_summary, of one scale's.
CurveNames == {"units", "pre_vlm", "waiters", "outbound"}
Scales == {"default_segment", "high_freq_event"}
Groups == {"all"} \cup Scales
Fold(old, e) ==
  [c \in CurveNames |-> [g \in Groups |->
     IF g \in {"all", e.scale} THEN SeriesStep(old[c][g], c, e) ELSE old[c][g]]]

\* _aggregate_summary: the peak_... of a curve
Peak(c) == curves[c]["all"].peak

\* _bottleneck_hints
Hints(cap) ==
  LET fired ==
        {h \in {"supply", "semaphore", "upstream", "saturated"} :
           \/ /\ h = "supply" /\ Peak("pre_vlm") > 0 /\ Peak("waiters") = 0
              /\ Peak("outbound") <= Max({1, Peak("pre_vlm") \div 4})
           \/ /\ h = "semaphore" /\ Peak("waiters") > 0
              /\ Peak("outbound") < Peak("waiters")
           \/ /\ h = "upstream" /\ cap > 0 /\ Peak("units") > Peak("outbound")
              /\ Peak("outbound") < Max({1, cap \div 4})
           \/ /\ h = "saturated" /\ Peak("outbound") > 0 /\ cap > 0
              /\ Peak("outbound") >= cap}
  IN IF fired = {} THEN {"none"} ELSE fired

-----------------------------------------------------------------------------
(* TimelineRecorder.event: the event is appended in a short write of its own, *)
(* or the append fails and is swallowed.                                      *)

Stored(e) == curves' = Fold(curves, e) /\ UNCHANGED <<blurred, lost>>
Lost(e) ==
  /\ lost + crashes < MaxFaults
  /\ lost' = lost + 1
  /\ blurred' = blurred \cup {e.call}
  /\ UNCHANGED curves
Emit(u, name, phase) ==
  LET e == EventOf(u, name, phase) IN Stored(e) \/ Lost(e)
EmitCall(u, callback) == Emit(u, OnEvent(callback)[1], OnEvent(callback)[2])

Go(u, place) == at' = [at EXCEPT ![u] = place]

TimelineInit ==
  /\ at = [u \in TimelineUnits |-> "new"]
  /\ rerun = [u \in TimelineUnits |-> 0]
  /\ tries = [u \in TimelineUnits |-> 0]
  /\ free = Permits
  /\ curves = [c \in CurveNames |-> [g \in Groups |-> [active |-> {}, peak |-> 0]]]
  /\ blurred = {} /\ silent = {} /\ saturated = FALSE
  /\ lost = 0 /\ crashes = 0

-----------------------------------------------------------------------------
(* A unit *)

UnitBegins(u) ==
  /\ at[u] = "new"
  /\ Emit(u, "unit_running", "instant")
  /\ Go(u, "before_frame_select")
  /\ UNCHANGED <<rerun, tries, free, silent, saturated, crashes>>

Before(stage) ==
  CASE stage = "frame_select" -> "before_frame_select"
    [] stage = "media_refs_built" -> "before_media_refs_built"
    [] stage = "detector_gate" -> "before_detector_gate"

\* TimelineRecorder.span: a start event, and a finish or fail event whatever the
\* body does.  The detector gate is the one stage that may be switched off.
SpanStarts(u, stage) ==
  /\ at[u] = Before(stage)
  /\ Emit(u, stage, "start")
  /\ Go(u, stage)
  /\ UNCHANGED <<rerun, tries, free, silent, saturated, crashes>>

\* A finished frame_select without frames ends the unit.  Only default segments
\* have the detector gate; they publish what a gate saw when it, or the pre-VLM
\* gate before it, suppresses the call.  A failed gate escapes to the guard.
SpanFinishes(u, stage, next) ==
  /\ at[u] = stage
  /\ next \in CASE stage = "frame_select" -> {"before_media_refs_built", "ending"}
                [] stage = "media_refs_built" -> {"attempt"} \cup
                     IF u \in DefaultUnits THEN {"before_detector_gate", "publishing"} ELSE {}
                [] stage = "detector_gate" -> {"attempt", "publishing"}
  /\ Emit(u, stage, "finish")
  /\ Go(u, next)
  /\ UNCHANGED <<rerun, tries, free, silent, saturated, crashes>>
SpanFails(u, stage) ==
  /\ at[u] = stage
  /\ Emit(u, stage, "fail")
  /\ Go(u, IF stage = "detector_gate" THEN "escaped" ELSE "ending")
  /\ UNCHANGED <<rerun, tries, free, silent, saturated, crashes>>

\* VlmScheduler.run: wait_start before the semaphore, everything else inside.
WaitStarts(u) ==
  /\ at[u] = "attempt"
  /\ tries' = [tries EXCEPT ![u] = @ + 1]
  /\ EmitCall(u, "wait_start")
  /\ Go(u, "waiting")
  /\ UNCHANGED <<rerun, free, silent, saturated, crashes>>
Admitted(u) ==
  /\ at[u] = "waiting"
  /\ free > 0
  /\ free' = free - 1
  /\ saturated' = (saturated \/ free = 1)
  /\ Go(u, "admitted")
  /\ UNCHANGED <<rerun, tries, curves, blurred, silent, lost, crashes>>
WaitFinishes(u) ==
  /\ at[u] = "admitted"
  /\ EmitCall(u, "wait_finish")
  /\ Go(u, "paced")
  /\ UNCHANGED <<rerun, tries, free, silent, saturated, crashes>>
CallStarts(u) ==
  /\ at[u] = "paced"
  /\ EmitCall(u, "call_start")
  /\ Go(u, "calling")
  /\ UNCHANGED <<rerun, tries, free, silent, saturated, crashes>>

CallFinishes(u) ==
  /\ at[u] = "calling"
  /\ EmitCall(u, "call_finish")
  /\ Go(u, "answered")
  /\ UNCHANGED <<rerun, tries, free, silent, saturated, crashes>>

\* Seeded fault: a failed call is not recorded.
CallFailsUnrecorded(u) ==
  /\ at[u] = "calling"
  /\ Go(u, "refused")
  /\ UNCHANGED <<rerun, tries, free, curves, blurred, silent, saturated, lost, crashes>>

CallFails(u) ==
  /\ at[u] = "calling"
  /\ EmitCall(u, "call_fail")
  /\ Go(u, "refused")
  /\ UNCHANGED <<rerun, tries, free, silent, saturated, crashes>>

\* Leaving the with statement: the answer is published; an error is retried
\* while attempts are left and it is one worth retrying.
FreePermit(u, next) ==
  /\ at[u] \in {"answered", "refused"}
  /\ next \in IF at[u] = "answered" THEN {"publishing"}
              ELSE {"ending"} \cup IF tries[u] < Attempts THEN {"attempt"} ELSE {}
  /\ free' = free + 1
  /\ Go(u, next)
  /\ UNCHANGED <<rerun, tries, curves, blurred, silent, saturated, lost, crashes>>

Publishes(u) ==
  /\ at[u] = "publishing"
  /\ Emit(u, "publication_finished", "instant")
  /\ Go(u, "ending")
  /\ UNCHANGED <<rerun, tries, free, silent, saturated, crashes>>
UnitFinishes(u) ==
  /\ at[u] = "ending"
  /\ Emit(u, "unit_finished", "instant")
  /\ Go(u, "done")
  /\ silent' = silent \ {u}
  /\ UNCHANGED <<rerun, tries, free, saturated, crashes>>

\* The lifecycle guard, a pre-VLM gate that failed or suppressed a high-frequency
\* unit, or a publication that publishes nothing: the unit is terminal and
\* records no unit_finished.
EndsSilently(u) ==
  /\ at[u] \in {"attempt", "publishing", "ending", "escaped"}
  /\ Go(u, "done")
  /\ silent' = silent \cup {u}
  /\ UNCHANGED <<rerun, tries, free, curves, blurred, saturated, lost, crashes>>

\* The process dies; what it had not finished is run again by another one.
Crash ==
  LET hit == {u \in TimelineUnits : at[u] \notin {"new", "done"}}
  IN /\ lost + crashes < MaxFaults
     /\ crashes' = crashes + 1
     /\ blurred' = blurred \cup {<<u, rerun[u]>> : u \in hit}
     /\ at' = [u \in TimelineUnits |-> IF u \in hit THEN "new" ELSE at[u]]
     /\ rerun' = [u \in TimelineUnits |-> IF u \in hit THEN rerun[u] + 1 ELSE rerun[u]]
     /\ tries' = [u \in TimelineUnits |-> IF u \in hit THEN 0 ELSE tries[u]]
     /\ free' = Permits
     /\ UNCHANGED <<curves, silent, saturated, lost>>

UnitStep(u) ==
  \/ UnitBegins(u)
  \/ \E stage \in StageNames :
       \/ SpanStarts(u, stage)
       \/ \E next \in {"before_media_refs_built", "before_detector_gate", "attempt",
                       "publishing", "ending"} : SpanFinishes(u, stage, next)
       \/ SpanFails(u, stage)
  \/ WaitStarts(u) \/ Admitted(u) \/ WaitFinishes(u)
  \/ CallStarts(u) \/ CallFinishes(u) \/ CallFails(u)
  \/ \E next \in {"publishing", "ending", "attempt"} : FreePermit(u, next)
  \/ Publishes(u) \/ UnitFinishes(u) \/ EndsSilently(u)

TimelineNext == Crash \/ \E u \in TimelineUnits : UnitStep(u)

TimelineSpec == TimelineInit /\ [][TimelineNext]_timelineVars

-----------------------------------------------------------------------------
(* Properties *)

\* The exported peak of outbound calls (_series_for_active_keys over the events
\* VlmScheduler.run reports) never exceeds the cap by more than the runs whose
\* events are incomplete; the saturation hint is given only when every permit
\* was taken at some moment; and a peak is at least every scale's and at most
\* the sum of the scales' peaks (_group_summary).
PeaksAreReal ==
  /\ curves["outbound"]["all"].peak <= Permits + Cardinality(blurred)
  /\ "saturated" \in Hints(Permits) /\ blurred = {} => saturated
  /\ \A c \in CurveNames :
       LET PeakIn(g) == curves[c][g].peak
       IN /\ \A g \in Scales : PeakIn(g) <= Peak(c)
          /\ Peak(c) <= PeakIn("default_segment") + PeakIn("high_freq_event")

\* A unit that has ended is gone from every curve of the export, whatever the
\* order in which the threads recorded their events.  Runs that lost an event
\* or died are excepted, and units the lifecycle guard ended; but a unit that
\* died and then finished in a complete run is closed, because the curve of
\* units goes by unit_id.
EndedUnitsAreClosed ==
  \A u \in TimelineUnits : at[u] = "done" /\ <<u, rerun[u]>> \notin blurred =>
    \A g \in Groups :
      /\ u \notin silent => u \notin curves["units"][g].active
      /\ \A c \in {"waiters", "outbound"} : <<u, rerun[u]>> \notin curves[c][g].active
      /\ \A s \in StageNames : <<<<u, rerun[u]>>, s>> \notin curves["pre_vlm"][g].active
=============================================================================
