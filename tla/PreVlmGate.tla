----------------------------- MODULE PreVlmGate -----------------------------
(***************************************************************************)
(* The decision whether a unit's frames are worth a VLM call: object       *)
(* detection on every frame, the share of positive frames per rule, and    *)
(* the verdict with the log row that records it.                           *)
(*                                                                         *)
(* A ratio is a pair <<num, den>>.  What a provider reports for one image  *)
(* is [failed, seen]: seen is the set of its [label, confidence].          *)
(***************************************************************************)
EXTENDS Integers, Sequences, FiniteSets

\* GoogleVisionObjectDetectionAdapter.from_vendor_response: a per-image error
\* is a failed image without detections, not a failed batch.
ImageResult(answer) ==
  [status |-> IF answer.failed THEN "failed" ELSE "succeeded",
   detections |-> IF answer.failed THEN {} ELSE answer.seen]

\* _failed_batch: an HTTP error or a timeout fails every image of the request.
FailedBatch(n) == [i \in 1..n |-> [status |-> "failed", detections |-> {}]]

\* from_vendor_response and the runner both count the results.
ShapeIsValid(n, reply) == reply.kind = "images" /\ Len(reply.images) = n

\* detect_objects.  reply.kind: "transport" (no usable answer), "shape" (an
\* answer of another form) or "images".
Detect(n, reply) ==
  IF reply.kind = "transport" THEN FailedBatch(n)
  ELSE [i \in 1..n |-> ImageResult(reply.images[i])]

\* MockObjectDetectionAdapter: the first `positive` frames show every label.
MockReply(n, positive, labels) ==
  [kind |-> "images",
   images |-> [i \in 1..n |->
                 [failed |-> FALSE,
                  seen |-> {[label |-> l, confidence |-> 9] :
                              l \in IF i <= positive THEN labels ELSE {}}]]]

\* Seeded fault: the status of the last image stands for the batch.
SignalOfLast(results) ==
  [status |-> IF results = <<>> THEN "succeeded" ELSE results[Len(results)].status,
   frames |-> Len(results),
   evidence |-> [i \in DOMAIN results |-> results[i].detections]]

\* _object_detection_signal.
Signal(results) ==
  [status |-> IF \E i \in DOMAIN results : results[i].status = "failed"
              THEN "failed" ELSE "succeeded",
   frames |-> Len(results),
   evidence |-> [i \in DOMAIN results |-> results[i].detections]]

\* _detection_matches, and _positive_frame_ratio >= min_positive_frame_ratio.
Matches(d, rule) == d.label = rule.label /\ d.confidence >= rule.minConfidence
Positive(signal, rule) ==
  Cardinality({i \in DOMAIN signal.evidence :
                 \E d \in signal.evidence[i] : Matches(d, rule)})
RuleHolds(signal, rule) ==
  /\ rule.action = "call_vlm"
  /\ IF signal.frames = 0 THEN rule.ratio[1] <= 0
     ELSE Positive(signal, rule) * rule.ratio[2] >= rule.ratio[1] * signal.frames

\* decide_pre_vlm_gate.  A trigger reason the profile lists forces the call.
Verdict(signal, rules, reason, forced) ==
  IF reason \in forced THEN "force_vlm"
  ELSE IF \E r \in rules : RuleHolds(signal, r) THEN "call_vlm"
  ELSE "suppress_vlm"

\* PreVlmGateRunner.evaluate: the log of a decision.  Its status is that of the
\* evaluation, which an outage does not change; the signal carries the outage.
GateLog(unit, reply, signal, verdict) ==
  [status |-> "succeeded", signal |-> signal.status, verdict |-> verdict,
   unit |-> unit, reply |-> reply]

\* _write_failure_log: no reply had the right form.
SchemaFailureLog(unit) ==
  [status |-> "failed", signal |-> "none", verdict |-> "none",
   unit |-> unit, reply |-> [kind |-> "shape", images |-> <<>>]]
=============================================================================
