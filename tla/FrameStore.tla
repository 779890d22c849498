----------------------------- MODULE FrameStore -----------------------------
(***************************************************************************)
(* The frames of concurrently running units: the OpenCV import, streaming  *)
(* decode with its bounded buffer and frame selection, the JPEG files, the *)
(* ffmpeg fallback, the readers of the files (gate, VLM) and the cleanup.  *)
(*                                                                         *)
(* A decoded frame is [pos, ok, score]: the stream position the container  *)
(* reports, whether it passes the quality gate, its composite score.       *)
(* Positions are floats in the code and ticks here, Ticks to a millisecond;*)
(* the window and the time of a kept frame are whole milliseconds.         *)
(***************************************************************************)
EXTENDS PreVlmGate, SequencesExt, FiniteSetsExt

CONSTANTS
  Units,        \* unit runs of one process; each has an mcall_id of its own
  Start, End,   \* their common window (the grid is the same for all videos)
  Ticks,        \* ticks to the millisecond
  Slack,        \* the tolerance of the sampling, 1e-6 ms, in ticks
  FrameCount,   \* frames_per_segment
  SampleGap,    \* 1000 / frame_stream.sample_fps, in ticks
  RingFrames,   \* round(buffer_seconds * sample_fps)
  RingBytes,    \* max_buffer_bytes, in frames
  Cases,        \* the settings explored, see Setting
  Rules,        \* the rules of the gate profile
  Replies,      \* what the object detector may answer
  SchemaTries   \* 1 + schema_regenerate_max_attempts

\* sample_fps is below 1000 (its default is 8): at more, two kept frames could
\* have one millisecond, and one file.  The tolerance is below half of one.
\* decode_backend is one of two; a stream lists frames, and a reply images.
ASSUME FrameAssumption ==
  /\ "source" \notin Units
  /\ FrameCount \in Int /\ Start \in Int /\ End \in Int
  /\ Ticks \in Nat \ {0} /\ Slack \in Nat /\ 2 * Slack < Ticks
  /\ SampleGap \in Nat /\ SampleGap > Ticks + Slack
  /\ \A c \in Cases :
       /\ c.decode \in {"opencv", "ffmpeg"}
       /\ \A u \in Units :
            c.streams[u] \in Seq([pos : Int, ok : BOOLEAN, score : Int])
  /\ \A r \in Replies : /\ DOMAIN r = {"kind", "images"}
                         /\ r.images \in Seq(ToSet(r.images))

-----------------------------------------------------------------------------
(* Which adapter serves the unit: _default_video_processor, _frames_processor *)

BackendOf(c) ==
  CASE c.mode = "static" -> "static"
    [] c.mode = "ffmpeg_frames" -> "ffmpeg"
    [] c.mode = "ffprobe" /\ c.provider = "real" /\ c.media = "video" -> "clip"
    [] c.mode = "ffprobe" /\ c.provider = "real" /\ c.media = "frames" ->
         IF c.decode = "ffmpeg" THEN "ffmpeg" ELSE "opencv"
    [] OTHER -> "ffprobe"

-----------------------------------------------------------------------------
(* OpenCvFrameStreamVideoProcessor: sampling, buffer, selection *)

\* int(round(pos)): the nearest millisecond, the even one of two.
Rounded(pos) ==
  LET ms == pos \div Ticks
      rest == pos % Ticks
  IN IF 2 * rest < Ticks \/ (2 * rest = Ticks /\ ms % 2 = 0) THEN ms ELSE ms + 1

\* _iter_sampled_frames: a frame is kept once a sampling interval has passed, up
\* to the tolerance; a container that reports 0 is given the clock; the first
\* position at or after the end of the window stops the reading.
SampleStep(acc, f) ==
  LET pos == IF f.pos <= 0 THEN acc.next ELSE f.pos
  IN IF acc.over \/ pos >= End * Ticks THEN [acc EXCEPT !.over = TRUE]
     ELSE IF pos + Slack < acc.next THEN acc
     ELSE [acc EXCEPT !.next = pos + SampleGap,
                      !.kept = Append(@, [index |-> Len(acc.kept), at |-> Rounded(pos),
                                          ok |-> f.ok, score |-> f.score])]
Sampled(stream) ==
  LET after[i \in 0..Len(stream)] ==
        IF i = 0 THEN [next |-> Start * Ticks, over |-> FALSE, kept |-> <<>>]
        ELSE SampleStep(after[i - 1], stream[i])
  IN after[Len(stream)].kept

\* _RingBuffer: the newest frames that fit both caps, and always the last one.
InRing(kept) ==
  LET size == Max({1, Min({RingFrames, RingBytes})})
  IN {kept[i].index : i \in {j \in DOMAIN kept : j > Len(kept) - size}}

\* select_frames.  Better is the composite order: the earlier frame wins a tie.
Better(a, b) == a.score > b.score \/ (a.score = b.score /\ a.index < b.index)
Earlier(a, b) == a.at < b.at \/ (a.at = b.at /\ a.index < b.index)
Eligible(kept) ==
  LET good == {f \in ToSet(kept) : f.ok}
  IN IF good = {} THEN ToSet(kept) ELSE good
BestOf(S, n) == {f \in S : Cardinality({g \in S : Better(g, f)}) < n}
InTimeOrder(S) ==
  [n \in 1..Cardinality(S) |->
     CHOOSE f \in S : Cardinality({g \in S : g = f \/ Earlier(g, f)}) = n]
Bucket(kept, k, f) ==
  LET first == kept[1].at
      span == Max({1, kept[Len(kept)].at - first + 1})
  IN Min({k - 1, ((f.at - first) * k) \div span})
PickUniform(kept, k) ==
  LET s == InTimeOrder(Eligible(kept))
  IN IF Len(s) <= k THEN ToSet(s)
     ELSE {s[Min({Len(s), ((i * Len(s)) \div k) + 1})] : i \in 0..(k - 1)}
PickBins(kept, k) ==
  LET eligible == Eligible(kept)
      best == {f \in eligible : \A g \in eligible :
                 Bucket(kept, k, f) = Bucket(kept, k, g) /\ f # g => Better(f, g)}
  IN best \cup BestOf(eligible \ best, k - Cardinality(best))

Picks(kept, k, strategy) ==
  CASE strategy = "uniform" -> PickUniform(kept, k)
    [] strategy = "score" -> BestOf(Eligible(kept), k)
    [] OTHER -> PickBins(kept, k)

\* Seeded fault: the picks stay in the order of their scores.
SelectFramesByScore(kept, k, strategy) ==
  IF k <= 0 \/ kept = <<>> THEN <<>>
  ELSE SetToSortSeq(Picks(kept, k, strategy), Better)

SelectFrames(kept, k, strategy) ==
  IF k <= 0 \/ kept = <<>> THEN <<>> ELSE InTimeOrder(Picks(kept, k, strategy))

\* SegmentFrameVideoProcessor._frame_timestamps_ms: inside the window.
UniformTimes(k) ==
  IF k <= 0 \/ End <= Start THEN <<>>
  ELSE IF k = 1 THEN <<Start + (End - Start) \div 2>>
  ELSE [i \in 1..k |-> Start + ((End - Start) * i) \div (k + 1)]

-----------------------------------------------------------------------------
(* Where files go.  The window is common, so the unit key alone keeps units apart. *)

Source == [dir |-> "source", key |-> "video", name |-> 0]

\* Seeded fault: the layout without unit_key.
SegmentPathLegacy(u, name) == [dir |-> "stem", key |-> "none", name |-> name]

\* OpenCvFrameStreamVideoProcessor._segment_dir, with the frame's file name.
SegmentPath(u, name) == [dir |-> "stem", key |-> u, name |-> name]

\* ffprobe_adapter._segment_subdir.
SubdirPath(u, name) == [dir |-> "root", key |-> u, name |-> name]

-----------------------------------------------------------------------------
VARIABLES
  setting,   \* one of Cases
  cv2,       \* the cached module: "none", "boot" (import under way), "ready"
  files,     \* path -> unit that wrote it
  gateLogs,  \* PreVlmGateLog rows, by unit
  run        \* where each unit is

frameVars == <<setting, cv2, files, gateLogs, run>>

Cold == [pc |-> "cold", via |-> "none", kept |-> <<>>, todo |-> <<>>,
         media |-> <<>>, wrote |-> {}, tries |-> 0, end |-> "none"]

FrameInit ==
  /\ setting \in Cases
  /\ cv2 = "none"
  /\ files = [p \in {Source} |-> "source"]
  /\ gateLogs = <<>>
  /\ run = [u \in Units |-> Cold]

At(u, place) == run[u].pc = place
Leave(u, how) == run' = [run EXCEPT ![u].pc = "done", ![u].end = how]
Write(path, u) == files' = [p \in DOMAIN files \cup {path} |->
                              IF p = path THEN u ELSE files[p]]
Backend == BackendOf(setting)

-----------------------------------------------------------------------------
(* Worker construction and the import of cv2 *)

\* The import of cv2 succeeds.
Imports == setting.install \in {"works", "unsound"}

\* Seeded fault: the first unit imports cv2.
WarmupSkipped ==
  /\ \A u \in Units : At(u, "cold")
  /\ run' = [u \in Units |-> [Cold EXCEPT !.pc = "idle"]]
  /\ UNCHANGED <<setting, cv2, files, gateLogs>>

\* _warmup_decode_backend: before any thread exists; a broken OpenCV stops the
\* worker only when there is no fallback.  An "unsound" one imports, and stays
\* cached, but fails the sanity encode.
Warmup ==
  /\ \A u \in Units : At(u, "cold")
  /\ LET imports == setting.decode = "opencv" /\ Imports
         usable == \/ setting.decode # "opencv" \/ setting.install = "works"
                   \/ setting.fallback
     IN /\ cv2' = IF imports THEN "ready" ELSE cv2
        /\ run' = [u \in Units |->
                     [Cold EXCEPT !.pc = IF usable THEN "idle" ELSE "done"]]
  /\ UNCHANGED <<setting, files, gateLogs>>

\* select_frames_for_unit, with cv2_available for OpenCV: find_spec looks at the
\* module outside the import lock and raises when it meets the bootstrap.
Begin(u) ==
  /\ At(u, "idle")
  /\ IF FrameCount <= 0 \/ End <= Start
     THEN Leave(u, "skipped")
     ELSE \/ /\ Backend = "opencv"
             /\ \/ cv2 = "ready" /\ run' = [run EXCEPT ![u].pc = "decode"]
                \/ /\ cv2 # "ready" /\ setting.install = "absent"
                   /\ run' = [run EXCEPT ![u].pc = "fallback"]
                \/ /\ cv2 # "ready" /\ setting.install # "absent"
                   /\ run' = [run EXCEPT ![u].pc = "import"]
                \/ cv2 = "boot" /\ Leave(u, "import_race")
          \/ /\ Backend = "ffmpeg"
             /\ run' = [run EXCEPT ![u].pc = "ffmpeg"]
          \/ /\ Backend \in {"static", "ffprobe"}   \* placeholder paths
             /\ run' = [run EXCEPT ![u].pc = "gate",
                          ![u].media = [i \in 1..FrameCount |-> SubdirPath(u, i)]]
          \/ /\ Backend = "clip"
             /\ run' = [run EXCEPT ![u].pc = "clip"]
  /\ UNCHANGED <<setting, cv2, files, gateLogs>>

\* import_cv2: one thread at a time runs the bootstrap.
ImportBegins(u) ==
  /\ At(u, "import")
  /\ cv2 # "boot"
  /\ IF cv2 = "ready" THEN cv2' = cv2 /\ run' = [run EXCEPT ![u].pc = "decode"]
     ELSE cv2' = "boot" /\ run' = [run EXCEPT ![u].pc = "boot"]
  /\ UNCHANGED <<setting, files, gateLogs>>
ImportEnds(u) ==
  /\ At(u, "boot")
  /\ IF Imports
     THEN cv2' = "ready" /\ run' = [run EXCEPT ![u].pc = "decode"]
     ELSE cv2' = "none" /\ run' = [run EXCEPT ![u].pc = "fallback"]
  /\ UNCHANGED <<setting, files, gateLogs>>

-----------------------------------------------------------------------------
(* Extraction *)

\* _extract_with_opencv up to the selection.
Decode(u) ==
  /\ At(u, "decode")
  /\ LET kept == Sampled(setting.streams[u])
     IN IF kept = <<>> THEN Leave(u, "skipped")   \* InsufficientFramesError
        ELSE run' = [run EXCEPT ![u].pc = "write", ![u].via = "opencv",
                       ![u].kept = kept,
                       ![u].todo = SelectFrames(kept, FrameCount, setting.strategy)]
  /\ UNCHANGED <<setting, cv2, files, gateLogs>>

\* The source cannot be opened.
OpenFails(u) ==
  /\ At(u, "decode")
  /\ run' = [run EXCEPT ![u].pc = "fallback"]
  /\ UNCHANGED <<setting, cv2, files, gateLogs>>

\* _materialize and _write_jpeg: the next selected frame, renamed into place.
WriteFrame(u) ==
  /\ At(u, "write") /\ run[u].todo # <<>>
  /\ LET f == Head(run[u].todo)
         path == SegmentPath(u, f.at)
     IN /\ Write(path, u)
        /\ run' = [run EXCEPT ![u].todo = Tail(@), ![u].wrote = @ \cup {path},
                     ![u].media = Append(@, path)]
  /\ UNCHANGED <<setting, cv2, gateLogs>>

\* A frame that left the ring is read again from the source, which may fail, and
\* so may the JPEG encoder; the frames written before stay where they are.
WriteFrameFails(u) ==
  /\ At(u, "write") /\ run[u].todo # <<>>
  /\ Head(run[u].todo).index \notin InRing(run[u].kept) \/ setting.encodeFails
  /\ run' = [run EXCEPT ![u].pc = "fallback", ![u].media = <<>>, ![u].todo = <<>>]
  /\ UNCHANGED <<setting, cv2, files, gateLogs>>

\* _fallback_or_raise.
Fallback(u) ==
  /\ At(u, "fallback")
  /\ IF setting.fallback THEN run' = [run EXCEPT ![u].pc = "ffmpeg"]
     ELSE Leave(u, "frames_failed")
  /\ UNCHANGED <<setting, cv2, files, gateLogs>>

\* SegmentFrameVideoProcessor.extract_frame_uris, _extract_one: one ffmpeg per
\* frame; the first failure ends the call.
FfmpegFrame(u) ==
  /\ At(u, "ffmpeg")
  /\ LET n == Len(run[u].media) + 1
         path == SubdirPath(u, n)
     IN /\ n <= Len(UniformTimes(FrameCount))
        /\ \/ /\ Write(path, u)
              /\ run' = [run EXCEPT ![u].via = "ffmpeg", ![u].wrote = @ \cup {path},
                           ![u].media = Append(@, path)]
           \/ Leave(u, "frames_failed") /\ UNCHANGED files
  /\ UNCHANGED <<setting, cv2, gateLogs>>

\* WholeClipVideoProcessor: the clip itself, or a copy without the audio track.
PassClip(u) ==
  /\ At(u, "clip")
  /\ \/ /\ setting.audio
        /\ run' = [run EXCEPT ![u].pc = "gate", ![u].media = <<Source>>]
        /\ UNCHANGED files
     \/ /\ ~setting.audio /\ Source \in DOMAIN files
        /\ Write(SubdirPath(u, 0), u)
        /\ run' = [run EXCEPT ![u].pc = "gate", ![u].wrote = {SubdirPath(u, 0)},
                     ![u].media = <<SubdirPath(u, 0)>>]
     \/ ~setting.audio /\ Leave(u, "frames_failed") /\ UNCHANGED files
  /\ UNCHANGED <<setting, cv2, gateLogs>>

\* The selection is complete: media refs, then the gate.
Extracted(u) ==
  /\ \/ At(u, "write") /\ run[u].todo = <<>>
     \/ At(u, "ffmpeg") /\ Len(run[u].media) = Len(UniformTimes(FrameCount))
  /\ run' = [run EXCEPT ![u].pc = IF run[u].media = <<>> THEN "done" ELSE "gate"]
  /\ UNCHANGED <<setting, cv2, files, gateLogs>>

-----------------------------------------------------------------------------
(* The readers of the files *)

\* _pre_vlm_gate_profile: no gate, or the section is disabled.
NoGate(u) ==
  /\ At(u, "gate") /\ ~setting.gate
  /\ run' = [run EXCEPT ![u].pc = "vlm"]
  /\ UNCHANGED <<setting, cv2, files, gateLogs>>

\* PreVlmGateRunner.evaluate.
Gate(u) ==
  /\ At(u, "gate") /\ setting.gate
  /\ \E reply \in Replies, reason \in {"motion_spike", "other"} :
       LET n == Len(run[u].media)
           shaped == [reply EXCEPT !.images = SubSeq(@, 1, Min({n, Len(@)}))]
           signal == Signal(Detect(n, shaped))
           verdict == Verdict(signal, Rules, reason, setting.forced)
       IN /\ reply.kind = "transport" \/ ShapeIsValid(n, shaped)
          /\ gateLogs' = Append(gateLogs, GateLog(u, shaped, signal, verdict))
          /\ run' = [run EXCEPT ![u].pc =
                       IF verdict # "suppress_vlm" THEN "vlm"
                       ELSE IF setting.scale = "default_segment" THEN "release"
                       ELSE "done",
                     ![u].end = IF verdict = "suppress_vlm" THEN "suppressed"
                                ELSE "none"]
  /\ UNCHANGED <<setting, cv2, files>>

\* _detect_with_schema_retry: only a reply of the wrong form is asked for again.
GateRetries(u) ==
  /\ At(u, "gate") /\ setting.gate
  /\ \E reply \in Replies :
       reply.kind # "transport" /\ ~ShapeIsValid(Len(run[u].media), reply)
  /\ IF run[u].tries + 1 < SchemaTries
     THEN run' = [run EXCEPT ![u].tries = @ + 1] /\ UNCHANGED gateLogs
     ELSE /\ gateLogs' = Append(gateLogs, SchemaFailureLog(u))
          /\ Leave(u, "gate_failed")
  /\ UNCHANGED <<setting, cv2, files>>

\* The provider call and the publication, abstracted to their outcome.
Analyze(u) ==
  /\ At(u, "vlm")
  /\ \/ run' = [run EXCEPT ![u].pc = "release", ![u].end = "succeeded"]
     \/ Leave(u, "vlm_failed")
  /\ UNCHANGED <<setting, cv2, files, gateLogs>>

\* cleanup_selected_frames, after a success and outside debug retention.
Release(u) ==
  /\ At(u, "release")
  /\ run' = [run EXCEPT ![u].pc = "done"]
  /\ files' = IF setting.cleanup /\ ~setting.debug
              THEN [p \in DOMAIN files \ ToSet(run[u].media) |-> files[p]]
              ELSE files
  /\ UNCHANGED <<setting, cv2, gateLogs>>

FrameNext ==
  \/ Warmup
  \/ \E u \in Units :
       \/ Begin(u) \/ ImportBegins(u) \/ ImportEnds(u)
       \/ Decode(u) \/ OpenFails(u) \/ WriteFrame(u) \/ WriteFrameFails(u)
       \/ Fallback(u) \/ FfmpegFrame(u) \/ PassClip(u) \/ Extracted(u)
       \/ NoGate(u) \/ Gate(u) \/ GateRetries(u) \/ Analyze(u) \/ Release(u)

FrameSpec == FrameInit /\ [][FrameNext]_frameVars

-----------------------------------------------------------------------------
(* Properties. *)

\* The selection made from a stream is in time order and inside the window (a
\* position just before the end of it is rounded to its end), no two frames of
\* it have one timestamp, which names their files, and it has as many frames as there are to choose from up to the budget, none that fails
\* the quality gate while one passes it, and, under bins_then_score, one from
\* every part of the window that has a usable frame (select_frames,
\* _iter_sampled_frames).
SelectionIsFaithful ==
  \A u \in Units :
    At(u, "write") /\ run[u].media = <<>> =>
      LET s == run[u].todo
          kept == run[u].kept
          eligible == Eligible(kept)
      IN /\ \A i \in DOMAIN s : Start <= s[i].at /\ s[i].at <= End
         /\ \A i \in 1..(Len(s) - 1) : s[i].at < s[i + 1].at
         /\ Len(s) = Min({FrameCount, Cardinality(eligible)})
         /\ ToSet(s) \subseteq eligible
         /\ setting.strategy = "bins_then_score" =>
              \A f \in eligible :
                \E i \in DOMAIN s :
                  Bucket(kept, FrameCount, s[i]) = Bucket(kept, FrameCount, f)

\* Two units share the directories of a window.  While the gate or the VLM reads
\* a unit's media, every extracted file is there and holds what this very unit
\* wrote, although the other unit extracts, replaces and deletes files
\* meanwhile; and a published unit leaves no working file behind outside debug
\* retention, unless OpenCV wrote some before the fallback took over, which are
\* forgotten (_segment_dir, cleanup_selected_frames, _fallback_or_raise).
WorkingFilesAreOwn ==
  \A u \in Units :
    /\ run[u].pc \in {"gate", "vlm"} /\ run[u].wrote # {} =>
         \A i \in DOMAIN run[u].media :
           run[u].media[i] \in DOMAIN files /\ files[run[u].media[i]] = u
    /\ (/\ At(u, "done") /\ setting.cleanup /\ ~setting.debug
        /\ \/ run[u].end = "succeeded"
           \/ run[u].end = "suppressed" /\ setting.scale = "default_segment"
        /\ run[u].wrote \subseteq ToSet(run[u].media))
       => \A p \in DOMAIN files : files[p] # u

\* No unit meets a half imported cv2 when OpenCV can be imported: the warmup has
\* imported it before the pool starts (_warmup_decode_backend, import_cv2, cv2_available).
NoImportRace ==
  Imports => \A u \in Units : run[u].end # "import_race"

\* A detector that cannot see an image counts as one that saw nothing: the call
\* is suppressed and the log row says succeeded.  What tells the outage from a
\* quiet scene is the status of the signal in the same row
\* (_object_detection_signal, decide_pre_vlm_gate).
OutageIsRecorded ==
  \A i \in DOMAIN gateLogs :
    LET log == gateLogs[i]
    IN log.verdict # "none" =>
         (log.signal = "failed" <=>
            \/ log.reply.kind = "transport"
            \/ \E k \in DOMAIN log.reply.images : log.reply.images[k].failed)

\* frame_selection.py: the cleanup deletes "the unit's selected frame working
\* files".  The video itself is not one of them.
SourceSurvives == Source \in DOMAIN files
=============================================================================
