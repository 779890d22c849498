------------------------------ MODULE MCNode --------------------------------
(***************************************************************************)
(* Model checking of the parts of a node that share no state with each     *)
(* other: unit planning, the frame store and its gate, the timeline, the   *)
(* submission of videos, the provisioning of cameras, the vector index,    *)
(* the reading of records, backup and the ranking of a search.  A run      *)
(* explores one part, from its own initial states, with the others at      *)
(* rest in a fixed one of theirs: the sum of the parts, not their product. *)
(***************************************************************************)
EXTENDS UnitPlanning, FrameStore, CallTimeline, Submission, Provisioning,
        VectorIndex, RecordAccess, Backup, Ranking

CONSTANTS u1, u2

VARIABLE part   \* the part under exploration

----------------------------------------------------------------------------
(* Unit planning and the frame store.                                      *)

MCUnits == {u1, u2}
MCClients == {u1, u2}
MCDefaultUnits == {u1}
MCHfUnits == {u2}
MCRatio == <<1, 2>>

\* Videos whose last sample is before, at and after the end of the video.
MCVideos ==
  {[duration |-> d, scores |-> s] :
     d \in 0..9, s \in UNION {[1..n -> 0..1] : n \in 0..4}}

\* Streams, in quarters of a millisecond: regular but for the tolerance, a
\* container without positions, an early seek with halves to round up and down
\* and a frame rounded to the end of the window, an empty window, a fast camera.
\* Unit u1 gets every quality and score.
Positions == {<<15, 23, 32>>, <<0, 0, 0>>, <<8, 18, 30, 39>>, <<44, 48>>,
              <<16, 20, 24, 28>>}
FramesOf(ps, q) == [i \in DOMAIN ps |-> [pos |-> ps[i], ok |-> q[i].ok,
                                       score |-> q[i].score]]
Plain == FramesOf(<<16, 24, 32>>, [i \in 1..3 |-> [ok |-> TRUE, score |-> i]])
StreamsOf(ps) ==
  {FramesOf(ps, q) : q \in [DOMAIN ps -> [ok : BOOLEAN, score : 1..2]]}

Setting(mode, provider, media, decode, audio, fallback, install) ==
  [mode |-> mode, provider |-> provider, media |-> media, decode |-> decode,
   audio |-> audio, fallback |-> fallback, install |-> install,
   cleanup |-> TRUE, debug |-> FALSE, gate |-> TRUE, encodeFails |-> FALSE,
   scale |-> "default_segment", forced |-> {"other"},
   strategy |-> "bins_then_score", streams |-> [u \in MCUnits |-> Plain]]
Opencv(fallback, install) ==
  Setting("ffprobe", "real", "frames", "opencv", FALSE, fallback, install)
Clip(audio) ==
  Setting("ffprobe", "real", "video", "ffmpeg", audio, FALSE, "works")

MCCases ==
  {[Opencv(TRUE, "works") EXCEPT !.streams[u1] = s, !.strategy = st, !.gate = FALSE] :
     s \in UNION {StreamsOf(ps) : ps \in Positions},
     st \in {"bins_then_score", "score", "uniform"}}
  \cup {[Opencv(f, i) EXCEPT !.encodeFails = (f /\ i = "works") \/ i = "unsound",
                          !.scale = sc] :
          f \in BOOLEAN, i \in {"works", "unsound", "broken", "absent"},
          sc \in {"default_segment", "high_freq_event"}}
  \cup {[Opencv(TRUE, "works") EXCEPT !.debug = d, !.cleanup = ~d] : d \in BOOLEAN}
  \cup {Setting("static", "mock", "frames", "opencv", FALSE, TRUE, "works"),
        Setting("ffprobe", "mock", "frames", "opencv", FALSE, TRUE, "works"),
        Setting("ffmpeg_frames", "real", "frames", "opencv", FALSE, TRUE, "works"),
        Setting("ffprobe", "real", "frames", "ffmpeg", FALSE, TRUE, "works")}
  \cup {Clip(a) : a \in BOOLEAN}

MCRules ==
  {[label |-> "person", minConfidence |-> 5, ratio |-> <<1, 2>>, action |-> "call_vlm"]}

Seen(confidence) ==
  [failed |-> FALSE, seen |-> {[label |-> "person", confidence |-> confidence]}]
Quiet == [failed |-> FALSE, seen |-> {}]
Broken == [failed |-> TRUE, seen |-> {}]
MCReplies ==
  {[kind |-> "transport", images |-> <<>>], [kind |-> "shape", images |-> <<>>],
   MockReply(2, 1, {"person"}),
   [kind |-> "images", images |-> <<Broken, Quiet>>],
   [kind |-> "images", images |-> <<Seen(9), Broken>>],
   [kind |-> "images", images |-> <<Seen(1), Quiet>>]}


----------------------------------------------------------------------------
(* Submission: retries, another time zone, another file under the same     *)
(* anchor, keys that are shared, a principal without the capability.       *)

Req(uri, start, zone, key, ext, motion) ==
  [allowed |-> TRUE, camera |-> "cam", start |-> start, zone |-> zone, uri |-> uri,
   key |-> key, ext |-> ext, motion |-> motion]
Bare == Req("a", 1, "utc", Missing, Missing, FALSE)
MCRequests ==
  {Bare,
   [Bare EXCEPT !.motion = TRUE],
   [Bare EXCEPT !.zone = "east"],
   [Bare EXCEPT !.uri = "b"],
   [Bare EXCEPT !.allowed = FALSE],
   Req("a", 1, "utc", <<"k">>, Missing, TRUE),
   Req("b", 2, "utc", <<"k">>, Missing, FALSE),
   Req("b", 2, "utc", Missing, <<"k">>, FALSE)}

----------------------------------------------------------------------------
(* Reading records: two policies, a camera bound to a policy of its own, a *)
(* location without one, and a record that is republished at a higher      *)
(* level.                                                                  *)

MCPrincipalType == "alice" :> "user" @@ "root" :> "admin"
MCPolicyLevel == "p1" :> 1 @@ "p2" :> 2
MCLocationPolicy == "lobby" :> "p1" @@ "vault" :> "p2" @@ "auto" :> Unbound
MCCameraSite ==
  "cam1" :> [location |-> "lobby", policy |-> Unbound]
  @@ "cam2" :> [location |-> "vault", policy |-> "p1"]
Row(id, from, camera, location, policy, level) ==
  [id |-> id, video |-> "v", from |-> from, to |-> from + 2, camera |-> camera,
   location |-> location, policy |-> policy, level |-> level]
MCFirstRows ==
  {Row(101, 0, "cam1", "lobby", "p1", 1), Row(103, 1, "cam2", "vault", "p1", 2),
   Row(104, 3, "cam1", "auto", "p1", 1)}
MCRows == MCFirstRows \cup {Row(102, 0, "cam1", "lobby", "p2", 2)}
Everybody == {"alice", "root"}
MCRulings ==
  {[allowed |-> {}, denied |-> {}], [allowed |-> Everybody, denied |-> {}],
   [allowed |-> Everybody, denied |-> {"alice"}]}

----------------------------------------------------------------------------
(* Ranking three candidates: by texts, vectors, boosts and time, and with  *)
(* every reply of the reranker to a head of two documents.                 *)

Record(static, dynamic, vecs, tags, scale, time) ==
  [static |-> static, dynamic |-> dynamic, staticVec |-> vecs[1], dynamicVec |-> vecs[2],
   tags |-> tags, scale |-> scale, at |-> time]
NoVectors == <<NoVector, NoVector>>
Red == {{}, {"red"}}
Pools(records) == [1..3 -> records]
TextPools ==
  Pools({Record(s, d, NoVectors, {}, "default", 0) : s \in SUBSET {"red", "id-7"}, d \in Red})
VectorPools ==
  Pools({Record(s, {}, v, {}, "default", 0) : s \in Red,
           v \in {NoVectors, <<<<1, 0>>, NoVector>>, <<<<1, 1>>, <<1, 0>>>>,
                  <<<<-1, 0>>, NoVector>>, <<<<1>>, <<1, 1>>>>}})
BoostPools ==
  Pools({Record(s, {}, NoVectors, t, c, 0) : s \in Red, t \in {{}, {1}, 1..5},
           c \in {"default", "high_freq"}})
TimePools == Pools({Record({}, {}, NoVectors, {}, "default", t) : t \in 1..2})

Plainly(pool) ==
  [pool |-> pool, query |-> {"red"}, mode |-> "hybrid", fts |-> TRUE, vectors |-> FALSE,
   reranker |-> FALSE, wanted |-> {}, scales |-> {}]
MCSearches ==
  {[Plainly(p) EXCEPT !.query = q, !.mode = m] :
     p \in TextPools, q \in {{"red"}, {"id-7"}, {"red", "id-7"}},
     m \in {"hybrid", "static_attribute"}}
  \cup {[Plainly(p) EXCEPT !.mode = "dynamic_event", !.fts = FALSE] : p \in TextPools}
  \cup {[Plainly(p) EXCEPT !.vectors = TRUE] : p \in VectorPools}
  \cup {[Plainly(p) EXCEPT !.wanted = 1..5, !.scales = {"high_freq"}] : p \in BoostPools}
  \cup {[Plainly(p) EXCEPT !.query = {}] : p \in TimePools}
  \cup {[Plainly(p) EXCEPT !.reranker = TRUE, !.query = {"red", "id-7"}] : p \in TextPools}
MCRerankBodies == UNION {[d -> 0..2] : d \in {{}, {1}, {2}, {1, 2}, {2, 5}}}
MCQueryVector == <<1, 0>>
MCUnit == 61 * 62 * 63

----------------------------------------------------------------------------
(* The sum.                                                                *)

PlanAtRest ==
  /\ video = [duration |-> 0, scores |-> <<>>] /\ duration = Unknown
  /\ triggers = {} /\ scans = 0 /\ timed = FALSE /\ queue = <<>> /\ phase = "motion"
  /\ plans = [default |-> <<>>, hf |-> <<>>]
FrameAtRest ==
  /\ setting = Clip(FALSE) /\ cv2 = "none" /\ files = Source :> "source"
  /\ gateLogs = <<>> /\ run = [u \in Units |-> Cold]
SubAtRest ==
  /\ wanted = [c \in Clients |-> Bare] /\ tables = NoWrites
  /\ sub = [c \in Clients |-> Unsent] /\ sends = [c \in Clients |-> 0] /\ answers = {}
ProvAtRest ==
  /\ places = {} /\ device = NoCamera
  /\ plan = [a \in Actors |-> Closed] /\ context = [w \in Planners |-> "none"]
  /\ stale = {} /\ lateLook = {}
VectorAtRest ==
  /\ alive = {1} /\ issued = 1 /\ vectors = {} /\ model = Min(Models)
  /\ reindex = NoReindex /\ runs = 0 /\ covered = [model |-> model, records |-> {}]
RankAtRest ==
  /\ search = Plainly(<<>>) /\ stage = "rank" /\ cosines = <<>> /\ ranked = <<>>
  /\ tried = 0 /\ reply = <<>> /\ results = <<>>

Parts ==
  {"planning", "frames", "timeline", "submission", "provisioning", "vectors",
   "access", "backup", "ranking"}

MCInit ==
  /\ part \in Parts
  /\ IF part = "planning" THEN PlanInit ELSE PlanAtRest
  /\ IF part = "frames" THEN FrameInit ELSE FrameAtRest
  /\ TimelineInit
  /\ IF part \in {"submission", "provisioning", "vectors"}
     THEN backend \in Backends ELSE backend = "sqlite"
  /\ IF part = "submission" THEN SubInit ELSE SubAtRest
  /\ IF part = "provisioning" THEN ProvInit ELSE ProvAtRest
  /\ IF part = "vectors" THEN VectorInit ELSE VectorAtRest
  /\ AccessInit
  /\ BackupInit
  /\ IF part = "ranking" THEN RankInit ELSE RankAtRest

KeepMedia == UNCHANGED <<planVars, frameVars, timelineVars>>
KeepRequests == UNCHANGED <<subVars, accessVars, rankVars>>
KeepAdmin == UNCHANGED <<provVars, vectorVars, backupVars>>

MCNext ==
  /\ UNCHANGED part
  /\ \/ /\ part = "planning" /\ PlanNext
        /\ UNCHANGED <<frameVars, timelineVars>> /\ KeepRequests /\ KeepAdmin
     \/ /\ part = "frames" /\ FrameNext
        /\ UNCHANGED <<planVars, timelineVars>> /\ KeepRequests /\ KeepAdmin
     \/ /\ part = "timeline" /\ TimelineNext
        /\ UNCHANGED <<planVars, frameVars>> /\ KeepRequests /\ KeepAdmin
     \/ /\ part = "submission" /\ SubNext
        /\ UNCHANGED <<accessVars, rankVars>> /\ KeepMedia /\ KeepAdmin
     \/ /\ part = "access" /\ AccessNext
        /\ UNCHANGED <<subVars, rankVars>> /\ KeepMedia /\ KeepAdmin
     \/ /\ part = "ranking" /\ RankNext
        /\ UNCHANGED <<subVars, accessVars>> /\ KeepMedia /\ KeepAdmin
     \/ /\ part = "provisioning" /\ ProvNext
        /\ UNCHANGED <<vectorVars, backupVars>> /\ KeepMedia /\ KeepRequests
     \/ /\ part = "vectors" /\ VectorNext
        /\ UNCHANGED <<provVars, backupVars>> /\ KeepMedia /\ KeepRequests
     \/ /\ part = "backup" /\ BackupNext
        /\ UNCHANGED <<provVars, vectorVars>> /\ KeepMedia /\ KeepRequests

allVars ==
  <<part, planVars, frameVars, timelineVars, subVars, provVars, vectorVars, accessVars,
    backupVars, rankVars>>

\* Every part; and the one that the run about a divergence looks at.
MCSpec == MCInit /\ [][MCNext]_allVars
FramesSpec == MCInit /\ part = "frames" /\ [][MCNext]_allVars
=============================================================================
