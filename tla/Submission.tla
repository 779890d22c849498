----------------------------- MODULE Submission -----------------------------
(***************************************************************************)
(* Submitting a video: IngestionService.submit in the session of the       *)
(* analyze request, statement by statement, for clients that send at the   *)
(* same time, lose their connection or the answer, and send again.         *)
(*                                                                         *)
(* The request does not announce that it will write.  On SQLite its reads  *)
(* are autocommitted and its first INSERT takes the write lock until the   *)
(* commit; on PostgreSQL an INSERT waits for an open transaction that has  *)
(* inserted the same unique value.  A row's own id is the <<client, send>> *)
(* that made it (a uuid in the code).                                      *)
(***************************************************************************)
EXTENDS Backend, Naturals, FiniteSets

CONSTANTS
  Clients,
  Requests,   \* records [allowed, camera, start, zone, uri, key, ext, motion]
  MaxSends    \* bound: how often a client sends its request

Missing == <<>>   \* None of Python; given keys are 1-tuples, ids pairs
NoWrites == [sources |-> {}, jobs |-> {}, scales |-> {}, tasks |-> {}]

VARIABLES
  wanted,   \* the request of each client
  tables,   \* what is committed
  sub,      \* the request in flight of each client, with its own writes
  sends,
  answers   \* history: what each client was told, or would have been

subVars == <<backend, wanted, tables, sub, sends, answers>>

Unsent == [pc |-> "idle", own |-> NoWrites, source |-> Missing, job |-> Missing]

SubInit ==
  /\ backend \in Backends
  /\ wanted \in [Clients -> Requests]
  /\ tables = NoWrites
  /\ sub = [c \in Clients |-> Unsent]
  /\ sends = [c \in Clients |-> 0]
  /\ answers = {}

-----------------------------------------------------------------------------
(* Rows, keys and locks *)

\* What the unique constraint (camera_id, video_start_time) compares: SQLite
\* has the ISO text with its offset, PostgreSQL the instant.
SourceKey(s) ==
  IF backend = "sqlite" THEN <<s.camera, s.start, s.zone>> ELSE <<s.camera, s.start>>

KeyOf(table, row) ==
  CASE table = "sources" -> SourceKey(row)
    [] table = "jobs" -> row.key
    [] table = "scales" -> <<row.job, row.scale>>
    [] table = "tasks" -> row

NewId(c) == <<c, sends[c]>>
Visible(c, table) == tables[table] \cup sub[c].own[table]

\* Another transaction must end before c can insert these rows.
Blocked(c, table, rows) ==
  \E d \in Clients \ {c} :
    IF backend = "sqlite" THEN sub[d].own # NoWrites
    ELSE \E r \in rows, o \in sub[d].own[table] : KeyOf(table, o) = KeyOf(table, r)
Clash(c, table, rows) ==
  \E r \in rows, o \in Visible(c, table) : KeyOf(table, o) = KeyOf(table, r)

Told(c, status, video, job) ==
  [client |-> c, request |-> wanted[c], status |-> status, video |-> video, job |-> job]

\* The session is rolled back and map_exception chooses the status.
Refuse(c, status) ==
  /\ answers' = answers \cup {Told(c, status, Missing, Missing)}
  /\ sub' = [sub EXCEPT ![c] = Unsent]
  /\ UNCHANGED <<backend, wanted, tables, sends>>

\* map_integrity_error: only a flush is guarded, and on PostgreSQL the statement
\* fails in execute, before it.
IntegrityStatus(table) ==
  IF backend = "postgres" THEN "internal_error"
  ELSE IF table = "scales" THEN "conflict" ELSE "idempotency_conflict"

Advance(c, place, change) ==
  /\ sub' = [sub EXCEPT ![c] = [change EXCEPT !.pc = place]]
  /\ UNCHANGED <<backend, wanted, tables, sends, answers>>

\* Seeded fault: no unique constraint.
InsertUnchecked(c, table, rows, place, change) ==
  /\ ~Blocked(c, table, rows)
  /\ Advance(c, place, [change EXCEPT !.own[table] = @ \cup rows])

\* One INSERT: it waits, fails on a unique constraint, or goes on.
Insert(c, table, rows, place, change) ==
  /\ ~Blocked(c, table, rows)
  /\ IF Clash(c, table, rows) THEN Refuse(c, IntegrityStatus(table))
     ELSE Advance(c, place, [change EXCEPT !.own[table] = @ \cup rows])

-----------------------------------------------------------------------------
(* IngestionService.submit *)

\* The analyze handler resolves the principal and its capabilities.
Send(c) ==
  /\ sub[c].pc = "idle" /\ sends[c] < MaxSends
  /\ sends' = [sends EXCEPT ![c] = @ + 1]
  /\ IF wanted[c].allowed
     THEN sub' = [sub EXCEPT ![c].pc = "source"] /\ UNCHANGED answers
     ELSE answers' = answers \cup {Told(c, "capability_denied", Missing, Missing)}
          /\ UNCHANGED sub
  /\ UNCHANGED <<backend, wanted, tables>>

\* create_or_get_by_idempotency, the SELECT
SelectSource(c) ==
  LET found == {s \in Visible(c, "sources") : SourceKey(s) = SourceKey(wanted[c])}
  IN /\ sub[c].pc = "source"
     /\ \/ found = {} /\ Advance(c, "insert_source", sub[c])
        \/ \E s \in found :
             IF s.uri # wanted[c].uri THEN Refuse(c, "idempotency_conflict")
             ELSE Advance(c, "find_job", [sub[c] EXCEPT !.source = s.id])

\* create_or_get_by_idempotency, the INSERT of either adapter
SourceRow(c) ==
  [id |-> NewId(c), camera |-> wanted[c].camera, start |-> wanted[c].start,
   zone |-> wanted[c].zone, uri |-> wanted[c].uri]
InsertSource(c) ==
  /\ sub[c].pc = "insert_source"
  /\ Insert(c, "sources", {SourceRow(c)}, "find_job",
            [sub[c] EXCEPT !.source = NewId(c)])

\* request.idempotency_key or request.external_source_id or source.video_id
JobKey(c) ==
  CASE wanted[c].key # Missing -> wanted[c].key
    [] wanted[c].key = Missing /\ wanted[c].ext # Missing -> wanted[c].ext
    [] OTHER -> sub[c].source
JobsOfKey(c) == {j \in Visible(c, "jobs") : j.key = JobKey(c)}

\* get_by_idempotency_key: an existing job is the answer.
FindJob(c) ==
  /\ sub[c].pc = "find_job"
  /\ \/ JobsOfKey(c) = {} /\ Advance(c, "select_job", sub[c])
     \/ \E j \in JobsOfKey(c) :
          Advance(c, "commit", [sub[c] EXCEPT !.job = j.id])

\* create_job, the SELECT: a job committed since then is taken over if it is
\* about the same video, and submit goes on as if it were new.
SelectJob(c) ==
  /\ sub[c].pc = "select_job"
  /\ \/ JobsOfKey(c) = {} /\ Advance(c, "insert_job", sub[c])
     \/ \E j \in JobsOfKey(c) :
          IF j.video # sub[c].source THEN Refuse(c, "idempotency_conflict")
          ELSE Advance(c, "insert_scales", [sub[c] EXCEPT !.job = j.id])

\* create_job, the INSERT of either adapter
JobRow(c) == [id |-> NewId(c), video |-> sub[c].source, key |-> JobKey(c)]
InsertJob(c) ==
  /\ sub[c].pc = "insert_job"
  /\ Insert(c, "jobs", {JobRow(c)}, "insert_scales", [sub[c] EXCEPT !.job = NewId(c)])

\* create_scale_task for default_segment and, when opted in, the other two
ScalesOf(request) ==
  {"default_segment"} \cup IF request.motion THEN {"motion_scan", "high_freq_event"} ELSE {}
ScaleRow(c, s) == [job |-> sub[c].job, scale |-> s]
InsertScales(c) ==
  /\ sub[c].pc = "insert_scales"
  /\ Insert(c, "scales", {ScaleRow(c, s) : s \in ScalesOf(wanted[c])}, "enqueue", sub[c])

\* enqueue_task and the audit event
TaskRow(c) == [job |-> sub[c].job, video |-> sub[c].source, by |-> NewId(c)]
EnqueueAnalysis(c) ==
  /\ sub[c].pc = "enqueue"
  /\ Insert(c, "tasks", {TaskRow(c)}, "commit", sub[c])

\* session_scope commits when the handler's block ends, and then the client is
\* answered.  The answer may get lost: the client can send again either way.
CommitSubmission(c) ==
  /\ sub[c].pc = "commit"
  /\ tables' = [t \in DOMAIN tables |-> tables[t] \cup sub[c].own[t]]
  /\ answers' = answers \cup {Told(c, "accepted", sub[c].source, sub[c].job)}
  /\ sub' = [sub EXCEPT ![c] = Unsent]
  /\ UNCHANGED <<backend, wanted, sends>>

\* The server dies, the connection breaks, or busy_timeout runs out: rollback.
AbortSubmission(c) == sub[c].pc # "idle" /\ Refuse(c, "internal_error")

SubNext ==
  \E c \in Clients :
    \/ Send(c) \/ SelectSource(c) \/ InsertSource(c)
    \/ FindJob(c) \/ SelectJob(c) \/ InsertJob(c)
    \/ InsertScales(c) \/ EnqueueAnalysis(c)
    \/ CommitSubmission(c) \/ AbortSubmission(c)

SubSpec == SubInit /\ [][SubNext]_subVars

-----------------------------------------------------------------------------
(* Properties *)

\* Whatever the clients race on, lose and send again: there is one source per
\* anchor and one job per idempotency key, a job has exactly one queue task,
\* which carries its id and its video, and the scale tasks of the request that
\* made it (submit is one transaction).  An accepted answer names such a job,
\* and every accepted answer to one request names the same one.
SubmissionIsIdempotent ==
  /\ \A t \in {"sources", "jobs", "scales"} : \A a, b \in tables[t] :
       KeyOf(t, a) = KeyOf(t, b) => a = b
  /\ \A j \in tables.jobs :
       /\ \E q \in tables.tasks :
            q.video = j.video /\ {r \in tables.tasks : r.job = j.id} = {q}
       /\ {s.scale : s \in {r \in tables.scales : r.job = j.id}}
            = ScalesOf(wanted[j.id[1]])
  /\ \A a \in {x \in answers : x.status = "accepted"} :
       /\ \E j \in tables.jobs : j.id = a.job
       /\ \A b \in answers :
            b.status = "accepted" /\ b.request = a.request => b.job = a.job

\* The test of create_job says "Same key + different video_id is a conflict":
\* an accepted answer names a job that analyses the video of the request.
AnswerIsAboutItsVideo ==
  \A a \in answers : a.status = "accepted" =>
    \E j \in tables.jobs : j.id = a.job /\ j.video = a.video
=============================================================================
