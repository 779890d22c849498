----------------------------- MODULE VectorIndex ----------------------------
(***************************************************************************)
(* The vector index: reindexing from the command line against concurrent   *)
(* publications, and which stored vectors a search compares its query to.  *)
(*                                                                         *)
(* A reindex is one session.  Its first statement is an audit INSERT, so   *)
(* on SQLite it holds the write lock to the end, the calls of the          *)
(* embedding provider included; on PostgreSQL the records it listed may be *)
(* replaced meanwhile, except those whose vectors it has written already   *)
(* (a foreign key locks their rows).  A vector is known by the text it was *)
(* computed from: a record and a channel.                                  *)
(***************************************************************************)
EXTENDS Backend, Integers, Sequences, FiniteSets, FiniteSetsExt

CONSTANTS
  MaxRecords,   \* bound: records published; ids grow with time
  PoolLimit,    \* the limit of the candidate pool
  BatchSize,
  Models,       \* embedding models, in the order of their model_id
  MaxRuns,      \* bound: reindex runs
  EmbedTries    \* max_retries + 1 of the embedder

ASSUME VectorAssumption == BatchSize \in Nat \ {0} /\ Models \subseteq Int

Channels == {"static", "dynamic"}

VARIABLES
  alive,     \* ids in observation_records
  issued,    \* ids given out so far
  vectors,   \* observation_vectors: set of [rec, channel, model, text]
  model,     \* the model the node is configured with
  reindex,   \* the session of the reindex command
  runs,
  covered    \* history: model and records of the last reindex that succeeded

vectorVars == <<backend, alive, issued, vectors, model, reindex, runs, covered>>

NoReindex == [pc |-> "idle"]

VectorInit ==
  /\ backend \in Backends
  /\ alive = {1} /\ issued = 1
  /\ vectors = {}
  /\ model \in Models
  /\ reindex = NoReindex /\ runs = 0
  /\ covered = [model |-> model, records |-> {}]

Running == reindex.pc # "idle"

-----------------------------------------------------------------------------
(* The two stores *)

\* PRIMARY KEY of observation_vectors: with PostgreSQL the model is part of it.
SqliteKey(v) == <<v.rec, v.channel>>
PostgresKey(v) == <<v.rec, v.channel, v.model>>
SameRow(v, w) ==
  IF backend = "sqlite" THEN SqliteKey(v) = SqliteKey(w) ELSE PostgresKey(v) = PostgresKey(w)

\* upsert_vectors
Upserted(old, new) == {v \in old : \A w \in new : ~SameRow(v, w)} \cup new

\* get_vectors_for_records, as the session sees it
StoredFor(records) ==
  {v \in (IF Running THEN Upserted(vectors, reindex.own) ELSE vectors) : v.rec \in records}

\* _vector_channel: the rows come ordered by model_id and the last one of a
\* record stays in the result.
UsedVector(r, channel) ==
  LET rows == {v \in vectors : v.rec = r /\ v.channel = channel}
  IN CHOOSE v \in rows : \A w \in rows : w.model <= v.model

-----------------------------------------------------------------------------
(* The embedding provider (external) and its adapter *)

\* An answer lists embeddings with the index of their input, in any order.
Answers(n) ==
  {[i \in 1..n |-> [index |-> i, input |-> i]],
   [i \in 1..n |-> [index |-> n + 1 - i, input |-> n + 1 - i]]}

\* Seeded fault: the order of the answer is taken for the order of the inputs.
ParseResponseInOrder(answer) == [i \in DOMAIN answer |-> answer[i].input]

\* parse_response sorts by the index.
ParseResponse(answer) ==
  [i \in DOMAIN answer |-> answer[CHOOSE p \in DOMAIN answer : answer[p].index = i].input]

-----------------------------------------------------------------------------
(* MaintenanceService.reindex *)

\* authorized_candidate_pool: the oldest PoolLimit records.
Pool == LET oldest == {r \in alive : Cardinality({s \in alive : s <= r}) <= PoolLimit}
        IN [i \in 1..Cardinality(oldest) |->
              CHOOSE r \in oldest : Cardinality({s \in oldest : s <= r}) = i]

StartReindex(force) ==
  /\ ~Running /\ runs < MaxRuns
  /\ runs' = runs + 1
  /\ reindex' = [pc |-> "batch", force |-> force, pool |-> Pool, at |-> 0,
                 own |-> {}, pending |-> <<>>, tries |-> 0]
  /\ UNCHANGED <<backend, alive, issued, vectors, model, covered>>

BatchRecords ==
  LET last == Min({reindex.at + BatchSize, Len(reindex.pool)})
  IN {reindex.pool[i] : i \in reindex.at + 1 .. last}

\* The pairs that are not stored under the current model, records in pool order,
\* static before dynamic.
PendingKeys ==
  LET current == {<<v.rec, v.channel>> :
                    v \in {w \in StoredFor(BatchRecords) : w.model = model}}
      wanted == {k \in BatchRecords \X Channels : reindex.force \/ k \notin current}
      Before(a, b) == a[1] < b[1] \/ (a[1] = b[1] /\ (a = b \/ a[2] = "static"))
  IN [i \in 1..Cardinality(wanted) |->
        CHOOSE k \in wanted : Cardinality({j \in wanted : Before(j, k)}) = i]

\* _reindex_batch, up to the embedding call
PlanBatch ==
  /\ reindex.pc = "batch" /\ reindex.at < Len(reindex.pool)
  /\ reindex' = IF PendingKeys = <<>> THEN [reindex EXCEPT !.at = @ + BatchSize]
                ELSE [reindex EXCEPT !.pc = "embed", !.pending = PendingKeys, !.tries = 0]
  /\ UNCHANGED <<backend, alive, issued, vectors, model, runs, covered>>

\* embed_texts answers; the embeddings are zipped with the keys.
EmbedBatch(answer) ==
  /\ reindex.pc = "embed"
  /\ reindex' = [reindex EXCEPT
       !.pc = "write",
       !.pending = [i \in DOMAIN @ |->
          [rec |-> @[i][1], channel |-> @[i][2], model |-> model,
           text |-> @[ParseResponse(answer)[i]]]]]
  /\ UNCHANGED <<backend, alive, issued, vectors, model, runs, covered>>

\* A timeout, a status, a short or misshapen answer: once more, or EmbeddingError.
\* The reindex_failed event is written in the session that is rolled back.
EmbedFails ==
  /\ reindex.pc = "embed"
  /\ reindex' = IF reindex.tries + 1 < EmbedTries
                THEN [reindex EXCEPT !.tries = @ + 1] ELSE NoReindex
  /\ UNCHANGED <<backend, alive, issued, vectors, model, runs, covered>>

\* upsert_vectors: on PostgreSQL the foreign key fails for a record that has
\* been replaced, which ends the command.
WriteBatch ==
  LET new == {reindex.pending[i] : i \in DOMAIN reindex.pending}
  IN /\ reindex.pc = "write"
     /\ reindex' = IF backend = "postgres" /\ \E v \in new : v.rec \notin alive
                   THEN NoReindex
                   ELSE [reindex EXCEPT !.pc = "batch", !.at = @ + BatchSize,
                                        !.own = Upserted(@, new)]
     /\ UNCHANGED <<backend, alive, issued, vectors, model, runs, covered>>

FinishReindex ==
  /\ reindex.pc = "batch" /\ reindex.at >= Len(reindex.pool)
  /\ vectors' = Upserted(vectors, reindex.own)
  /\ covered' = [model |-> model, records |-> {reindex.pool[i] : i \in DOMAIN reindex.pool}]
  /\ reindex' = NoReindex
  /\ UNCHANGED <<backend, alive, issued, model, runs>>

-----------------------------------------------------------------------------
(* Everybody else *)

MayPublish(replaced) ==
  IF backend = "sqlite" THEN ~Running
  ELSE Running => \A v \in reindex.own : v.rec \notin replaced

\* A record is published, in the place of another one or not.  PostgreSQL
\* deletes the vectors of a deleted record; on SQLite they stay.
PublishRecord(replaced) ==
  /\ issued < MaxRecords
  /\ MayPublish(replaced)
  /\ issued' = issued + 1
  /\ alive' = (alive \ replaced) \cup {issued + 1}
  /\ vectors' = IF backend = "postgres" THEN {v \in vectors : v.rec \notin replaced} ELSE vectors
  /\ UNCHANGED <<backend, model, reindex, runs, covered>>

\* The node is restarted with another embedding model.
ChangeModel(m) ==
  /\ ~Running /\ m # model
  /\ model' = m
  /\ UNCHANGED <<backend, alive, issued, vectors, reindex, runs, covered>>

VectorNext ==
  \/ \E force \in BOOLEAN : StartReindex(force)
  \/ PlanBatch
  \/ reindex.pc = "embed" /\ \E a \in Answers(Len(reindex.pending)) : EmbedBatch(a)
  \/ EmbedFails \/ WriteBatch \/ FinishReindex
  \/ PublishRecord({}) \/ \E r \in alive : PublishRecord({r})
  \/ \E m \in Models : ChangeModel(m)

VectorSpec == VectorInit /\ [][VectorNext]_vectorVars

-----------------------------------------------------------------------------
(* Properties *)

\* After a reindex that succeeded, whatever was published, replaced or failed
\* before, meanwhile and since: every stored vector was computed from its own
\* record's text for its channel, every listed record that is still active has
\* both channels under the model of that reindex, and a search that uses this
\* model compares with these.  The exception is PostgreSQL with rows of a model
\* whose id sorts later: they are kept, and win.
ReindexIsEffective ==
  /\ \A v \in vectors : v.text = <<v.rec, v.channel>>
  /\ \A r \in covered.records \cap alive, c \in Channels :
       /\ \E v \in vectors : v.rec = r /\ v.channel = c /\ v.model = covered.model
       /\ \/ UsedVector(r, c).model = covered.model
          \/ backend = "postgres" /\ UsedVector(r, c).model > covered.model
=============================================================================
