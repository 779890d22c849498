----------------------------- MODULE Publication ----------------------------
(***************************************************************************)
(* Concurrent publishing transactions: publish_records_atomically inside   *)
(* the session of _publish_and_mark, on both database backends.            *)
(*                                                                         *)
(* SQLite: the write coordinator and BEGIN IMMEDIATE let one writer in at  *)
(* a time.  PostgreSQL: no coordinator and READ COMMITTED, so a statement  *)
(* sees what was committed before it, and waits for the row locks of       *)
(* transactions that are still open.  A transaction's own writes are kept  *)
(* in tx until it commits.                                                 *)
(***************************************************************************)
EXTENDS Naturals, FiniteSets

CONSTANTS
  Publishers,  \* the unit threads that publish
  Jobs,
  Keys,        \* (video, start, end, scale): the natural keys of records
  Records      \* record ids; every publication brings a new one

\* No record: the SELECT found nothing.
None == "none"

ASSUME NoneAssumption == None \notin Records

VARIABLES
  backend,  \* database.backend: the configuration of the deployment
  active,   \* observation_records: set of [id, key]
  index,    \* ids with full-text rows
  history,  \* observation_record_history: set of [old, by]
  summary,  \* the id lists of each AnalysisJob row
  audit,    \* ids named by publication_succeeded events
  tx        \* the transaction each publisher has open

vars == <<backend, active, index, history, summary, audit, tx>>
store == <<backend, active, index, history, summary, audit>>

Summaries ==
  [written : SUBSET Records, archived : SUBSET Records]

NoTx == [pc |-> "idle"]

Init ==
  /\ backend \in {"sqlite", "postgres"}
  /\ active = {}
  /\ index = {}
  /\ history = {}
  /\ summary = [j \in Jobs |-> [written |-> {}, archived |-> {}]]
  /\ audit = {}
  /\ tx = [p \in Publishers |-> NoTx]

At(p, place) == tx[p].pc = place
Open(p) == tx[p].pc # "idle"

\* The ids that were used, by a committed or by an open transaction.
Used == audit \cup {tx[p].rec : p \in {q \in Publishers : Open(q)}}

-----------------------------------------------------------------------------
\* Opening the session of _publish_and_mark.
OpenTx(p, j, k, r) ==
  tx' = [tx EXCEPT ![p] = [pc |-> "open", job |-> j, key |-> k, rec |-> r,
                           read |-> FALSE, seen |-> summary[j],
                           existing |-> None]]

\* Seeded fault: SQLite transactions start deferred, without the coordinator.
BeginDeferred(p, j, k, r) ==
  /\ At(p, "idle")
  /\ r \notin Used
  /\ OpenTx(p, j, k, r)
  /\ UNCHANGED store

\* write_coordinator.write() and the session; the record is built with a new id.
Begin(p, j, k, r) ==
  /\ At(p, "idle")
  /\ r \notin Used
  /\ backend = "sqlite" => \A q \in Publishers : ~Open(q)
  /\ OpenTx(p, j, k, r)
  /\ UNCHANGED store

\* The job row is loaded: first thing in _publish_and_mark (not for a
\* detector-only unit), and inside publish.  The second get finds the row of
\* the first in the session's identity map, which holds it weakly, or reads
\* it again.
ReadJob(p) ==
  /\ tx[p].pc \in {"open", "written"}
  /\ tx' = [tx EXCEPT ![p].read = TRUE, ![p].seen = summary[tx[p].job]]
  /\ UNCHANGED store

\* SELECT the active record of the natural key.
SelectExisting(p) ==
  /\ At(p, "open")
  /\ tx' = [tx EXCEPT
       ![p].pc = "selected",
       ![p].existing = IF \E a \in active : a.key = tx[p].key
                       THEN (CHOOSE a \in active : a.key = tx[p].key).id
                       ELSE None]
  /\ UNCHANGED store

\* The row and key locks that other open transactions hold.
KeyLocked(p) ==
  \E q \in Publishers \ {p} :
    tx[q].pc \in {"written", "summarised"} /\ tx[q].key = tx[p].key
JobLocked(p) ==
  \E q \in Publishers \ {p} :
    At(q, "summarised") /\ tx[q].job = tx[p].job

\* uq_obs_segment_scale: another record of the key is there by now.
Conflict(p) ==
  \E a \in active : a.key = tx[p].key /\ a.id # tx[p].existing

\* Seeded fault: no unique constraint on the natural key.
WriteRecordUnchecked(p) ==
  /\ At(p, "selected")
  /\ ~KeyLocked(p)
  /\ tx' = [tx EXCEPT ![p].pc = "written"]
  /\ UNCHANGED store

\* Archive and delete what was selected, insert the new record and its
\* full-text rows; waits for a transaction that has written the same key.  On
\* a conflict the session is rolled back.
WriteRecord(p) ==
  /\ At(p, "selected")
  /\ ~KeyLocked(p)
  /\ tx' = [tx EXCEPT ![p] = IF Conflict(p) THEN NoTx
                             ELSE [tx[p] EXCEPT !.pc = "written"]]
  /\ UNCHANGED store

\* UPDATE analysis_jobs with the lists that were read plus this publication's.
WriteSummary(p) ==
  /\ At(p, "written")
  /\ tx[p].read
  /\ ~JobLocked(p)
  /\ tx' = [tx EXCEPT ![p].pc = "summarised"]
  /\ UNCHANGED store

\* What p's transaction archives.
Archived(p) == {tx[p].existing} \ {None}

\* The lists p's transaction writes.
NewSummary(p) ==
  [written  |-> tx[p].seen.written \cup {tx[p].rec},
   archived |-> tx[p].seen.archived \cup Archived(p)]

\* What a commit makes visible, apart from the full-text rows.
CommitRows(p) ==
  /\ At(p, "summarised")
  /\ active' = {a \in active : a.id # tx[p].existing}
                 \cup {[id |-> tx[p].rec, key |-> tx[p].key]}
  /\ history' = history \cup {[old |-> o, by |-> tx[p].rec] : o \in Archived(p)}
  /\ summary' = [summary EXCEPT ![tx[p].job] = NewSummary(p)]
  /\ audit' = audit \cup {tx[p].rec}
  /\ tx' = [tx EXCEPT ![p] = NoTx]
  /\ UNCHANGED backend

\* The session commits.
Commit(p) ==
  /\ CommitRows(p)
  /\ index' = (index \ Archived(p)) \cup {tx[p].rec}

\* Any error or crash before the commit rolls the session back.
Abort(p) ==
  /\ Open(p)
  /\ tx' = [tx EXCEPT ![p] = NoTx]
  /\ UNCHANGED store

Step(p) ==
  \/ \E j \in Jobs, k \in Keys, r \in Records : Begin(p, j, k, r)
  \/ ReadJob(p)
  \/ SelectExisting(p)
  \/ WriteRecord(p)
  \/ WriteSummary(p)
  \/ Commit(p)
  \/ Abort(p)

Next == \E p \in Publishers : Step(p)

Spec == Init /\ [][Next]_vars

-----------------------------------------------------------------------------
(* Properties. *)

TxTypes ==
  {NoTx} \cup
  [pc : {"open", "selected", "written", "summarised"}, job : Jobs, key : Keys,
   rec : Records, read : BOOLEAN, seen : Summaries,
   existing : Records \cup {None}]

\* Every variable holds a value of its type.
TypeOK ==
  /\ backend \in {"sqlite", "postgres"}
  /\ active \subseteq [id : Records, key : Keys]
  /\ index \subseteq Records
  /\ history \subseteq [old : Records, by : Records]
  /\ summary \in [Jobs -> Summaries]
  /\ audit \subseteq Records
  /\ tx \in [Publishers -> TxTypes]

\* A natural key never has two active records, however publications of two
\* jobs, or of two runs of one unit, overlap.
OneActivePerKey == \A a, b \in active : a.key = b.key => a = b

\* Search sees exactly the active records: a replaced one leaves the index in
\* the transaction that replaces it.
IndexMatchesActive == index = {a.id : a \in active}

\* No published record vanishes and none is replaced twice: each is active or
\* archived exactly once, and records replace each other one by one.
HistoryIsLinear ==
  /\ audit = {a.id : a \in active} \cup {h.old : h \in history}
  /\ {a.id : a \in active} \cap {h.old : h \in history} = {}
  /\ \A g, h \in history : g.old = h.old \/ g.by = h.by => g = h

\* The three together: the records, the index and the history tell one story
\* at every commit of publish_records_atomically, on both backends.
RecordsAreConsistent == OneActivePerKey /\ IndexMatchesActive /\ HistoryIsLinear

\* The jobs' publish summaries name every published and every archived record.
SummariesListAll ==
  /\ UNION {summary[j].written : j \in Jobs} = audit
  /\ UNION {summary[j].archived : j \in Jobs} = {h.old : h \in history}

\* On SQLite no publication's ids are lost from the jobs' publish summaries:
\* each rewrites the lists it read, and one writer publishes at a time.
SummariesAreComplete == backend = "sqlite" => SummariesListAll
=============================================================================
