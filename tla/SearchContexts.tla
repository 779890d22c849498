--------------------------- MODULE SearchContexts ---------------------------
(***************************************************************************)
(* One search context and the requests of its owner: start, refine, batch  *)
(* refine, facets and close, beside publications that replace records,     *)
(* changes of access policies and the maintenance sweep.                   *)
(*                                                                         *)
(* A request has one session.  Its reads see what is committed when they   *)
(* run; what it writes is committed at the end, or rolled back with any    *)
(* exception, whatever was written before it.                              *)
(***************************************************************************)
EXTENDS Naturals, Sequences, FiniteSets

CONSTANTS
  Requests,      \* the request threads of the API
  Records,       \* observation records, each published at most once
  MaxRevisions,  \* search.max_revisions_per_context
  MaxBatch,      \* bound: refinements in one batch
  Ttl,           \* search.context_ttl_seconds
  Idle,          \* search.context_idle_seconds
  MaxTime        \* bound: the clock

ASSUME SearchAssumption ==
  /\ IsFiniteSet(Requests)
  /\ MaxRevisions \in Nat \ {0}
  /\ MaxBatch \in Nat \ {0}
  /\ Ttl \in Nat
  /\ Idle \in Nat
  /\ MaxTime \in Nat

VARIABLES
  ctx,       \* the SearchContext row
  revs,      \* its committed SearchRevision rows, oldest first
  active,    \* the active observation records
  archived,  \* the records that were replaced
  scope,     \* the records the owner may see by the current policies
  now,
  req        \* what each request thread is doing

vars == <<ctx, revs, active, archived, scope, now, req>>
world == <<active, archived, scope, now>>

\* The fields of a request: the scope computed for it, the records replaced
\* before it came, the revisions its client can name, the refinements left, the
\* revision it works on, the context's status as it read it, its working set,
\* the last_accessed_at and the revisions in its session, and what it returns.
NoRequest ==
  [pc |-> "idle", scope |-> {}, gone |-> {}, known |-> 0, left |-> 0,
   base |-> 0, status |-> "none", records |-> {}, last |-> 0,
   pending |-> <<>>, result |-> {}]

Init ==
  /\ ctx = [status |-> "none", scope |-> {}, default |-> 0, last |-> 0,
            expires |-> 0]
  /\ revs = <<>>
  /\ active = {}
  /\ archived = {}
  /\ scope \in SUBSET Records
  /\ now = 0
  /\ req = [r \in Requests |-> NoRequest]

At(r, place) == req[r].pc = place
Goto(r, place) == req' = [req EXCEPT ![r].pc = place]

\* A request returns; of it only what it returned and for whom is kept.
Serve(r, found) ==
  req' = [req EXCEPT ![r] =
    [NoRequest EXCEPT !.pc = "served", !.scope = req[r].scope, !.gone = req[r].gone,
                      !.result = found]]

\* A request that has written the context's row keeps every other writer of the
\* row waiting (the row's lock, on SQLite the writer's lock) until it ends.
RowFree(r) == \A q \in Requests \ {r} : req[q].pending = <<>>

-----------------------------------------------------------------------------
(* The surroundings. *)

\* A record is published; it may replace another one.
PublishRecord(new, old) ==
  /\ new \notin active \cup archived
  /\ old \subseteq active /\ Cardinality(old) <= 1
  /\ active' = (active \ old) \cup {new}
  /\ archived' = archived \cup old
  /\ UNCHANGED <<ctx, revs, scope, now, req>>

\* Policies, locations or cameras change; the scope hash tells scopes apart.
ChangeScope(s) ==
  /\ s # scope
  /\ scope' = s
  /\ UNCHANGED <<ctx, revs, active, archived, now, req>>

Tick ==
  /\ now < MaxTime
  /\ now' = now + 1
  /\ UNCHANGED <<ctx, revs, active, archived, scope, req>>

\* maintenance sweep: expire_contexts in a session of its own.
SweepContexts ==
  /\ \A q \in Requests : req[q].pending = <<>>
  /\ ctx.status = "active"
  /\ ctx.expires < now
  /\ ctx' = [ctx EXCEPT !.status = "expired"]
  /\ UNCHANGED <<revs, world, req>>

-----------------------------------------------------------------------------
\* A request arrives and its principal's scope is computed.  The ones turned
\* away before they reach the context (capability, top_k, another principal)
\* change nothing and are left out.
Arrive(r, first, n) ==
  /\ req[r].pc \in {"idle", "served", "refused"}
  /\ req' = [req EXCEPT ![r] =
       [NoRequest EXCEPT !.pc = first, !.scope = scope, !.gone = archived,
                         !.known = Len(revs), !.left = n]]
  /\ UNCHANGED <<ctx, revs, world>>

\* One request creates the context.
ArriveStart(r) ==
  /\ ctx.status = "none"
  /\ \A q \in Requests : req[q].pc \notin {"start", "create"}
  /\ Arrive(r, "start", 0)
ArriveRefine(r) ==
  /\ ctx.status # "none"
  /\ \E n \in 1..MaxBatch : Arrive(r, "refine", n)
ArriveFacets(r) == ctx.status # "none" /\ Arrive(r, "facets", 0)
ArriveClose(r) == ctx.status # "none" /\ Arrive(r, "close", 0)

\* What a ranking, its filters and top_k may leave of a set of records.
Ranked(records) == SUBSET records

\* start_search: the authorized pool is read and ranked ...
ReadPool(r) ==
  /\ At(r, "start")
  /\ \E found \in Ranked(req[r].scope \cap active) :
       req' = [req EXCEPT ![r].pc = "create", ![r].result = found]
  /\ UNCHANGED <<ctx, revs, world>>

\* ... and becomes the first revision of a new context.
CreateContext(r) ==
  /\ At(r, "create")
  /\ ctx' = [status |-> "active", scope |-> req[r].scope, default |-> 1,
             last |-> now, expires |-> now + Ttl]
  /\ revs' = <<[parent |-> 0, cands |-> req[r].result]>>
  /\ Serve(r, req[r].result)
  /\ UNCHANGED world

\* _active_context.  A session that has refined sees its own last_accessed_at.
LastAccess(r) == IF req[r].pending = <<>> THEN ctx.last ELSE req[r].last
InLifetime(r) == now <= ctx.expires /\ now <= LastAccess(r) + Idle
Usable(r) ==
  /\ ctx.scope = req[r].scope
  /\ ctx.status = "active"
  /\ InLifetime(r)

\* An exception: the closing or expiring of the context, and the revisions of
\* the batch so far, are rolled back with the session.
Refuse(r, why) ==
  req' = [req EXCEPT ![r] = [NoRequest EXCEPT !.pc = "refused", !.status = why]]

\* close_context or expire_contexts is called and rolled back.
CheckRefused(r) ==
  /\ req[r].pc \in {"refine", "facets"}
  /\ ~Usable(r)
  /\ Refuse(r, IF ctx.scope # req[r].scope THEN "scope"
               ELSE IF ctx.status # "active" THEN "ended" ELSE "expired")
  /\ UNCHANGED <<ctx, revs, world>>

\* The base revision of a refinement is any the client can name.
CheckRefine(r) ==
  /\ At(r, "refine")
  /\ Usable(r)
  /\ \E base \in 1..req[r].known :
       req' = [req EXCEPT ![r].pc = "read", ![r].base = base,
                          ![r].status = ctx.status]
  /\ UNCHANGED <<ctx, revs, world>>

CheckFacets(r) ==
  /\ At(r, "facets")
  /\ Usable(r)
  /\ req' = [req EXCEPT ![r].pc = "read_facets", ![r].base = ctx.default]
  /\ UNCHANGED <<ctx, revs, world>>

\* Any statement may fail: the base revision is not found, the database is busy.
RequestFails(r) ==
  /\ req[r].pc \notin {"idle", "served", "refused"}
  /\ Refuse(r, "error")
  /\ UNCHANGED <<ctx, revs, world>>

\* Seeded fault: refine ranks everything the principal may see.
AuthorizedActiveWidened(r) == req[r].scope \cap active

\* Seeded fault: the candidates are not fetched again.
AuthorizedActiveUnchecked(r) == revs[req[r].base].cands

\* get_authorized_active_by_ids over the candidates of the base revision.
AuthorizedActive(r) == revs[req[r].base].cands \cap req[r].scope \cap active

\* facets: counted over the default revision's records; nothing is written.
ReadFacets(r) ==
  /\ At(r, "read_facets")
  /\ Serve(r, AuthorizedActive(r))
  /\ UNCHANGED <<ctx, revs, world>>

\* refine_search reads the working set.
ReadBase(r) ==
  /\ At(r, "read")
  /\ req' = [req EXCEPT ![r].pc = "count", ![r].records = AuthorizedActive(r)]
  /\ UNCHANGED <<ctx, revs, world>>

\* count_revisions: the committed revisions and the session's own.
RevisionCount(r) == Len(revs) + Len(req[r].pending)

\* Seeded fault: the limit is tested with > instead of >=.
WithinLimitOneMore(r) == RevisionCount(r) <= MaxRevisions

\* _enforce_revision_limit.
WithinLimit(r) == RevisionCount(r) < MaxRevisions

CountRefused(r) ==
  /\ At(r, "count")
  /\ ~WithinLimit(r)
  /\ Refuse(r, "limit")
  /\ UNCHANGED <<ctx, revs, world>>

CountPassed(r) ==
  /\ At(r, "count")
  /\ WithinLimit(r)
  /\ Goto(r, "add")
  /\ UNCHANGED <<ctx, revs, world>>

\* _persist_revision and replace_default_revision, in the session; the next
\* refinement of a batch starts over from the context check.
AddRevision(r) ==
  /\ At(r, "add")
  /\ RowFree(r)
  /\ \E found \in Ranked(req[r].records) :
       req' = [req EXCEPT
         ![r].left = @ - 1,
         ![r].pc = IF req[r].left > 1 THEN "refine" ELSE "commit",
         ![r].last = now, ![r].records = {},
         ![r].pending = Append(@, [parent |-> req[r].base, cands |-> found]),
         ![r].result = @ \cup found]
  /\ UNCHANGED <<ctx, revs, world>>

\* Seeded fault: the whole context row is written back as it was read.
CommitRefineStale(r) ==
  /\ At(r, "commit")
  /\ revs' = revs \o req[r].pending
  /\ ctx' = [ctx EXCEPT !.default = Len(revs'), !.last = req[r].last,
                        !.status = req[r].status]
  /\ Serve(r, req[r].result)
  /\ UNCHANGED world

\* The session commits; of the context's row only the two columns that
\* replace_default_revision assigned are written.
CommitRefine(r) ==
  /\ At(r, "commit")
  /\ revs' = revs \o req[r].pending
  /\ ctx' = [ctx EXCEPT !.default = Len(revs'), !.last = req[r].last]
  /\ Serve(r, req[r].result)
  /\ UNCHANGED world

\* close_context.
CloseContext(r) ==
  /\ At(r, "close")
  /\ RowFree(r)
  /\ ctx' = [ctx EXCEPT !.status = "closed"]
  /\ Serve(r, req[r].result)
  /\ UNCHANGED <<revs, world>>

RequestStep(r) ==
  \/ ArriveStart(r) \/ ArriveRefine(r) \/ ArriveFacets(r) \/ ArriveClose(r)
  \/ ReadPool(r) \/ CreateContext(r)
  \/ CheckRefused(r) \/ CheckRefine(r) \/ CheckFacets(r) \/ RequestFails(r)
  \/ ReadFacets(r) \/ ReadBase(r)
  \/ CountRefused(r) \/ CountPassed(r) \/ AddRevision(r) \/ CommitRefine(r)
  \/ CloseContext(r)

Next ==
  \/ \E new \in Records, old \in SUBSET active : PublishRecord(new, old)
  \/ \E s \in SUBSET Records : ChangeScope(s)
  \/ Tick
  \/ SweepContexts
  \/ \E r \in Requests : RequestStep(r)

Spec == Init /\ [][Next]_vars

-----------------------------------------------------------------------------
(* Properties. *)

Revisions == [parent : Nat, cands : SUBSET Records]
RequestTypes ==
  [pc : {"idle", "start", "create", "refine", "facets", "close", "read",
         "read_facets", "count", "add", "commit", "served", "refused"},
   scope : SUBSET Records, gone : SUBSET Records, known : 0..Len(revs),
   left : 0..MaxBatch, base : 0..Len(revs),
   status : {"none", "active", "scope", "ended", "expired", "limit", "error"},
   records : SUBSET Records, last : 0..MaxTime, pending : Seq(Revisions),
   result : SUBSET Records]

\* Every variable holds a value of its type, and the default revision of a
\* context, like every revision a request works on, is a committed one.
TypeOK ==
  /\ ctx \in [status : {"none", "active", "closed", "expired"},
              scope : SUBSET Records, default : 0..Len(revs), last : 0..MaxTime,
              expires : Nat]
  /\ revs \in Seq(Revisions)
  /\ active \subseteq Records
  /\ archived \subseteq Records
  /\ scope \subseteq Records
  /\ now \in 0..MaxTime
  /\ req \in [Requests -> RequestTypes]

\* A request returns no record outside the scope that was computed for it and
\* none that had been replaced before it arrived, however old the revision is.
ResultsAreCurrent ==
  \A r \in Requests :
    At(r, "served") =>
      req[r].result \subseteq req[r].scope \ req[r].gone

\* Along the parents, refinement only narrows, down from the scope the context
\* is bound to.
RefineNarrows ==
  \A i \in 1..Len(revs) :
    revs[i].cands \subseteq
      IF revs[i].parent = 0 THEN ctx.scope ELSE revs[revs[i].parent].cands

\* A context that was closed or expired never becomes active again, whatever
\* request was under way.
EndedContextStaysEnded ==
  [][ctx.status \in {"closed", "expired"} =>
       ctx'.status \in {"closed", "expired"}]_vars

\* The revision limit: exact when requests come one at a time, batches
\* included; every request that counts beside another may exceed it by one
\* revision and no more.
RevisionLimitHolds == Len(revs) < MaxRevisions + Cardinality(Requests)

\* The contract's lifecycle: when a request finds the context past its
\* lifetime and says so, the context's status becomes expired.  The code does
\* not meet this: see the README.
RefusedContextIsEnded ==
  \A r \in Requests :
    At(r, "refused") /\ req[r].status = "expired" => ctx.status # "active"
=============================================================================
