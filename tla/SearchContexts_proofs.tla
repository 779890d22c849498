----------------------- MODULE SearchContexts_proofs ------------------------
(***************************************************************************)
(* What SearchContexts guarantees for any requests, records, limits and    *)
(* lifetimes, and Ranking for any searches, weights and attempts.          *)
(***************************************************************************)
EXTENDS SearchContexts, Ranking, FiniteSetTheorems, SequenceTheorems, TLAPS

Starting(r) == req[r].pc \in {"start", "create"}
Inside(r) ==
  req[r].pc \in {"refine", "facets", "close", "read", "read_facets", "count",
                 "add", "commit"}

\* What is true of a request wherever it is.  The one that starts the search
\* comes before the context, the others after it; a refinement under way is one
\* that is left of its batch; and what a request has read, or is about to
\* return, is in its scope and was not replaced before it came.
RequestOK(r) ==
  /\ Starting(r) => ctx.status = "none"
  /\ Inside(r) => ctx.status # "none"
  /\ req[r].pc \in {"refine", "read", "count", "add"} => req[r].left >= 1
  /\ req[r].gone \subseteq archived
  /\ req[r].records \subseteq req[r].scope \ req[r].gone
  /\ req[r].result \subseteq req[r].scope \ req[r].gone

\* One request starts the search, and there is no revision before it commits;
\* a replaced record does not come back.
SharedOK ==
  /\ \A q, r \in Requests : Starting(q) /\ Starting(r) => q = r
  /\ ctx.status = "none" => revs = <<>>
  /\ active \cap archived = {}

SearchInv == TypeOK /\ SharedOK /\ \A r \in Requests : RequestOK(r)

\* The kinds of steps.
LEMMA StepCases ==
  ASSUME [Next]_vars
  PROVE  \/ \E new \in Records, old \in SUBSET active : PublishRecord(new, old)
         \/ \E s \in SUBSET Records : ChangeScope(s)
         \/ Tick
         \/ SweepContexts
         \/ \E r \in Requests : RequestStep(r)
         \/ UNCHANGED vars
BY DEF Next

\* One request moves on to a value of the type, and the number of revisions
\* does not shrink: the requests keep their type.
LEMMA RequestMoves ==
  ASSUME TypeOK, NEW r \in Requests, NEW v,
         req' = [req EXCEPT ![r] = v],
         v \in RequestTypes',
         revs' \in Seq(Revisions),
         Len(revs) <= Len(revs')
  PROVE  req' \in [Requests -> RequestTypes']
<1>1. Len(revs) \in Nat /\ Len(revs') \in Nat
  BY DEF TypeOK
<1>2. \A i \in 0..Len(revs) : i \in 0..Len(revs')
  BY <1>1
<1>3. ASSUME NEW q \in RequestTypes PROVE q \in RequestTypes'
  BY <1>2, <1>3 DEF RequestTypes
<1> QED BY <1>3 DEF TypeOK

\* The fields of a request.
LEMMA RequestFields ==
  ASSUME TypeOK, NEW r \in Requests
  PROVE  /\ req[r] \in RequestTypes
         /\ req[r].pending \in Seq(Revisions)
         /\ req[r].known \in 0..Len(revs)
         /\ req[r].base \in 0..Len(revs)
         /\ Len(revs) \in Nat
BY DEF TypeOK, RequestTypes

\* Initially nothing exists and nobody is there.
LEMMA SearchInit == Init => SearchInv
BY SearchAssumption
DEF Init, SearchInv, SharedOK, RequestOK, TypeOK, RequestTypes, NoRequest, Starting, Inside

\* The fields of a request that has not begun.
LEMMA NoRequestFields ==
  ASSUME TypeOK
  PROVE  /\ NoRequest \in RequestTypes
         /\ NoRequest.records = {} /\ NoRequest.result = {}
         /\ NoRequest.scope = {} /\ NoRequest.gone = {}
<1>1. <<>> \in Seq(Revisions) /\ 0 \in 0..MaxTime /\ 0 \in 0..Len(revs)
      /\ 0 \in 0..MaxBatch
  BY SearchAssumption DEF TypeOK
<1> QED BY <1>1 DEF NoRequest, RequestTypes

\* A step of a request that stays within its session.
Local(r) ==
  \/ ArriveStart(r) \/ ArriveRefine(r) \/ ArriveFacets(r) \/ ArriveClose(r)
  \/ ReadPool(r)
  \/ CheckRefused(r) \/ CheckRefine(r) \/ CheckFacets(r) \/ RequestFails(r)
  \/ ReadFacets(r) \/ ReadBase(r)
  \/ CountRefused(r) \/ CountPassed(r) \/ AddRevision(r)

\* Such a step changes one request, within the type.
LEMMA LocalType ==
  ASSUME TypeOK, NEW r \in Requests, RequestOK(r), Local(r)
  PROVE  /\ TypeOK'
         /\ UNCHANGED <<ctx, revs, world>>
         /\ \A q \in Requests \ {r} : req'[q] = req[q]
<1> USE SearchAssumption
<1>0. UNCHANGED <<ctx, revs, world>>
  BY DEF Local, ArriveStart, ArriveRefine, ArriveFacets, ArriveClose, Arrive,
         ReadPool, CheckRefused, CheckRefine, CheckFacets, RequestFails,
         ReadFacets, ReadBase, CountRefused, CountPassed, AddRevision
<1>1. ASSUME NEW v, v \in RequestTypes, req' = [req EXCEPT ![r] = v]
      PROVE  TypeOK' /\ \A q \in Requests \ {r} : req'[q] = req[q]
  <2>1. req' \in [Requests -> RequestTypes]
    BY <1>1 DEF TypeOK
  <2> QED BY <1>0, <1>1, <2>1 DEF TypeOK, RequestTypes, world
<1>2. /\ req \in [Requests -> RequestTypes]
      /\ req[r] \in RequestTypes
      /\ Len(revs) \in Nat
      /\ ctx.default \in 0..Len(revs) /\ ctx.status \in {"none", "active", "closed", "expired"}
      /\ scope \in SUBSET Records /\ archived \in SUBSET Records
      /\ active \in SUBSET Records /\ now \in 0..MaxTime
  BY DEF TypeOK
<1>2a. <<>> \in Seq(Revisions) /\ 0 \in 0..MaxTime /\ 0 \in 0..Len(revs)
       /\ 0 \in 0..MaxBatch /\ Len(revs) \in 0..Len(revs)
  BY <1>2
<1>2b. NoRequest \in RequestTypes
  BY NoRequestFields
<1>3. ASSUME NEW first \in {"start", "refine", "facets", "close"},
             NEW n \in 0..MaxBatch, Arrive(r, first, n)
      PROVE  TypeOK' /\ \A q \in Requests \ {r} : req'[q] = req[q]
  <2> DEFINE v == [NoRequest EXCEPT !.pc = first, !.scope = scope,
                     !.gone = archived, !.known = Len(revs), !.left = n]
  <2>1. v \in RequestTypes
    BY <1>2, <1>2a, <1>2b DEF RequestTypes
  <2> QED BY <1>1, <1>3, <2>1 DEF Arrive
<1>4. CASE ArriveStart(r) \/ ArriveRefine(r) \/ ArriveFacets(r) \/ ArriveClose(r)
  BY <1>3, <1>4, <1>0 DEF ArriveStart, ArriveRefine, ArriveFacets, ArriveClose
<1>5. ASSUME NEW why \in {"scope", "ended", "expired", "limit", "error"},
             Refuse(r, why)
      PROVE  TypeOK' /\ \A q \in Requests \ {r} : req'[q] = req[q]
  <2> DEFINE v == [NoRequest EXCEPT !.pc = "refused", !.status = why]
  <2>1. v \in RequestTypes
    BY <1>2b DEF RequestTypes
  <2> QED BY <1>1, <1>5, <2>1 DEF Refuse
<1>6. CASE CheckRefused(r) \/ RequestFails(r) \/ CountRefused(r)
  BY <1>5, <1>6, <1>0 DEF CheckRefused, RequestFails, CountRefused
<1>7. CASE ReadPool(r)
  <2>1. PICK found \in Ranked(req[r].scope \cap active) :
          req' = [req EXCEPT ![r].pc = "create", ![r].result = found]
    BY <1>7 DEF ReadPool
  <2>2. [req[r] EXCEPT !.pc = "create", !.result = found] \in RequestTypes
    BY <1>2 DEF RequestTypes, Ranked
  <2> QED BY <1>0, <1>1, <1>2, <2>1, <2>2
<1>8. CASE CheckRefine(r)
  <2>1. PICK base \in 1..req[r].known :
          req' = [req EXCEPT ![r].pc = "read", ![r].base = base,
                             ![r].status = ctx.status]
    BY <1>8 DEF CheckRefine
  <2>2. ctx.status = "active"
    BY <1>8 DEF CheckRefine, Usable
  <2>2a. base \in 0..Len(revs)
    BY <1>2 DEF RequestTypes
  <2>3. [req[r] EXCEPT !.pc = "read", !.base = base, !.status = ctx.status]
          \in RequestTypes
    BY <1>2, <2>2, <2>2a DEF RequestTypes
  <2> QED BY <1>0, <1>1, <1>2, <2>1, <2>3
<1>9. CASE CheckFacets(r)
  <2>1. [req[r] EXCEPT !.pc = "read_facets", !.base = ctx.default]
          \in RequestTypes
    BY <1>2 DEF RequestTypes
  <2> QED BY <1>0, <1>1, <1>2, <1>9, <2>1 DEF CheckFacets
<1>10. CASE ReadFacets(r)
  <2> DEFINE v == [NoRequest EXCEPT !.pc = "served", !.scope = req[r].scope,
                     !.gone = req[r].gone, !.result = AuthorizedActive(r)]
  <2>1. v \in RequestTypes
    BY <1>2, <1>2a, <1>2b DEF RequestTypes, AuthorizedActive
  <2> QED BY <1>0, <1>1, <1>10, <2>1 DEF ReadFacets, Serve
<1>11. CASE ReadBase(r)
  <2>1. [req[r] EXCEPT !.pc = "count", !.records = AuthorizedActive(r)]
          \in RequestTypes
    BY <1>2 DEF RequestTypes, AuthorizedActive
  <2> QED BY <1>0, <1>1, <1>2, <1>11, <2>1 DEF ReadBase
<1>12. CASE CountPassed(r)
  <2>1. [req[r] EXCEPT !.pc = "add"] \in RequestTypes
    BY <1>2 DEF RequestTypes
  <2> QED BY <1>0, <1>1, <1>2, <1>12, <2>1 DEF CountPassed, Goto
<1>13. CASE AddRevision(r)
  <2>1. PICK found \in Ranked(req[r].records) :
          req' = [req EXCEPT
            ![r].left = @ - 1,
            ![r].pc = IF req[r].left > 1 THEN "refine" ELSE "commit",
            ![r].last = now, ![r].records = {},
            ![r].pending = Append(@, [parent |-> req[r].base, cands |-> found]),
            ![r].result = @ \cup found]
    BY <1>13 DEF AddRevision
  <2> DEFINE row == [parent |-> req[r].base, cands |-> found]
  <2> DEFINE v == [req[r] EXCEPT
            !.left = @ - 1,
            !.pc = IF req[r].left > 1 THEN "refine" ELSE "commit",
            !.last = now, !.records = {},
            !.pending = Append(@, row),
            !.result = @ \cup found]
  <2>2. req[r].left \in 1..MaxBatch
    BY <1>2, <1>13 DEF AddRevision, At, RequestOK, RequestTypes
  <2>3. row \in Revisions
    BY <1>2 DEF RequestTypes, Revisions, Ranked
  <2>4. Append(req[r].pending, row) \in Seq(Revisions)
    BY <1>2, <2>3, AppendProperties DEF RequestTypes
  <2>5. v \in RequestTypes
    <3>1. /\ req[r].left - 1 \in 0..MaxBatch
          /\ req[r].result \cup found \in SUBSET Records
      BY <1>2, <2>2 DEF RequestTypes, Ranked
    <3> HIDE DEF row
    <3> QED BY <1>2, <2>4, <3>1 DEF RequestTypes
  <2>6. req' = [req EXCEPT ![r] = v]
    BY <1>2, <2>1
  <2> HIDE DEF v
  <2> QED BY <1>0, <1>1, <2>5, <2>6
<1> QED BY <1>4, <1>6, <1>7, <1>8, <1>9, <1>10, <1>11, <1>12, <1>13, <1>0
        DEF Local

\* If one request changes and the rows do not, the invariant is that of the
\* request, and that it does not start a second search.
LEMMA OneRequest ==
  ASSUME SearchInv, NEW r \in Requests, TypeOK',
         UNCHANGED <<ctx, revs, world>>,
         \A q \in Requests \ {r} : req'[q] = req[q],
         RequestOK(r)',
         Starting(r)' => \A q \in Requests \ {r} : ~Starting(q)
  PROVE  SearchInv'
<1>1. ASSUME NEW q \in Requests PROVE RequestOK(q)'
  <2>1. CASE q = r BY <2>1
  <2>2. CASE q # r
    BY <2>2 DEF SearchInv, RequestOK, Starting, Inside, world
  <2> QED BY <2>1, <2>2
<1>2. SharedOK'
  BY DEF SearchInv, SharedOK, Starting, world
<1> QED BY <1>1, <1>2 DEF SearchInv

\* The steps within a session keep the invariant.
LEMMA LocalStep ==
  ASSUME SearchInv, NEW r \in Requests, Local(r)
  PROVE  SearchInv'
<1> USE DEF At
<1>1. /\ TypeOK /\ TypeOK' /\ RequestOK(r)
      /\ UNCHANGED <<ctx, revs, world>>
      /\ \A q \in Requests \ {r} : req'[q] = req[q]
  BY LocalType DEF SearchInv
<1>2. /\ req \in [Requests -> RequestTypes] /\ req[r] \in RequestTypes
      /\ scope \in SUBSET Records /\ archived \in SUBSET Records
      /\ active \cap archived = {}
      /\ archived' = archived /\ ctx' = ctx
  BY <1>1 DEF SearchInv, SharedOK, TypeOK, world
<1> SUFFICES RequestOK(r)'
             /\ (Starting(r)' => \A q \in Requests \ {r} : ~Starting(q))
  BY <1>1, OneRequest
<1> USE DEF RequestOK, Starting, Inside
<1>3. ASSUME NEW first, NEW n, Arrive(r, first, n)
      PROVE  /\ req'[r].pc = first /\ req'[r].left = n
             /\ req'[r].gone = archived
             /\ req'[r].records = {} /\ req'[r].result = {}
  <2>1. req' = [req EXCEPT ![r] = [NoRequest EXCEPT !.pc = first,
                  !.scope = scope, !.gone = archived, !.known = Len(revs),
                  !.left = n]]
    BY <1>3 DEF Arrive
  <2> QED BY <1>1, <1>2, <2>1, NoRequestFields DEF RequestTypes
<1>4. CASE ArriveStart(r)
  BY <1>2, <1>3, <1>4 DEF ArriveStart
<1>5. CASE ArriveRefine(r)
  BY <1>2, <1>3, <1>5 DEF ArriveRefine
<1>6. CASE ArriveFacets(r) \/ ArriveClose(r)
  BY <1>2, <1>3, <1>6 DEF ArriveFacets, ArriveClose
<1>7. ASSUME NEW why, Refuse(r, why)
      PROVE  /\ req'[r].pc = "refused"
             /\ req'[r].gone = {}
             /\ req'[r].records = {} /\ req'[r].result = {}
  <2>1. req' = [req EXCEPT ![r] = [NoRequest EXCEPT !.pc = "refused",
                                                    !.status = why]]
    BY <1>7 DEF Refuse
  <2> QED BY <1>1, <1>2, <2>1, NoRequestFields DEF RequestTypes
<1>8. CASE CheckRefused(r) \/ RequestFails(r) \/ CountRefused(r)
  BY <1>2, <1>7, <1>8 DEF CheckRefused, RequestFails, CountRefused
<1>9. CASE ReadPool(r)
  <2>1. PICK found \in SUBSET (req[r].scope \cap active) :
          req' = [req EXCEPT ![r].pc = "create", ![r].result = found]
    BY <1>9 DEF ReadPool, Ranked
  <2>2. /\ req[r].pc = "start"
        /\ req'[r].pc = "create" /\ req'[r].scope = req[r].scope
        /\ req'[r].gone = req[r].gone
        /\ req'[r].records = req[r].records /\ req'[r].result = found
    BY <1>2, <1>9, <2>1 DEF ReadPool, RequestTypes
  <2>3. \A q \in Requests \ {r} : ~Starting(q)
    BY <2>2 DEF SearchInv, SharedOK
  <2> QED BY <1>1, <1>2, <2>2, <2>3
<1>10. CASE CheckRefine(r)
  BY <1>1, <1>2, <1>10 DEF CheckRefine, RequestTypes
<1>11. CASE CheckFacets(r)
  BY <1>1, <1>2, <1>11 DEF CheckFacets, RequestTypes
<1>12. CASE ReadFacets(r)
  <2>1. req' = [req EXCEPT ![r] = [NoRequest EXCEPT !.pc = "served",
                  !.scope = req[r].scope, !.gone = req[r].gone,
                  !.result = AuthorizedActive(r)]]
    BY <1>12 DEF ReadFacets, Serve
  <2>2. /\ req'[r].pc = "served" /\ req'[r].scope = req[r].scope
        /\ req'[r].gone = req[r].gone
        /\ req'[r].records = {} /\ req'[r].result = AuthorizedActive(r)
    BY <1>1, <1>2, <2>1, NoRequestFields DEF RequestTypes
  <2> QED BY <1>1, <1>2, <2>2 DEF AuthorizedActive
<1>13. CASE ReadBase(r)
  BY <1>1, <1>2, <1>13 DEF ReadBase, AuthorizedActive, RequestTypes
<1>14. CASE CountPassed(r)
  BY <1>1, <1>2, <1>14 DEF CountPassed, Goto, RequestTypes
<1>15. CASE AddRevision(r)
  <2>1. PICK found \in SUBSET req[r].records :
          req' = [req EXCEPT
            ![r].left = @ - 1,
            ![r].pc = IF req[r].left > 1 THEN "refine" ELSE "commit",
            ![r].last = now, ![r].records = {},
            ![r].pending = Append(@, [parent |-> req[r].base, cands |-> found]),
            ![r].result = @ \cup found]
    BY <1>15 DEF AddRevision, Ranked
  <2>2. /\ req[r].pc = "add"
        /\ req'[r].pc = IF req[r].left > 1 THEN "refine" ELSE "commit"
        /\ req'[r].left = req[r].left - 1
        /\ req'[r].scope = req[r].scope /\ req'[r].gone = req[r].gone
        /\ req'[r].records = {} /\ req'[r].result = req[r].result \cup found
    BY <1>2, <1>15, <2>1 DEF AddRevision, RequestTypes
  <2>3. req[r].left \in Nat
    BY <1>2, SearchAssumption DEF RequestTypes
  <2> QED BY <1>1, <1>2, <2>2, <2>3
<1> QED BY <1>4, <1>5, <1>6, <1>8, <1>9, <1>10, <1>11, <1>12, <1>13, <1>14,
           <1>15 DEF Local

\* A request that is served keeps, of what it was, its scope and what had been
\* replaced before it came.
LEMMA ServedFields ==
  ASSUME TypeOK, NEW r \in Requests, NEW found \in SUBSET Records,
         Serve(r, found),
         revs' \in Seq(Revisions), Len(revs) <= Len(revs')
  PROVE  /\ req' \in [Requests -> RequestTypes']
         /\ req'[r].pc = "served"
         /\ req'[r].scope = req[r].scope /\ req'[r].gone = req[r].gone
         /\ req'[r].records = {} /\ req'[r].result = found
         /\ \A q \in Requests \ {r} : req'[q] = req[q]
<1> DEFINE v == [NoRequest EXCEPT !.pc = "served", !.scope = req[r].scope,
                   !.gone = req[r].gone, !.result = found]
<1>1. req' = [req EXCEPT ![r] = v]
  BY DEF Serve
<1>2. Len(revs) \in Nat /\ Len(revs') \in Nat /\ req[r] \in RequestTypes
  BY DEF TypeOK
<1>3. \A i \in 0..Len(revs) : i \in 0..Len(revs')
  BY <1>2
<1>4. v \in RequestTypes
  BY <1>2, NoRequestFields DEF RequestTypes
<1>5. v \in RequestTypes'
  <2> HIDE DEF v
  <2> QED BY <1>3, <1>4 DEF RequestTypes
<1>6. req' \in [Requests -> RequestTypes']
  <2> HIDE DEF v
  <2> QED BY <1>1, <1>5, RequestMoves
<1>7. /\ v.pc = "served" /\ v.scope = req[r].scope /\ v.gone = req[r].gone
      /\ v.records = {} /\ v.result = found
  BY NoRequestFields DEF RequestTypes
<1> HIDE DEF v
<1> QED BY <1>1, <1>6, <1>7 DEF TypeOK

\* The first revision and its context are stored: only one request was starting.
LEMMA CreateStep ==
  ASSUME SearchInv, NEW r \in Requests, CreateContext(r)
  PROVE  SearchInv'
<1>1. /\ TypeOK /\ RequestOK(r) /\ Starting(r) /\ ctx.status = "none"
      /\ revs = <<>> /\ req[r] \in RequestTypes /\ now \in 0..MaxTime
      /\ \A q \in Requests \ {r} : ~Starting(q)
  BY DEF CreateContext, At, SearchInv, SharedOK, RequestOK, Starting, TypeOK
<1>2. req[r].result \in SUBSET Records /\ req[r].scope \in SUBSET Records
  BY <1>1 DEF RequestTypes
<1>3. revs' \in Seq(Revisions) /\ Len(revs) = 0 /\ Len(revs') = 1
  BY <1>1, <1>2 DEF CreateContext, Revisions
<1>4. Serve(r, req[r].result) /\ UNCHANGED world
  BY DEF CreateContext
<1>5. /\ req' \in [Requests -> RequestTypes']
      /\ req'[r].pc = "served"
      /\ req'[r].scope = req[r].scope /\ req'[r].gone = req[r].gone
      /\ req'[r].records = {} /\ req'[r].result = req[r].result
      /\ \A q \in Requests \ {r} : req'[q] = req[q]
  BY <1>1, <1>2, <1>3, <1>4, ServedFields
<1>6. /\ ctx' \in [status : {"none", "active", "closed", "expired"},
                   scope : SUBSET Records, default : 0..Len(revs'),
                   last : 0..MaxTime, expires : Nat]
      /\ ctx'.status = "active"
  BY <1>1, <1>2, <1>3, SearchAssumption DEF CreateContext
<1>7. TypeOK'
  BY <1>1, <1>3, <1>4, <1>5, <1>6 DEF TypeOK, world
<1>8. SharedOK'
  BY <1>1, <1>4, <1>5, <1>6 DEF SearchInv, SharedOK, Starting, world
<1>9. ASSUME NEW q \in Requests PROVE RequestOK(q)'
  BY <1>1, <1>4, <1>5, <1>6 DEF SearchInv, RequestOK, Starting, Inside, world
<1> QED BY <1>7, <1>8, <1>9 DEF SearchInv

\* A refinement is committed, or the context closed: the context existed.
LEMMA EndOfSession ==
  ASSUME SearchInv, NEW r \in Requests, CommitRefine(r) \/ CloseContext(r)
  PROVE  SearchInv'
<1>1. /\ TypeOK /\ RequestOK(r) /\ Inside(r) /\ ctx.status # "none"
      /\ req[r] \in RequestTypes /\ revs \in Seq(Revisions)
      /\ ctx \in [status : {"none", "active", "closed", "expired"},
                  scope : SUBSET Records, default : 0..Len(revs),
                  last : 0..MaxTime, expires : Nat]
  BY DEF CommitRefine, CloseContext, At, SearchInv, RequestOK, Inside, TypeOK
<1>2. /\ req[r].result \in SUBSET Records /\ req[r].last \in 0..MaxTime
      /\ req[r].pending \in Seq(Revisions) /\ Len(revs) \in Nat
  BY <1>1 DEF RequestTypes
<1>3. revs' \in Seq(Revisions) /\ Len(revs) <= Len(revs') /\ Len(revs') \in Nat
  <2>1. CASE CommitRefine(r)
    <3>1. revs' = revs \o req[r].pending
      BY <2>1 DEF CommitRefine
    <3>2. /\ revs' \in Seq(Revisions)
          /\ Len(revs') = Len(revs) + Len(req[r].pending)
      BY <1>1, <1>2, <3>1, ConcatProperties
    <3>3. Len(req[r].pending) \in Nat
      BY <1>2
    <3> QED BY <1>2, <3>2, <3>3
  <2>2. CASE CloseContext(r)
    <3>1. revs' = revs
      BY <2>2 DEF CloseContext
    <3> QED BY <1>1, <1>2, <3>1
  <2> QED BY <2>1, <2>2
<1>4. Serve(r, req[r].result) /\ UNCHANGED world
  BY DEF CommitRefine, CloseContext
<1>5. /\ req' \in [Requests -> RequestTypes']
      /\ req'[r].pc = "served"
      /\ req'[r].scope = req[r].scope /\ req'[r].gone = req[r].gone
      /\ req'[r].records = {} /\ req'[r].result = req[r].result
      /\ \A q \in Requests \ {r} : req'[q] = req[q]
  BY <1>1, <1>2, <1>3, <1>4, ServedFields
<1>6. /\ ctx' \in [status : {"none", "active", "closed", "expired"},
                   scope : SUBSET Records, default : 0..Len(revs'),
                   last : 0..MaxTime, expires : Nat]
      /\ ctx'.status # "none"
  <2>1. CASE CommitRefine(r)
    <3>1. ctx' = [ctx EXCEPT !.default = Len(revs'), !.last = req[r].last]
      BY <2>1 DEF CommitRefine
    <3>2. Len(revs') \in 0..Len(revs')
      BY <1>3
    <3>3. ASSUME NEW n \in 0..Len(revs'), NEW t \in 0..MaxTime,
                 ctx' = [ctx EXCEPT !.default = n, !.last = t]
          PROVE  /\ ctx' \in [status : {"none", "active", "closed", "expired"},
                              scope : SUBSET Records, default : 0..Len(revs'),
                              last : 0..MaxTime, expires : Nat]
                 /\ ctx'.status # "none"
      BY <1>1, <3>3
    <3> QED BY <1>2, <3>1, <3>2, <3>3
  <2>2. CASE CloseContext(r)
    <3>1. ctx' = [ctx EXCEPT !.status = "closed"] /\ revs' = revs
      BY <2>2 DEF CloseContext
    <3> QED BY <1>1, <3>1
  <2> QED BY <2>1, <2>2
<1>7. TypeOK'
  BY <1>1, <1>3, <1>4, <1>5, <1>6 DEF TypeOK, world
<1>8. SharedOK'
  BY <1>4, <1>5, <1>6 DEF SearchInv, SharedOK, Starting, world
<1>9. ASSUME NEW q \in Requests PROVE RequestOK(q)'
  BY <1>1, <1>4, <1>5, <1>6 DEF SearchInv, RequestOK, Starting, Inside, world
<1> QED BY <1>7, <1>8, <1>9 DEF SearchInv

\* The surroundings: publications only add to the replaced records, and the
\* sweep ends a context that existed.
LEMMA SurroundingsStep ==
  ASSUME SearchInv,
         \/ \E new \in Records, old \in SUBSET active : PublishRecord(new, old)
         \/ \E s \in SUBSET Records : ChangeScope(s)
         \/ Tick
         \/ SweepContexts
  PROVE  SearchInv'
<1>1. TypeOK /\ SharedOK /\ \A r \in Requests : RequestOK(r)
  BY DEF SearchInv
<1>2. ASSUME NEW new \in Records, NEW old \in SUBSET active,
             PublishRecord(new, old)
      PROVE  SearchInv'
  BY <1>1, <1>2
  DEF PublishRecord, SearchInv, SharedOK, RequestOK, Starting, Inside, TypeOK,
      RequestTypes
<1>3. ASSUME NEW s \in SUBSET Records, ChangeScope(s)
      PROVE  SearchInv'
  BY <1>1, <1>3
  DEF ChangeScope, SearchInv, SharedOK, RequestOK, Starting, Inside, TypeOK,
      RequestTypes
<1>4. CASE Tick
  <2>1. now' \in 0..MaxTime /\ UNCHANGED <<ctx, revs, active, archived, scope, req>>
    BY <1>1, <1>4, SearchAssumption DEF Tick, TypeOK
  <2> QED BY <1>1, <2>1
      DEF SearchInv, SharedOK, RequestOK, Starting, Inside, TypeOK, RequestTypes
<1>5. CASE SweepContexts
  <2>1. /\ ctx' = [ctx EXCEPT !.status = "expired"] /\ ctx.status = "active"
        /\ UNCHANGED <<revs, world, req>>
    BY <1>5 DEF SweepContexts
  <2>2. /\ ctx' \in [status : {"none", "active", "closed", "expired"},
                     scope : SUBSET Records, default : 0..Len(revs),
                     last : 0..MaxTime, expires : Nat]
        /\ ctx'.status = "expired"
    BY <1>1, <2>1 DEF TypeOK
  <2> QED BY <1>1, <2>1, <2>2
      DEF SearchInv, SharedOK, RequestOK, Starting, Inside, TypeOK,
          RequestTypes, world
<1> QED BY <1>2, <1>3, <1>4, <1>5

\* The invariant, over every interleaving.
LEMMA SearchInvHolds == Spec => []SearchInv
<1>1. Init => SearchInv
  BY SearchInit
<1>2. ASSUME SearchInv, [Next]_vars PROVE SearchInv'
  <2>1. CASE UNCHANGED vars
    BY <1>2, <2>1
    DEF vars, SearchInv, SharedOK, RequestOK, Starting, Inside, TypeOK,
        RequestTypes
  <2>2. ASSUME NEW r \in Requests, RequestStep(r) PROVE SearchInv'
    <3>1. Local(r) \/ CreateContext(r) \/ CommitRefine(r) \/ CloseContext(r)
      BY <2>2 DEF RequestStep, Local
    <3> QED BY <1>2, <3>1, LocalStep, CreateStep, EndOfSession
  <2> QED BY <1>2, <2>1, <2>2, StepCases, SurroundingsStep
<1> QED BY <1>1, <1>2, PTL DEF Spec

\* Type correctness, with its conjunct that the default revision of a context
\* and every revision a request works on are committed ones.
THEOREM SearchTypeCorrect == Spec => []TypeOK
<1>1. SearchInv => TypeOK
  BY DEF SearchInv
<1> QED BY <1>1, SearchInvHolds, PTL

\* What start, refine, batch refine and facets return is in the scope computed
\* for the request and was not replaced before the request came, for any
\* requests, publications, policy changes and sweeps between their steps.
THEOREM ReturnedRecordsAreCurrent == Spec => []ResultsAreCurrent
<1>1. SearchInv => ResultsAreCurrent
  BY DEF SearchInv, RequestOK, ResultsAreCurrent
<1> QED BY <1>1, SearchInvHolds, PTL

\* No request that was under way when a context was closed or swept writes it
\* back to active.
THEOREM EndedStaysEnded == Spec => EndedContextStaysEnded
<1>1. ASSUME SearchInv, [Next]_vars
      PROVE  [ctx.status \in {"closed", "expired"} =>
                ctx'.status \in {"closed", "expired"}]_vars
  <2>1. TypeOK /\ SharedOK /\ \A r \in Requests : RequestOK(r)
    BY <1>1 DEF SearchInv
  <2> DEFINE Ended == ctx.status \in {"closed", "expired"}
  <2> SUFFICES ASSUME Ended PROVE Ended'
    OBVIOUS
  <2>2. ASSUME NEW r \in Requests, RequestStep(r) PROVE Ended'
    <3>1. CASE Local(r)
      BY <2>1, <3>1, LocalType
    <3>2. CASE CreateContext(r)
      BY <2>1, <3>2 DEF CreateContext, At, RequestOK, Starting
    <3>3. CASE CommitRefine(r)
      BY <2>1, <3>3 DEF CommitRefine, TypeOK
    <3>4. CASE CloseContext(r)
      BY <2>1, <3>4 DEF CloseContext, TypeOK
    <3> QED BY <2>2, <3>1, <3>2, <3>3, <3>4 DEF RequestStep, Local
  <2>3. CASE \/ \E new \in Records, old \in SUBSET active : PublishRecord(new, old)
             \/ \E s \in SUBSET Records : ChangeScope(s)
             \/ Tick \/ UNCHANGED vars
    BY <2>3 DEF PublishRecord, ChangeScope, Tick, vars
  <2>4. CASE SweepContexts
    BY <2>4 DEF SweepContexts
  <2> QED BY <1>1, <2>2, <2>3, <2>4, StepCases
<1> QED BY <1>1, SearchInvHolds, PTL DEF Spec, EndedContextStaysEnded
-----------------------------------------------------------------------------
(* Refinement narrows, and the revision limit. *)

Refining(r) == req[r].pc \in {"refine", "read", "count", "add", "commit"}

\* A revision whose parent is one of the rows and whose candidates are of it.
Narrowed(rows, row) ==
  /\ row.parent \in 1..Len(rows)
  /\ row.cands \subseteq rows[row.parent].cands

\* The revisions of a session and the working set of a refinement come from
\* committed revisions: a batch cannot name a revision of its own session.
NarrowInv ==
  /\ \A i \in 1..Len(revs) :
       \/ revs[i].parent = 0 /\ revs[i].cands \subseteq ctx.scope
       \/ Narrowed(revs, revs[i])
  /\ \A r \in Requests :
       /\ \A i \in 1..Len(req[r].pending) : Narrowed(revs, req[r].pending[i])
       /\ req[r].pending # <<>> => Refining(r)
       /\ req[r].pc \in {"read", "count", "add"} => req[r].base \in 1..Len(revs)
       /\ req[r].pc \in {"count", "add"} =>
            req[r].records \subseteq revs[req[r].base].cands

\* The requests that have passed the limit and wait to write the row.
Waiting == {r \in Requests : At(r, "add") /\ req[r].pending = <<>>}

\* The most revisions there may ever be.
Most == MaxRevisions - 1 + Cardinality(Requests)

\* A request's own revisions count when it counts again, and no other request
\* commits while it holds the row: only its first revision can exceed the limit,
\* once for every request that had passed the limit before.
LimitOK(r) ==
  /\ Len(revs) + Len(req[r].pending) + Cardinality(Waiting) <= Most
  /\ Len(req[r].pending) > 1 =>
       Len(revs) + Len(req[r].pending) <= MaxRevisions
  /\ At(r, "add") /\ req[r].pending # <<>> =>
       Len(revs) + Len(req[r].pending) < MaxRevisions
  /\ At(r, "commit") => req[r].pending # <<>>
LimitInv ==
  /\ \A q, r \in Requests :
       req[q].pending # <<>> /\ req[r].pending # <<>> => q = r
  /\ \A r \in Requests : LimitOK(r)
  /\ Requests = {} => revs = <<>>

\* What a step within a session does to the request's place, its base, its
\* working set and the revisions in its session.
LEMMA LocalEffect ==
  ASSUME TypeOK, NEW r \in Requests, RequestOK(r), Local(r)
  PROVE  \/ /\ req'[r].pending = <<>>
            /\ req'[r].pc \notin {"read", "count", "add", "commit"}
         \/ /\ req[r].pc \in {"start", "facets"}
            /\ req'[r].pc \in {"create", "read_facets"}
            /\ req'[r].pending = req[r].pending
         \/ /\ At(r, "refine") /\ At(r, "read")'
            /\ req'[r].base \in 1..Len(revs)
            /\ req'[r].pending = req[r].pending
         \/ /\ At(r, "read") /\ At(r, "count")'
            /\ req'[r].base = req[r].base
            /\ req'[r].records \subseteq revs[req[r].base].cands
            /\ req'[r].pending = req[r].pending
         \/ /\ At(r, "count") /\ At(r, "add")'
            /\ WithinLimit(r)
            /\ req'[r].base = req[r].base
            /\ req'[r].records = req[r].records
            /\ req'[r].pending = req[r].pending
         \/ /\ At(r, "add") /\ req'[r].pc \in {"refine", "commit"}
            /\ RowFree(r)
            /\ \E found \in SUBSET req[r].records :
                 req'[r].pending =
                   Append(req[r].pending, [parent |-> req[r].base, cands |-> found])
<1> USE DEF At
<1>1. /\ req \in [Requests -> RequestTypes] /\ req[r] \in RequestTypes
      /\ Len(revs) \in Nat
  BY DEF TypeOK
<1>2. NoRequest \in RequestTypes /\ NoRequest.pending = <<>>
  BY NoRequestFields DEF NoRequest
<1>3. ASSUME NEW first, NEW n, Arrive(r, first, n)
      PROVE  req'[r].pc = first /\ req'[r].pending = <<>>
  <2>1. req' = [req EXCEPT ![r] = [NoRequest EXCEPT !.pc = first,
                  !.scope = scope, !.gone = archived, !.known = Len(revs),
                  !.left = n]]
    BY <1>3 DEF Arrive
  <2> QED BY <1>1, <1>2, <2>1 DEF RequestTypes
<1>4. CASE ArriveStart(r) \/ ArriveRefine(r) \/ ArriveFacets(r) \/ ArriveClose(r)
  BY <1>3, <1>4 DEF ArriveStart, ArriveRefine, ArriveFacets, ArriveClose
<1>5. ASSUME NEW why, Refuse(r, why)
      PROVE  req'[r].pc = "refused" /\ req'[r].pending = <<>>
  <2>1. req' = [req EXCEPT ![r] = [NoRequest EXCEPT !.pc = "refused",
                                                    !.status = why]]
    BY <1>5 DEF Refuse
  <2> QED BY <1>1, <1>2, <2>1 DEF RequestTypes
<1>6. CASE CheckRefused(r) \/ RequestFails(r) \/ CountRefused(r)
  BY <1>5, <1>6 DEF CheckRefused, RequestFails, CountRefused
<1>7. CASE ReadPool(r)
  BY <1>1, <1>7 DEF ReadPool, RequestTypes
<1>8. CASE CheckRefine(r)
  <2>1. PICK base \in 1..req[r].known :
          req' = [req EXCEPT ![r].pc = "read", ![r].base = base,
                             ![r].status = ctx.status]
    BY <1>8 DEF CheckRefine
  <2>2. base \in 1..Len(revs)
    BY <1>1 DEF RequestTypes
  <2> QED BY <1>1, <1>8, <2>1, <2>2 DEF CheckRefine, RequestTypes
<1>9. CASE CheckFacets(r)
  BY <1>1, <1>9 DEF CheckFacets, RequestTypes
<1>10. CASE ReadFacets(r)
  <2>1. req' = [req EXCEPT ![r] = [NoRequest EXCEPT !.pc = "served",
                  !.scope = req[r].scope, !.gone = req[r].gone,
                  !.result = AuthorizedActive(r)]]
    BY <1>10 DEF ReadFacets, Serve
  <2> QED BY <1>1, <1>2, <2>1 DEF RequestTypes
<1>11. CASE ReadBase(r)
  BY <1>1, <1>11 DEF ReadBase, AuthorizedActive, RequestTypes
<1>12. CASE CountPassed(r)
  BY <1>1, <1>12 DEF CountPassed, Goto, RequestTypes
<1>13. CASE AddRevision(r)
  <2>1. PICK found \in SUBSET req[r].records :
          req' = [req EXCEPT
            ![r].left = @ - 1,
            ![r].pc = IF req[r].left > 1 THEN "refine" ELSE "commit",
            ![r].last = now, ![r].records = {},
            ![r].pending = Append(@, [parent |-> req[r].base, cands |-> found]),
            ![r].result = @ \cup found]
    BY <1>13 DEF AddRevision, Ranked
  <2>2. /\ req'[r].pc \in {"refine", "commit"}
        /\ req'[r].pending =
             Append(req[r].pending, [parent |-> req[r].base, cands |-> found])
    BY <1>1, <2>1 DEF RequestTypes
  <2>3. At(r, "add") /\ RowFree(r)
    BY <1>13 DEF AddRevision
  <2> QED BY <2>2, <2>3
<1> QED BY <1>4, <1>6, <1>7, <1>8, <1>9, <1>10, <1>11, <1>12, <1>13 DEF Local

\* A committed revision stays as it is, so what was narrowed stays narrowed.
LEMMA NarrowedStays ==
  ASSUME TypeOK, NEW row \in Revisions, Narrowed(revs, row),
         NEW more \in Seq(Revisions), revs' = revs \o more
  PROVE  Narrowed(revs', row)
<1>1. /\ revs \in Seq(Revisions) /\ Len(revs) \in Nat /\ Len(more) \in Nat
  BY DEF TypeOK
<1>2. /\ Len(revs') = Len(revs) + Len(more)
      /\ \A i \in 1..Len(revs) : revs'[i] = revs[i]
  BY <1>1, ConcatProperties
<1>3. row.parent \in 1..Len(revs) /\ row.parent \in 1..Len(revs')
  BY <1>1, <1>2 DEF Narrowed
<1> QED BY <1>2, <1>3 DEF Narrowed

\* The steps within a session.
LEMMA NarrowLocal ==
  ASSUME SearchInv, NarrowInv, NEW r \in Requests, Local(r)
  PROVE  NarrowInv'
<1> USE DEF At
<1>1. /\ TypeOK /\ TypeOK' /\ RequestOK(r)
      /\ ctx' = ctx /\ revs' = revs
      /\ \A q \in Requests \ {r} : req'[q] = req[q]
  BY LocalType DEF SearchInv
<1>2. \A row : Narrowed(revs', row) <=> Narrowed(revs, row)
  BY <1>1
<1>3. \A i \in 1..Len(revs') :
        \/ revs'[i].parent = 0 /\ revs'[i].cands \subseteq ctx'.scope
        \/ Narrowed(revs', revs'[i])
  BY <1>1, <1>2 DEF NarrowInv
<1>4. ASSUME NEW q \in Requests
      PROVE  /\ \A i \in 1..Len(req'[q].pending) : Narrowed(revs', req'[q].pending[i])
             /\ req'[q].pending # <<>> => Refining(q)'
             /\ req'[q].pc \in {"read", "count", "add"} =>
                  req'[q].base \in 1..Len(revs')
             /\ req'[q].pc \in {"count", "add"} =>
                  req'[q].records \subseteq revs'[req'[q].base].cands
  <2>1. CASE q # r
    BY <1>1, <1>2, <2>1 DEF NarrowInv, Refining
  <2>2. CASE q = r
    <3>1. /\ \A i \in 1..Len(req[r].pending) : Narrowed(revs, req[r].pending[i])
          /\ req[r].pending # <<>> => Refining(r)
          /\ req[r].pc \in {"read", "count", "add"} =>
               req[r].base \in 1..Len(revs)
          /\ req[r].pc \in {"count", "add"} =>
               req[r].records \subseteq revs[req[r].base].cands
      BY DEF NarrowInv
    <3>2. /\ req[r].pending \in Seq(Revisions) /\ req[r] \in RequestTypes
          /\ Len(req[r].pending) \in Nat
      BY <1>1, RequestFields
    <3>3. CASE /\ req'[r].pending = <<>>
               /\ req'[r].pc \notin {"read", "count", "add", "commit"}
      BY <2>2, <3>3
    <3>4. CASE /\ req'[r].pending = req[r].pending
               /\ \/ /\ req[r].pc \in {"start", "facets"}
                     /\ req'[r].pc \in {"create", "read_facets"}
                  \/ /\ At(r, "refine") /\ At(r, "read")'
                     /\ req'[r].base \in 1..Len(revs)
                  \/ /\ At(r, "read") /\ At(r, "count")'
                     /\ req'[r].base = req[r].base
                     /\ req'[r].records \subseteq revs[req[r].base].cands
                  \/ /\ At(r, "count") /\ At(r, "add")'
                     /\ req'[r].base = req[r].base
                     /\ req'[r].records = req[r].records
      BY <1>1, <1>2, <2>2, <3>1, <3>4 DEF Refining
    <3>5. CASE /\ At(r, "add") /\ req'[r].pc \in {"refine", "commit"}
               /\ \E found \in SUBSET req[r].records :
                    req'[r].pending =
                      Append(req[r].pending, [parent |-> req[r].base, cands |-> found])
      <4>1. PICK found \in SUBSET req[r].records :
              req'[r].pending =
                Append(req[r].pending, [parent |-> req[r].base, cands |-> found])
        BY <3>5
      <4> DEFINE row == [parent |-> req[r].base, cands |-> found]
      <4>2. row \in Revisions /\ Narrowed(revs, row)
        <5>1. /\ req[r].base \in 1..Len(revs)
              /\ found \subseteq revs[req[r].base].cands
          BY <3>1, <3>5
        <5>2. req[r].base \in Nat /\ found \in SUBSET Records
          BY <1>1, <3>2 DEF RequestTypes, TypeOK
        <5> QED BY <5>1, <5>2 DEF Revisions, Narrowed
      <4> HIDE DEF row
      <4>3. /\ Len(req'[r].pending) = Len(req[r].pending) + 1
            /\ \A i \in 1..Len(req[r].pending) :
                 req'[r].pending[i] = req[r].pending[i]
            /\ req'[r].pending[Len(req[r].pending) + 1] = row
        BY <3>2, <4>1, <4>2, AppendProperties DEF row
      <4>4. ASSUME NEW i \in 1..Len(req'[r].pending)
            PROVE  Narrowed(revs, req'[r].pending[i])
        <5>1. i \in 1..Len(req[r].pending) \/ i = Len(req[r].pending) + 1
          BY <3>2, <4>3
        <5> QED BY <3>1, <4>2, <4>3, <5>1
      <4> QED BY <1>2, <2>2, <3>5, <4>4 DEF Refining
    <3> QED BY <1>1, <3>3, <3>4, <3>5, LocalEffect, ZenonT(60)
  <2> QED BY <2>1, <2>2
<1> QED BY <1>3, <1>4 DEF NarrowInv

\* The first revision has the scope of its context; nobody refines yet.
LEMMA NarrowCreate ==
  ASSUME SearchInv, NarrowInv, NEW r \in Requests, CreateContext(r)
  PROVE  NarrowInv'
<1>1. /\ TypeOK /\ RequestOK(r) /\ Starting(r) /\ ctx.status = "none"
      /\ revs = <<>> /\ req[r] \in RequestTypes
      /\ \A q \in Requests : ~Refining(q)
  BY DEF CreateContext, At, SearchInv, SharedOK, RequestOK, Starting, Inside,
         Refining, TypeOK
<1>2. /\ req[r].result \in SUBSET Records /\ req[r].scope \in SUBSET Records
      /\ req[r].result \subseteq req[r].scope
  BY <1>1 DEF RequestTypes, RequestOK
<1>3. /\ revs' = <<[parent |-> 0, cands |-> req[r].result]>>
      /\ ctx'.scope = req[r].scope
      /\ Serve(r, req[r].result)
  BY DEF CreateContext
<1>4. /\ Len(revs) = 0 /\ Len(revs') = 1 /\ revs' \in Seq(Revisions)
      /\ revs'[1].parent = 0 /\ revs'[1].cands = req[r].result
  BY <1>1, <1>2, <1>3 DEF Revisions
<1>5. /\ req'[r].pc = "served"
      /\ \A q \in Requests \ {r} : req'[q] = req[q]
  BY <1>1, <1>2, <1>3, <1>4, ServedFields
<1>6. req'[r].pending = <<>>
  <2>1. req' = [req EXCEPT ![r] = [NoRequest EXCEPT !.pc = "served",
                  !.scope = req[r].scope, !.gone = req[r].gone,
                  !.result = req[r].result]]
    BY <1>3 DEF Serve
  <2> QED BY <1>1, <2>1 DEF NoRequest, TypeOK
<1>7. \A q \in Requests : req[q].pending = <<>>
  BY <1>1 DEF NarrowInv
<1>8. \A q \in Requests :
        /\ req'[q].pending = <<>>
        /\ req'[q].pc \notin {"read", "count", "add"}
  BY <1>1, <1>5, <1>6, <1>7 DEF Refining
<1>9. \A i \in 1..Len(revs') :
        revs'[i].parent = 0 /\ revs'[i].cands \subseteq ctx'.scope
  BY <1>2, <1>3, <1>4
<1> QED BY <1>8, <1>9 DEF NarrowInv

\* A session's revisions join the committed ones.
LEMMA NarrowCommit ==
  ASSUME SearchInv, NarrowInv, NEW r \in Requests,
         CommitRefine(r) \/ CloseContext(r)
  PROVE  NarrowInv'
<1>1. /\ TypeOK /\ revs \in Seq(Revisions) /\ Len(revs) \in Nat
      /\ req \in [Requests -> RequestTypes]
      /\ req[r] \in RequestTypes /\ req[r].pending \in Seq(Revisions)
      /\ req[r].result \in SUBSET Records
  <2>1. TypeOK
    BY DEF SearchInv
  <2>2. /\ revs \in Seq(Revisions) /\ Len(revs) \in Nat
        /\ req \in [Requests -> RequestTypes]
    BY <2>1 DEF TypeOK
  <2>3. req[r] \in RequestTypes
    BY <2>2
  <2> QED BY <2>1, <2>2, <2>3 DEF RequestTypes
<1>2. PICK more \in Seq(Revisions) :
        /\ revs' = revs \o more
        /\ \A i \in 1..Len(more) : Narrowed(revs, more[i])
  <2>1. CASE CommitRefine(r)
    <3>1. \A i \in 1..Len(req[r].pending) : Narrowed(revs, req[r].pending[i])
      BY DEF NarrowInv
    <3>2. revs' = revs \o req[r].pending
      BY <2>1 DEF CommitRefine
    <3> QED BY <1>1, <3>1, <3>2
  <2>2. CASE CloseContext(r)
    <3>1. revs' = revs \o <<>>
      BY <1>1, <2>2, ConcatEmptySeq DEF CloseContext
    <3>2. <<>> \in Seq(Revisions) /\ \A i \in 1..Len(<<>>) : FALSE
      BY EmptySeq
    <3> QED BY <3>1, <3>2
  <2> QED BY <2>1, <2>2
<1>3. /\ revs' \in Seq(Revisions) /\ Len(more) \in Nat
      /\ Len(revs') = Len(revs) + Len(more)
      /\ \A i \in 1..Len(revs') :
           revs'[i] = IF i <= Len(revs) THEN revs[i] ELSE more[i - Len(revs)]
  BY <1>1, <1>2, ConcatProperties
<1>4. ctx'.scope = ctx.scope
  BY DEF CommitRefine, CloseContext, SearchInv, TypeOK
<1>5. ASSUME NEW row \in Revisions, Narrowed(revs, row) PROVE Narrowed(revs', row)
  BY <1>1, <1>2, <1>5, NarrowedStays
<1>6. ASSUME NEW i \in 1..Len(revs')
      PROVE  \/ revs'[i].parent = 0 /\ revs'[i].cands \subseteq ctx'.scope
             \/ Narrowed(revs', revs'[i])
  <2>1. CASE i <= Len(revs)
    <3>1. i \in 1..Len(revs) /\ revs'[i] = revs[i] /\ revs[i] \in Revisions
      BY <1>1, <1>3, <2>1
    <3> QED BY <1>4, <1>5, <3>1 DEF NarrowInv
  <2>2. CASE ~(i <= Len(revs))
    <3>1. i - Len(revs) \in 1..Len(more) /\ revs'[i] = more[i - Len(revs)]
      BY <1>1, <1>3, <2>2
    <3>2. more[i - Len(revs)] \in Revisions
      BY <1>2, <3>1
    <3> QED BY <1>2, <1>5, <3>1, <3>2
  <2> QED BY <2>1, <2>2
<1>7. Serve(r, req[r].result)
  BY DEF CommitRefine, CloseContext
<1>8. /\ req'[r].pc = "served" /\ \A q \in Requests \ {r} : req'[q] = req[q]
      /\ req'[r].pending = <<>>
  <2>1. req' = [req EXCEPT ![r] = [NoRequest EXCEPT !.pc = "served",
                  !.scope = req[r].scope, !.gone = req[r].gone,
                  !.result = req[r].result]]
    BY <1>7 DEF Serve
  <2> QED BY <1>1, <2>1 DEF NoRequest
<1>9. ASSUME NEW q \in Requests
      PROVE  /\ \A i \in 1..Len(req'[q].pending) : Narrowed(revs', req'[q].pending[i])
             /\ req'[q].pending # <<>> => Refining(q)'
             /\ req'[q].pc \in {"read", "count", "add"} =>
                  req'[q].base \in 1..Len(revs')
             /\ req'[q].pc \in {"count", "add"} =>
                  req'[q].records \subseteq revs'[req'[q].base].cands
  <2>1. CASE q = r
    BY <1>8, <2>1
  <2>2. CASE q # r
    <3>1. req'[q] = req[q] /\ req[q].pending \in Seq(Revisions)
      BY <1>1, <1>8, <2>2, RequestFields
    <3>2. \A i \in 1..Len(req[q].pending) :
            Narrowed(revs, req[q].pending[i]) /\ req[q].pending[i] \in Revisions
      BY <3>1 DEF NarrowInv
    <3>3. \A i \in 1..Len(revs) : i \in 1..Len(revs') /\ revs'[i] = revs[i]
      BY <1>1, <1>3
    <3> QED BY <1>5, <3>1, <3>2, <3>3 DEF NarrowInv, Refining
  <2> QED BY <2>1, <2>2
<1> QED BY <1>6, <1>9 DEF NarrowInv

\* Refinement narrows, over every interleaving.
LEMMA NarrowInvHolds == Spec => []NarrowInv
<1>1. Init => NarrowInv
  <2> SUFFICES ASSUME Init PROVE NarrowInv
    OBVIOUS
  <2>1. revs = <<>> /\ \A r \in Requests : req[r].pending = <<>> /\ req[r].pc = "idle"
    BY DEF Init, NoRequest
  <2> QED BY <2>1 DEF NarrowInv
<1>2. ASSUME SearchInv, NarrowInv, [Next]_vars PROVE NarrowInv'
  <2>1. ASSUME revs' = revs, req' = req, ctx'.scope = ctx.scope PROVE NarrowInv'
    BY <1>2, <2>1 DEF NarrowInv, Narrowed, Refining
  <2>2. ASSUME NEW r \in Requests, RequestStep(r) PROVE NarrowInv'
    <3>1. Local(r) \/ CreateContext(r) \/ CommitRefine(r) \/ CloseContext(r)
      BY <2>2 DEF RequestStep, Local
    <3> QED BY <1>2, <3>1, NarrowLocal, NarrowCreate, NarrowCommit
  <2>3. CASE \/ \E new \in Records, old \in SUBSET active : PublishRecord(new, old)
             \/ \E s \in SUBSET Records : ChangeScope(s)
             \/ Tick \/ UNCHANGED vars
    BY <2>1, <2>3 DEF PublishRecord, ChangeScope, Tick, vars
  <2>4. CASE SweepContexts
    BY <1>2, <2>1, <2>4 DEF SweepContexts, SearchInv, TypeOK
  <2> QED BY <1>2, <2>2, <2>3, <2>4, StepCases
<1> QED BY <1>1, <1>2, SearchInvHolds, PTL DEF Spec

\* Along the parents refinement only narrows, down from the scope the context
\* is bound to, whatever is committed between the reading of a base revision
\* and the commit of what was derived from it.
THEOREM RefinementNarrows == Spec => []RefineNarrows
<1>1. NarrowInv => RefineNarrows
  <2> SUFFICES ASSUME NarrowInv, NEW i \in 1..Len(revs)
               PROVE  revs[i].cands \subseteq
                        IF revs[i].parent = 0 THEN ctx.scope
                        ELSE revs[revs[i].parent].cands
    BY DEF RefineNarrows
  <2> QED BY DEF NarrowInv, Narrowed
<1> QED BY <1>1, NarrowInvHolds, PTL

\* The requests are finitely many, and one that does not wait leaves room for
\* at most one fewer.
LEMMA WaitingSize ==
  ASSUME NEW W \in SUBSET Requests
  PROVE  /\ IsFiniteSet(W) /\ Cardinality(W) \in Nat
         /\ Cardinality(Requests) \in Nat
         /\ Cardinality(W) <= Cardinality(Requests)
         /\ \A r \in Requests \ W : Cardinality(W) <= Cardinality(Requests) - 1
<1>1. /\ IsFiniteSet(W) /\ Cardinality(W) \in Nat
      /\ Cardinality(Requests) \in Nat
      /\ Cardinality(W) <= Cardinality(Requests)
  BY SearchAssumption, FS_Subset, FS_CardinalityType
<1>2. ASSUME NEW r \in Requests \ W
      PROVE  Cardinality(W) <= Cardinality(Requests) - 1
  <2>1. /\ IsFiniteSet(Requests \ {r})
        /\ Cardinality(Requests \ {r}) = Cardinality(Requests) - 1
    BY SearchAssumption, FS_RemoveElement
  <2>2. W \in SUBSET (Requests \ {r})
    OBVIOUS
  <2> QED BY <2>1, <2>2, FS_Subset
<1> QED BY <1>1, <1>2

\* The numbers the limit is about.
LEMMA LimitTypes ==
  ASSUME TypeOK
  PROVE  /\ Waiting \in SUBSET Requests
         /\ Cardinality(Waiting) \in Nat
         /\ Cardinality(Requests) \in Nat
         /\ Cardinality(Waiting) <= Cardinality(Requests)
         /\ Most \in Int
         /\ Len(revs) \in Nat
         /\ \A q \in Requests :
              /\ Len(req[q].pending) \in Nat
              /\ req[q].pending = <<>> <=> Len(req[q].pending) = 0
<1>1. Waiting \in SUBSET Requests
  BY DEF Waiting
<1>2. Len(revs) \in Nat
  BY DEF TypeOK
<1>3. ASSUME NEW q \in Requests
      PROVE  /\ Len(req[q].pending) \in Nat
             /\ req[q].pending = <<>> <=> Len(req[q].pending) = 0
  <2>1. req[q].pending \in Seq(Revisions)
    BY RequestFields
  <2> QED BY <2>1, EmptySeq
<1> QED BY <1>1, <1>2, <1>3, WaitingSize, SearchAssumption DEF Most

\* A step within a session that passes the limit.
LEMMA LimitCount ==
  ASSUME TypeOK, TypeOK', LimitInv, NEW r \in Requests,
         revs' = revs,
         \A q \in Requests \ {r} : req'[q] = req[q],
         At(r, "count"), At(r, "add")', WithinLimit(r),
         req'[r].pending = req[r].pending
  PROVE  LimitInv'
<1> USE DEF At
<1>1. \A q \in Requests : req'[q].pending = req[q].pending
  OBVIOUS
<1>2. /\ Most' = Most
      /\ Cardinality(Waiting') \in Nat /\ Waiting' \in SUBSET Requests
      /\ Cardinality(Waiting) \in Nat
      /\ Cardinality(Waiting') <= Cardinality(Requests)
      /\ Cardinality(Requests) \in Nat /\ Len(revs) \in Nat
      /\ \A q \in Requests :
           /\ Len(req[q].pending) \in Nat
           /\ req[q].pending = <<>> <=> Len(req[q].pending) = 0
  <2>1. Waiting' \in SUBSET Requests
    BY DEF Waiting
  <2> QED BY <2>1, LimitTypes, WaitingSize DEF Most
<1>3. Len(revs) + Len(req[r].pending) < MaxRevisions
  BY DEF WithinLimit, RevisionCount
<1>4. ASSUME NEW q \in Requests
      PROVE  /\ Len(req[q].pending) > 1 =>
                  Len(revs) + Len(req[q].pending) <= MaxRevisions
             /\ At(q, "add")' /\ req'[q].pending # <<>> =>
                  Len(revs) + Len(req[q].pending) < MaxRevisions
             /\ At(q, "commit")' => req'[q].pending # <<>>
  BY <1>1, <1>3 DEF LimitInv, LimitOK
<1>5. ASSUME NEW q \in Requests
      PROVE  Len(revs) + Len(req[q].pending) + Cardinality(Waiting') <= Most
  <2>1. CASE req[r].pending # <<>>
    <3>1. Waiting' = Waiting
      BY <1>1, <2>1 DEF Waiting
    <3> QED BY <3>1 DEF LimitInv, LimitOK
  <2>2. CASE req[r].pending = <<>> /\ req[q].pending = <<>>
    BY <1>2, <1>3, <2>2, SearchAssumption DEF Most
  <2>3. CASE req[r].pending = <<>> /\ req[q].pending # <<>>
    <3>1. q \notin Waiting'
      BY <1>1, <2>3 DEF Waiting
    <3>2. Cardinality(Waiting') <= Cardinality(Requests) - 1
      BY <1>2, <3>1, WaitingSize
    <3>3. Len(revs) + Len(req[q].pending) <= MaxRevisions
      BY <1>2, <1>3, <1>4, <2>3, SearchAssumption
    <3> QED BY <1>2, <3>2, <3>3, SearchAssumption DEF Most
  <2> QED BY <2>1, <2>2, <2>3
<1>6. ASSUME NEW q \in Requests PROVE LimitOK(q)'
  BY <1>1, <1>2, <1>4, <1>5 DEF LimitOK
<1>7. \A p, q \in Requests :
        req'[p].pending # <<>> /\ req'[q].pending # <<>> => p = q
  BY <1>1 DEF LimitInv
<1> QED BY <1>6, <1>7 DEF LimitInv

\* A revision is added in the session.
LEMMA LimitAdd ==
  ASSUME TypeOK, TypeOK', LimitInv, NEW r \in Requests,
         revs' = revs,
         \A q \in Requests \ {r} : req'[q] = req[q],
         At(r, "add"), req'[r].pc \in {"refine", "commit"}, RowFree(r),
         Len(req'[r].pending) = Len(req[r].pending) + 1
  PROVE  LimitInv'
<1> USE DEF At
<1>1. /\ Most' = Most /\ Most \in Int
      /\ Waiting \in SUBSET Requests /\ IsFiniteSet(Waiting)
      /\ Cardinality(Waiting) \in Nat
      /\ Cardinality(Requests) \in Nat /\ Len(revs) \in Nat
      /\ \A q \in Requests :
           /\ Len(req[q].pending) \in Nat
           /\ req[q].pending = <<>> <=> Len(req[q].pending) = 0
  BY LimitTypes, WaitingSize DEF Most
<1>2. \A q \in Requests : req'[q].pending = <<>> <=> Len(req'[q].pending) = 0
  BY LimitTypes
<1>3. /\ \A q \in Requests \ {r} : req[q].pending = <<>> /\ req'[q].pending = <<>>
      /\ req'[r].pending # <<>>
  BY <1>1, <1>2 DEF RowFree
<1>4. Waiting' = Waiting \ {r}
  BY <1>3 DEF Waiting
<1>5. /\ Cardinality(Waiting') \in Nat
      /\ Cardinality(Waiting') =
           IF r \in Waiting THEN Cardinality(Waiting) - 1 ELSE Cardinality(Waiting)
  BY <1>1, <1>4, FS_RemoveElement, WaitingSize
<1>6. Len(revs) + Len(req[r].pending) + Cardinality(Waiting) <= Most
  BY DEF LimitInv, LimitOK
<1>7. /\ Len(revs) + Len(req'[r].pending) + Cardinality(Waiting') <= Most
      /\ Len(req'[r].pending) > 1 =>
           Len(revs) + Len(req'[r].pending) <= MaxRevisions
  <2>1. CASE req[r].pending = <<>>
    <3>1. r \in Waiting
      BY <2>1 DEF Waiting
    <3> QED BY <1>1, <1>5, <1>6, <2>1, <3>1
  <2>2. CASE req[r].pending # <<>>
    <3>1. r \notin Waiting /\ Len(revs) + Len(req[r].pending) < MaxRevisions
      BY <2>2 DEF Waiting, LimitInv, LimitOK
    <3>2. Cardinality(Waiting) <= Cardinality(Requests) - 1
      BY <1>1, <3>1, WaitingSize
    <3>3. MaxRevisions \in Int /\ Cardinality(Waiting') = Cardinality(Waiting)
      BY <1>5, <3>1, SearchAssumption
    <3>4. Len(revs) + Len(req'[r].pending) <= MaxRevisions
      BY <1>1, <3>1, <3>3
    <3>5. Len(revs) + Len(req'[r].pending) + Cardinality(Waiting') <= Most
      BY <1>1, <3>2, <3>3, <3>4, SMTT(60) DEF Most
    <3> QED BY <3>4, <3>5
  <2> QED BY <2>1, <2>2
<1>8. ASSUME NEW q \in Requests PROVE LimitOK(q)'
  <2>1. CASE q = r
    BY <1>1, <1>3, <1>7, <2>1 DEF LimitOK
  <2>2. CASE q # r
    <3>1. req'[q] = req[q] /\ req[q].pending = <<>> /\ Len(req[q].pending) = 0
      BY <1>1, <1>3, <2>2
    <3>2. Len(revs) + Cardinality(Waiting') <= Most
      BY <1>1, <1>5, <1>6, SMTT(60)
    <3>3. At(q, "commit") => req[q].pending # <<>>
      BY DEF LimitInv, LimitOK
    <3> QED BY <1>1, <1>5, <3>1, <3>2, <3>3 DEF LimitOK
  <2> QED BY <2>1, <2>2
<1>9. \A p, q \in Requests :
        req'[p].pending # <<>> /\ req'[q].pending # <<>> => p = q
  BY <1>3
<1> QED BY <1>8, <1>9 DEF LimitInv

\* A sum whose parts do not grow stays below its bound.
LEMMA SumShrinks ==
  ASSUME NEW a \in Int, NEW b \in Int, NEW c \in Int, NEW m \in Int,
         NEW d \in Int, NEW e \in Int,
         a + b + c <= m, d <= b, e <= c
  PROVE  a + d + e <= m
  OBVIOUS

\* A request ends its session, or goes on with what it has.
LEMMA LimitLess ==
  ASSUME TypeOK, TypeOK', LimitInv, NEW r \in Requests,
         revs' = revs,
         \A q \in Requests \ {r} : req'[q] = req[q],
         ~At(r, "add")', ~At(r, "commit")',
         req'[r].pending = <<>> \/ req'[r].pending = req[r].pending
  PROVE  LimitInv'
<1> USE DEF At
<1>1. /\ Most' = Most /\ Most \in Int
      /\ Waiting \in SUBSET Requests /\ IsFiniteSet(Waiting)
      /\ Cardinality(Waiting) \in Nat /\ Len(revs) \in Nat
      /\ \A q \in Requests :
           /\ Len(req[q].pending) \in Nat
           /\ req[q].pending = <<>> <=> Len(req[q].pending) = 0
  BY LimitTypes, WaitingSize DEF Most
<1>2. /\ \A q \in Requests :
           /\ Len(req'[q].pending) \in Nat
           /\ req'[q].pending = <<>> <=> Len(req'[q].pending) = 0
           /\ Len(req'[q].pending) <= Len(req[q].pending)
  <2>1. Len(<<>>) = 0
    OBVIOUS
  <2> QED BY <1>1, <2>1
<1>3. Waiting' \in SUBSET Waiting
  BY DEF Waiting
<1>4. Cardinality(Waiting') <= Cardinality(Waiting) /\ Cardinality(Waiting') \in Nat
  BY <1>1, <1>3, FS_Subset, WaitingSize
<1>5. ASSUME NEW q \in Requests PROVE LimitOK(q)'
  <2>1. /\ Len(revs) + Len(req[q].pending) + Cardinality(Waiting) <= Most
        /\ Len(req[q].pending) > 1 =>
             Len(revs) + Len(req[q].pending) <= MaxRevisions
        /\ At(q, "add") /\ req[q].pending # <<>> =>
             Len(revs) + Len(req[q].pending) < MaxRevisions
        /\ At(q, "commit") => req[q].pending # <<>>
    BY DEF LimitInv, LimitOK
  <2>2. Len(revs) + Len(req'[q].pending) + Cardinality(Waiting') <= Most
    <3>1. /\ Len(revs) \in Nat /\ Most \in Int
          /\ Len(req[q].pending) \in Nat /\ Len(req'[q].pending) \in Nat
          /\ Len(req'[q].pending) <= Len(req[q].pending)
          /\ Cardinality(Waiting) \in Nat /\ Cardinality(Waiting') \in Nat
          /\ Cardinality(Waiting') <= Cardinality(Waiting)
      BY <1>1, <1>2, <1>4
    <3>2. Len(revs) + Len(req[q].pending) + Cardinality(Waiting) <= Most
      BY <2>1
    <3> DEFINE a == Len(revs)
               b == Len(req[q].pending)
               d == Len(req'[q].pending)
               c == Cardinality(Waiting)
               e == Cardinality(Waiting')
    <3>3. /\ a \in Int /\ b \in Int /\ c \in Int /\ d \in Int /\ e \in Int
          /\ Most \in Int /\ a + b + c <= Most /\ d <= b /\ e <= c
      BY <3>1, <3>2
    <3> HIDE DEF a, b, c, d, e
    <3>4. a + d + e <= Most
      BY ONLY <3>3, SumShrinks
    <3> QED BY <3>4 DEF a, d, e
  <2>3. CASE q = r /\ req'[r].pending = <<>>
    BY <1>1, <1>2, <2>2, <2>3 DEF LimitOK
  <2>4. CASE req'[q].pending = req[q].pending
    BY <1>1, <2>1, <2>2, <2>4 DEF LimitOK
  <2> QED BY <2>3, <2>4
<1>6. \A p, q \in Requests :
        req'[p].pending # <<>> /\ req'[q].pending # <<>> => p = q
  BY DEF LimitInv
<1> QED BY <1>5, <1>6 DEF LimitInv

\* The request's revisions are gone from its session once it is served.
LEMMA ServedSession ==
  ASSUME TypeOK, NEW r \in Requests, NEW found, Serve(r, found)
  PROVE  /\ req'[r].pc = "served" /\ req'[r].pending = <<>>
         /\ \A q \in Requests \ {r} : req'[q] = req[q]
<1>1. req' = [req EXCEPT ![r] = [NoRequest EXCEPT !.pc = "served",
                !.scope = req[r].scope, !.gone = req[r].gone, !.result = found]]
  BY DEF Serve
<1> QED BY <1>1 DEF NoRequest, TypeOK

\* When no request has a revision in its session, the limit is about the
\* committed ones and those that wait.
LEMMA LimitIdle ==
  ASSUME NEW r \in Requests,
         \A q \in Requests : req'[q].pending = <<>> /\ ~At(q, "commit")',
         Len(revs') \in Nat,
         Len(revs') + Cardinality(Waiting') <= Most
  PROVE  LimitInv'
<1>1. Most' = Most /\ Cardinality(Waiting') \in Nat /\ Len(<<>>) = 0
  <2>1. Waiting' \in SUBSET Requests
    BY DEF Waiting
  <2> QED BY <2>1, WaitingSize DEF Most
<1>2. ASSUME NEW q \in Requests PROVE LimitOK(q)'
  BY <1>1 DEF LimitOK
<1> QED BY <1>2 DEF LimitInv

\* The first revision: nobody has passed the limit yet.
LEMMA LimitCreate ==
  ASSUME SearchInv, NarrowInv, NEW r \in Requests, CreateContext(r)
  PROVE  LimitInv'
<1>1. /\ TypeOK /\ ctx.status = "none"
      /\ \A q \in Requests : req[q].pc \notin {"refine", "read", "count", "add", "commit"}
  BY DEF CreateContext, At, SearchInv, RequestOK, Starting, Inside
<1>2. /\ req'[r].pc = "served" /\ req'[r].pending = <<>>
      /\ \A q \in Requests \ {r} : req'[q] = req[q]
  BY <1>1, ServedSession DEF CreateContext
<1>3. \A q \in Requests :
        req'[q].pending = <<>> /\ ~At(q, "commit")' /\ ~At(q, "add")'
  BY <1>1, <1>2 DEF NarrowInv, Refining, At
<1>4. Waiting' = {}
  BY <1>3 DEF Waiting
<1>5. Len(revs') = 1
  BY DEF CreateContext
<1>6. Cardinality(Requests) \in Nat /\ 0 <= Cardinality(Requests) - 1
  BY WaitingSize, FS_EmptySet
<1>7. Len(revs') + Cardinality(Waiting') <= Most
  BY <1>4, <1>5, <1>6, FS_EmptySet, SearchAssumption DEF Most
<1> QED BY <1>3, <1>5, <1>7, LimitIdle

\* The revisions of the one session that has any are committed.
LEMMA LimitCommit ==
  ASSUME SearchInv, LimitInv, NEW r \in Requests, CommitRefine(r)
  PROVE  LimitInv'
<1> USE DEF At
<1>1. /\ TypeOK /\ At(r, "commit") /\ req[r].pending # <<>>
      /\ Len(revs) + Len(req[r].pending) + Cardinality(Waiting) <= Most
  BY DEF SearchInv, CommitRefine, LimitInv, LimitOK
<1>2. /\ revs \in Seq(Revisions) /\ req[r].pending \in Seq(Revisions)
      /\ revs' = revs \o req[r].pending
  BY <1>1, RequestFields DEF CommitRefine, TypeOK
<1>3. Len(revs') = Len(revs) + Len(req[r].pending) /\ Len(revs') \in Nat
  BY <1>2, ConcatProperties
<1>4. /\ req'[r].pc = "served" /\ req'[r].pending = <<>>
      /\ \A q \in Requests \ {r} : req'[q] = req[q]
  BY <1>1, ServedSession DEF CommitRefine
<1>5. \A q \in Requests \ {r} : req[q].pending = <<>> /\ ~At(q, "commit")
  BY <1>1 DEF LimitInv, LimitOK
<1>6. \A q \in Requests : req'[q].pending = <<>> /\ ~At(q, "commit")'
  BY <1>4, <1>5
<1>7. Waiting' = Waiting
  BY <1>1, <1>4 DEF Waiting
<1> QED BY <1>1, <1>3, <1>6, <1>7, LimitIdle

\* Every step of a request keeps within the limit.
LEMMA LimitRequest ==
  ASSUME SearchInv, SearchInv', NarrowInv, LimitInv, NEW r \in Requests,
         RequestStep(r)
  PROVE  LimitInv'
<1> USE DEF At
<1>1. TypeOK /\ TypeOK' /\ RequestOK(r)
  BY DEF SearchInv
<1>2. CASE Local(r)
  <2>1. revs' = revs /\ \A q \in Requests \ {r} : req'[q] = req[q]
    BY <1>1, <1>2, LocalType
  <2>2. CASE /\ ~At(r, "add")' /\ ~At(r, "commit")'
             /\ req'[r].pending = <<>> \/ req'[r].pending = req[r].pending
    BY <1>1, <2>1, <2>2, LimitLess
  <2>3. CASE /\ At(r, "count") /\ At(r, "add")' /\ WithinLimit(r)
             /\ req'[r].pending = req[r].pending
    BY <1>1, <2>1, <2>3, LimitCount
  <2>4. CASE /\ At(r, "add") /\ req'[r].pc \in {"refine", "commit"} /\ RowFree(r)
             /\ \E found \in SUBSET req[r].records :
                  req'[r].pending =
                    Append(req[r].pending, [parent |-> req[r].base, cands |-> found])
    <3>1. req[r].pending \in Seq(Revisions)
      BY <1>1, RequestFields
    <3>2. Len(req'[r].pending) = Len(req[r].pending) + 1
      BY <2>4, <3>1
    <3> QED BY <1>1, <2>1, <2>4, <3>2, LimitAdd
  <2> QED BY <1>1, <1>2, <2>2, <2>3, <2>4, LocalEffect
<1>3. CASE CreateContext(r)
  BY <1>3, LimitCreate
<1>4. CASE CommitRefine(r)
  BY <1>4, LimitCommit
<1>5. CASE CloseContext(r)
  <2>1. revs' = revs /\ Serve(r, req[r].result)
    BY <1>5 DEF CloseContext
  <2>2. /\ req'[r].pc = "served" /\ req'[r].pending = <<>>
        /\ \A q \in Requests \ {r} : req'[q] = req[q]
    BY <1>1, <2>1, ServedSession
  <2> QED BY <1>1, <2>1, <2>2, LimitLess
<1> QED BY <1>2, <1>3, <1>4, <1>5 DEF RequestStep, Local

\* The revision limit of a context, which _enforce_revision_limit tests before
\* the row is locked: whatever the batches and interleavings, a context never has
\* more revisions than max_revisions_per_context and one for every request
\* thread beside the first.
THEOREM RevisionLimit == Spec => []RevisionLimitHolds
<1>1. Init => LimitInv
  <2> SUFFICES ASSUME Init PROVE LimitInv
    OBVIOUS
  <2>1. revs = <<>> /\ \A r \in Requests : req[r].pending = <<>> /\ req[r].pc = "idle"
    BY DEF Init, NoRequest
  <2>2. Waiting = {} /\ Cardinality(Waiting) = 0 /\ Len(<<>>) = 0
    BY <2>1, FS_EmptySet DEF Waiting, At
  <2>3. 0 <= Most
    BY WaitingSize, FS_EmptySet, SearchAssumption DEF Most
  <2> QED BY <2>1, <2>2, <2>3 DEF LimitInv, LimitOK, At
<1>2. ASSUME SearchInv, SearchInv', NarrowInv, LimitInv, [Next]_vars
      PROVE  LimitInv'
  <2>1. ASSUME revs' = revs, req' = req PROVE LimitInv'
    BY <1>2, <2>1 DEF LimitInv, LimitOK, Waiting, Most, At
  <2>2. ASSUME NEW r \in Requests, RequestStep(r) PROVE LimitInv'
    BY <1>2, <2>2, LimitRequest
  <2>3. CASE \/ \E new \in Records, old \in SUBSET active : PublishRecord(new, old)
             \/ \E s \in SUBSET Records : ChangeScope(s)
             \/ Tick \/ SweepContexts \/ UNCHANGED vars
    BY <2>1, <2>3 DEF PublishRecord, ChangeScope, Tick, SweepContexts, vars
  <2> QED BY <1>2, <2>2, <2>3, StepCases
<1>3. SearchInv /\ LimitInv => RevisionLimitHolds
  <2> SUFFICES ASSUME TypeOK, LimitInv PROVE RevisionLimitHolds
    BY DEF SearchInv
  <2>1. /\ Cardinality(Requests) \in Nat /\ Cardinality(Waiting) \in Nat
        /\ Len(revs) \in Nat
        /\ \A q \in Requests : Len(req[q].pending) \in Nat
    BY LimitTypes
  <2>2. CASE Requests = {}
    BY <2>1, <2>2, SearchAssumption DEF LimitInv, RevisionLimitHolds
  <2>3. CASE Requests # {}
    <3>1. PICK r \in Requests : TRUE
      BY <2>3
    <3>2. Len(revs) + Len(req[r].pending) + Cardinality(Waiting) <= Most
      BY DEF LimitInv, LimitOK
    <3> QED BY <2>1, <3>1, <3>2, SearchAssumption DEF Most, RevisionLimitHolds
  <2> QED BY <2>2, <2>3
<1> QED BY <1>1, <1>2, <1>3, SearchInvHolds, NarrowInvHolds, PTL DEF Spec

-----------------------------------------------------------------------------
(* Ranking. *)

\* The scores of finitely many numbered records.
Scored(scores) ==
  /\ IsFiniteSet(DOMAIN scores)
  /\ DOMAIN scores \subseteq Int
  /\ \A r \in DOMAIN scores : scores[r] \in Int

\* One record ahead of another is ahead by more places than it.
LEMMA AheadRanks ==
  ASSUME NEW scores, Scored(scores)
  PROVE  /\ \A r \in DOMAIN scores :
              Cardinality(Ahead(scores, r)) \in 0..(Cardinality(DOMAIN scores) - 1)
         /\ \A a, b \in DOMAIN scores :
              a # b => a \in Ahead(scores, b) \/ b \in Ahead(scores, a)
         /\ \A a, b \in DOMAIN scores :
              a \in Ahead(scores, b) =>
                Cardinality(Ahead(scores, a)) < Cardinality(Ahead(scores, b))
<1> DEFINE D == DOMAIN scores
           A(r) == Ahead(scores, r)
<1>1. \A a, b \in D : a # b => a \in A(b) \/ b \in A(a)
  BY DEF Ahead, Scored
<1>2. \A r \in D : r \notin A(r)
  BY DEF Ahead, Scored
<1>3. \A a, b \in D : a \in A(b) => A(a) \subseteq A(b)
  <2> SUFFICES ASSUME NEW a \in D, NEW b \in D, a \in A(b), NEW o \in A(a)
               PROVE  o \in A(b)
    OBVIOUS
  <2>1. o \in D /\ o \in Int /\ a \in Int /\ b \in Int
    BY DEF Ahead, Scored
  <2>2. scores[o] \in Int /\ scores[a] \in Int /\ scores[b] \in Int
    BY <2>1 DEF Scored
  <2>3. scores[o] > scores[a] \/ (scores[o] = scores[a] /\ o < a)
    BY DEF Ahead
  <2>4. scores[a] > scores[b] \/ (scores[a] = scores[b] /\ a < b)
    BY DEF Ahead
  <2>5. scores[o] > scores[b] \/ (scores[o] = scores[b] /\ o < b)
    BY <2>1, <2>2, <2>3, <2>4
  <2> QED BY <2>1, <2>5 DEF Ahead
<1>4. IsFiniteSet(D) /\ Cardinality(D) \in Nat
  BY FS_CardinalityType DEF Scored
<1>5. \A r \in D : IsFiniteSet(A(r)) /\ Cardinality(A(r)) \in Nat
                   /\ Cardinality(A(r)) < Cardinality(D)
  <2> TAKE r \in D
  <2>1. A(r) \in SUBSET D /\ A(r) # D
    BY <1>2 DEF Ahead
  <2>2. IsFiniteSet(A(r)) /\ Cardinality(A(r)) <= Cardinality(D)
        /\ Cardinality(A(r)) # Cardinality(D)
    BY <1>4, <2>1, FS_Subset
  <2> QED BY <1>4, <2>2, FS_CardinalityType
<1>6. \A a, b \in D : a \in A(b) => Cardinality(A(a)) < Cardinality(A(b))
  <2> SUFFICES ASSUME NEW a \in D, NEW b \in D, a \in A(b)
               PROVE  Cardinality(A(a)) < Cardinality(A(b))
    OBVIOUS
  <2>1. A(a) \in SUBSET A(b) /\ A(a) # A(b)
    BY <1>2, <1>3
  <2>2. Cardinality(A(a)) <= Cardinality(A(b)) /\ Cardinality(A(a)) # Cardinality(A(b))
    BY <1>5, <2>1, FS_Subset
  <2> QED BY <1>5, <2>2
<1> QED BY <1>1, <1>4, <1>5, <1>6

\* A sequence that has every element of a finite set, once.
Lists(s, S) ==
  /\ s \in [1..Cardinality(S) -> S]
  /\ \A i, j \in DOMAIN s : s[i] = s[j] => i = j
  /\ \A r \in S : \E i \in DOMAIN s : s[i] = r

\* sorted() loses and repeats nothing, and what is ahead comes first.
LEMMA OrderLists ==
  ASSUME NEW scores, Scored(scores)
  PROVE  /\ Lists(OrderCandidates(scores), DOMAIN scores)
         /\ \A a, b \in DOMAIN scores :
              a \in Ahead(scores, b) => Precedes(OrderCandidates(scores), a, b)
<1> DEFINE D == DOMAIN scores
           n == Cardinality(D)
           A(r) == Ahead(scores, r)
           f == [r \in D |-> 1 + Cardinality(A(r))]
           s == OrderCandidates(scores)
<1>1. IsFiniteSet(D) /\ n \in Nat
  BY FS_CardinalityType DEF Scored
<1>2. \A r \in D : Cardinality(A(r)) \in 0..(n - 1)
  BY AheadRanks
<1>3. f \in [D -> 1..n]
  BY <1>1, <1>2
<1>4. \A a, b \in D : Cardinality(A(a)) = Cardinality(A(b)) => a = b
  BY <1>2, AheadRanks
<1>5. f \in Injection(D, 1..n)
  BY <1>2, <1>3, <1>4 DEF Injection, IsInjective
<1>6. IsFiniteSet(1..n) /\ Cardinality(1..n) = n
  BY <1>1, FS_Interval
<1>7. f \in Surjection(D, 1..n)
  BY <1>1, <1>5, <1>6, FS_Injection
<1>8. \A i \in 1..n : \E r \in D : Cardinality(A(r)) = i - 1
  <2> TAKE i \in 1..n
  <2>1. PICK r \in D : f[r] = i
    BY <1>7 DEF Surjection
  <2>2. 1 + Cardinality(A(r)) = i
    BY <2>1
  <2> QED BY <1>2, <2>2
<1>9. DOMAIN s = 1..n
  BY DEF OrderCandidates
<1>10. \A i \in 1..n : s[i] \in D /\ Cardinality(A(s[i])) = i - 1
  <2> TAKE i \in 1..n
  <2>1. s[i] = CHOOSE r \in D : Cardinality(A(r)) = i - 1
    BY DEF OrderCandidates
  <2> QED BY <1>8, <2>1
<1>11. \A r \in D : 1 + Cardinality(A(r)) \in 1..n /\ s[1 + Cardinality(A(r))] = r
  <2> TAKE r \in D
  <2>1. 1 + Cardinality(A(r)) \in 1..n /\ (1 + Cardinality(A(r))) - 1 = Cardinality(A(r))
    BY <1>1, <1>2
  <2> QED BY <1>4, <1>10, <2>1
<1>12. \A i, j \in 1..n : s[i] = s[j] => i = j
  <2> SUFFICES ASSUME NEW i \in 1..n, NEW j \in 1..n, s[i] = s[j]
               PROVE  i = j
    OBVIOUS
  <2>1. i - 1 = j - 1
    BY <1>10
  <2> QED BY <1>1, <2>1
<1>13. \A a, b \in D : a \in A(b) => Precedes(s, a, b)
  <2> SUFFICES ASSUME NEW a \in D, NEW b \in D, a \in A(b)
               PROVE  Precedes(s, a, b)
    OBVIOUS
  <2>1. 1 + Cardinality(A(a)) < 1 + Cardinality(A(b))
    BY <1>2, AheadRanks
  <2> QED BY <1>9, <1>11, <2>1 DEF Precedes
<1>14. Lists(s, D)
  <2>1. s = [i \in 1..n |-> s[i]]
    BY DEF OrderCandidates
  <2>2. s \in [1..n -> D]
    BY <1>10, <2>1
  <2> QED BY <1>9, <1>11, <1>12, <2>2 DEF Lists
<1> QED BY <1>13, <1>14

\* The shares of two ranks: the better rank has the larger one, and both count.
LEMMA Shares ==
  ASSUME NEW m \in 1..MaxCandidates, NEW n \in 1..MaxCandidates
  PROVE  /\ (20 * Unit) \div (m + K) \in Nat
         /\ (20 * Unit) \div (m + K) > 0
         /\ m < n => (20 * Unit) \div (m + K) > (20 * Unit) \div (n + K)
<1>1. /\ K \in Nat /\ Unit \in Nat /\ Unit > 0 /\ MaxCandidates \in Nat
      /\ \A r \in 1..MaxCandidates : Unit % (K + r) = 0
  BY RankingAssumption
<1>2. \A r \in 1..MaxCandidates :
        \E c \in Nat : Unit = c * (r + K) /\ c > 0 /\ (20 * Unit) \div (r + K) = 20 * c
  <2> TAKE r \in 1..MaxCandidates
  <2> DEFINE d == r + K
             c == Unit \div d
  <2>1. d \in Nat /\ d > 0 /\ Unit % d = 0
    <3>1. Unit % (K + r) = 0
      BY <1>1
    <3>2. K + r = r + K /\ r + K \in Nat /\ r + K > 0
      BY <1>1
    <3> QED BY <3>1, <3>2
  <2> HIDE DEF d
  <2>2. c \in Int /\ Unit = c * d
    BY <1>1, <2>1
  <2> HIDE DEF c
  <2>3. c > 0
    BY <1>1, <2>1, <2>2
  <2>4. 20 * Unit = (20 * c) * d
    BY <2>1, <2>2
  <2>5. 20 * c \in Int
    BY <2>2
  <2>6. (20 * Unit) \div d = 20 * c
    <3>1. \A q \in Int : (q * d) \div d = q
      BY <2>1
    <3> QED BY <2>4, <2>5, <3>1
  <2> QED BY <2>2, <2>3, <2>6 DEF d
<1>3. PICK c \in Nat : Unit = c * (m + K) /\ c > 0 /\ (20 * Unit) \div (m + K) = 20 * c
  BY <1>2
<1>4. PICK e \in Nat : Unit = e * (n + K) /\ e > 0 /\ (20 * Unit) \div (n + K) = 20 * e
  BY <1>2
<1>5. ASSUME m < n PROVE c > e
  <2>1. SUFFICES ASSUME c <= e PROVE FALSE
    OBVIOUS
  <2> DEFINE x == m + K
             y == n + K
  <2>2. x \in Nat /\ y \in Nat /\ x < y /\ x > 0
    BY <1>1, <1>5
  <2>3. c * x = e * y
    BY <1>3, <1>4
  <2> HIDE DEF x, y
  <2>4. c * x <= e * x
    BY <2>1, <2>2
  <2>5. e * x < e * y
    BY <1>4, <2>2
  <2> QED BY <2>2, <2>3, <2>4, <2>5
<1> QED BY <1>3, <1>4, <1>5

\* What is known of a search before it is ranked.
LEMMA SearchFacts ==
  ASSUME search \in Searches
  PROVE  /\ IsFiniteSet(search.query) /\ IsFiniteSet(search.wanted)
         /\ IsFiniteSet(Candidates) /\ Candidates \subseteq Int
         /\ Cardinality(Candidates) \in Nat
         /\ Cardinality(Candidates) <= MaxCandidates
         /\ MaxCandidates \in Nat
         /\ \A r \in Candidates : search.pool[r].at \in Int
         /\ \A r \in Candidates :
              /\ CosineSimilarity(QueryVector, search.pool[r].staticVec) \in Nat
              /\ CosineSimilarity(QueryVector, search.pool[r].dynamicVec) \in Nat
<1>1. /\ IsFiniteSet(search.query) /\ IsFiniteSet(search.wanted)
      /\ IsFiniteSet(DOMAIN search.pool) /\ DOMAIN search.pool \subseteq Int
      /\ Cardinality(DOMAIN search.pool) <= MaxCandidates
      /\ MaxCandidates \in Nat
      /\ \A r \in DOMAIN search.pool : search.pool[r].at \in Int
  BY RankingAssumption
<1>2. Cardinality(DOMAIN search.pool) \in Nat
  BY <1>1, FS_CardinalityType
<1>3. \A r \in DOMAIN search.pool :
        /\ CosineSimilarity(QueryVector, search.pool[r].staticVec) \in Nat
        /\ CosineSimilarity(QueryVector, search.pool[r].dynamicVec) \in Nat
  BY CosineAssumption
<1> QED BY <1>1, <1>2, <1>3 DEF Candidates

\* The candidates a channel found, with positive scores.
Channel(scores) ==
  /\ Scored(scores)
  /\ DOMAIN scores \subseteq Candidates
  /\ \A r \in DOMAIN scores : scores[r] > 0

\* What makes a channel of a function of scores.
LEMMA ChannelOf ==
  ASSUME search \in Searches, NEW scores, DOMAIN scores \subseteq Candidates,
         \A r \in DOMAIN scores : scores[r] \in Int /\ scores[r] > 0
  PROVE  Channel(scores)
<1>1. DOMAIN scores \in SUBSET Candidates
  OBVIOUS
<1>2. IsFiniteSet(DOMAIN scores)
  BY <1>1, SearchFacts, FS_Subset
<1> QED BY <1>2, SearchFacts DEF Channel, Scored

\* A channel that was not asked.
LEMMA NoChannel ==
  ASSUME search \in Searches
  PROVE  Channel(<<>>)
<1>1. DOMAIN <<>> = {}
  OBVIOUS
<1> QED BY <1>1, ChannelOf

\* Counting terms gives a channel.
LEMMA TextChannel ==
  ASSUME search \in Searches, NEW texts
  PROVE  Channel(ChannelScores(texts))
<1>0. \A v \in Nat : v \in Int
  OBVIOUS
<1>1. \A S : Cardinality(search.query \cap S) \in Nat
  <2> TAKE S
  <2>1. search.query \cap S \in SUBSET search.query
    OBVIOUS
  <2>2. IsFiniteSet(search.query \cap S)
    BY <2>1, SearchFacts, FS_Subset
  <2> QED BY <2>2, FS_CardinalityType
<1>2. Channel(KeywordRelevance(texts))
  <2>1. DOMAIN KeywordRelevance(texts) \subseteq Candidates
    BY DEF KeywordRelevance, Kept
  <2>2. \A r \in DOMAIN KeywordRelevance(texts) :
          /\ KeywordRelevance(texts)[r] = Cardinality(search.query \cap texts[r])
          /\ KeywordRelevance(texts)[r] > 0
    BY DEF KeywordRelevance, Kept
  <2>3. \A r \in DOMAIN KeywordRelevance(texts) : KeywordRelevance(texts)[r] \in Nat
    BY <1>1, <2>2, Zenon
  <2>4. \A r \in DOMAIN KeywordRelevance(texts) :
          KeywordRelevance(texts)[r] \in Int /\ KeywordRelevance(texts)[r] > 0
    BY <1>0, <2>2, <2>3, Zenon
  <2> QED BY <2>1, <2>4, ChannelOf, Zenon
<1>3. Channel(FtsSearch(texts))
  <2>1. DOMAIN FtsSearch(texts) \subseteq Candidates
    BY DEF FtsSearch, Kept
  <2>2. \A r \in DOMAIN FtsSearch(texts) :
          /\ FtsSearch(texts)[r] = Cardinality(search.query \cap Searchable \cap texts[r])
          /\ FtsSearch(texts)[r] > 0
    BY DEF FtsSearch, Kept
  <2>3. \A r : search.query \cap Searchable \cap texts[r]
                 = search.query \cap (Searchable \cap texts[r])
    OBVIOUS
  <2>4. \A r : Cardinality(search.query \cap Searchable \cap texts[r]) \in Nat
    BY <1>1, <2>3
  <2>5. \A r \in DOMAIN FtsSearch(texts) : FtsSearch(texts)[r] \in Nat
    BY <2>2, <2>4, Zenon
  <2>6. \A r \in DOMAIN FtsSearch(texts) :
          FtsSearch(texts)[r] \in Int /\ FtsSearch(texts)[r] > 0
    BY <1>0, <2>2, <2>5, Zenon
  <2> QED BY <2>1, <2>6, ChannelOf, Zenon
<1> QED BY <1>2, <1>3 DEF ChannelScores

\* The two text channels, in use or not.
LEMMA TextChannels ==
  ASSUME search \in Searches
  PROVE  Channel(StaticScores) /\ Channel(DynamicScores)
BY TextChannel, NoChannel DEF StaticScores, DynamicScores

\* So does the cosine.
LEMMA VectorChannels ==
  ASSUME search \in Searches
  PROVE  Channel(StaticVectors) /\ Channel(DynamicVectors)
<1>1. Channel(StaticVectors)
  <2>1. DOMAIN StaticVectors \subseteq Candidates
    BY DEF StaticVectors, VectorChannel, Kept
  <2>2. \A r \in DOMAIN StaticVectors :
          /\ StaticVectors[r] = CosineSimilarity(QueryVector, search.pool[r].staticVec)
          /\ StaticVectors[r] > 0
    BY DEF StaticVectors, VectorChannel, Kept
  <2> QED BY <2>1, <2>2, SearchFacts, ChannelOf
<1>2. Channel(DynamicVectors)
  <2>1. DOMAIN DynamicVectors \subseteq Candidates
    BY DEF DynamicVectors, VectorChannel, Kept
  <2>2. \A r \in DOMAIN DynamicVectors :
          /\ DynamicVectors[r] = CosineSimilarity(QueryVector, search.pool[r].dynamicVec)
          /\ DynamicVectors[r] > 0
    BY DEF DynamicVectors, VectorChannel, Kept
  <2> QED BY <2>1, <2>2, SearchFacts, ChannelOf
<1> QED BY <1>1, <1>2

\* And the better of two channels.
LEMMA CombinedChannel ==
  ASSUME search \in Searches, NEW s, NEW d, Channel(s), Channel(d)
  PROVE  Channel(CombinedVectors(s, d))
<1> DEFINE c == CombinedVectors(s, d)
           Of(r) == {s[x] : x \in {r} \cap DOMAIN s} \cup {d[x] : x \in {r} \cap DOMAIN d}
<1>1. DOMAIN c = DOMAIN s \cup DOMAIN d /\ \A r \in DOMAIN c : c[r] = Max(Of(r))
  BY DEF CombinedVectors
<1>2. \A r \in DOMAIN c : c[r] \in Int /\ c[r] > 0
  <2> TAKE r \in DOMAIN c
  <2>1. \A v \in Of(r) : v \in Int /\ v > 0
    BY DEF Channel, Scored
  <2>2. \E m \in Of(r) : \A v \in Of(r) : m >= v
    <3>1. CASE r \in DOMAIN s /\ r \in DOMAIN d
      <4>1. Of(r) = {s[r], d[r]}
        BY <3>1
      <4>2. s[r] \in Int /\ d[r] \in Int
        BY <3>1 DEF Channel, Scored
      <4> QED BY <4>1, <4>2
    <3>2. CASE r \in DOMAIN s /\ r \notin DOMAIN d
      <4>1. Of(r) = {s[r]}
        BY <3>2
      <4>2. s[r] \in Int
        BY <3>2 DEF Channel, Scored
      <4> QED BY <4>1, <4>2
    <3>3. CASE r \notin DOMAIN s /\ r \in DOMAIN d
      <4>1. Of(r) = {d[r]}
        BY <3>3
      <4>2. d[r] \in Int
        BY <3>3 DEF Channel, Scored
      <4> QED BY <4>1, <4>2
    <3> QED BY <1>1, <3>1, <3>2, <3>3
  <2> HIDE DEF Of
  <2>3. Max(Of(r)) \in Of(r)
    BY <2>2 DEF Max
  <2> QED BY <1>1, <2>1, <2>3
<1>3. DOMAIN c \subseteq Candidates
  BY <1>1 DEF Channel
<1> QED BY <1>2, <1>3, ChannelOf

-----------------------------------------------------------------------------
\* What a record gets for its rank in one channel.
LEMMA ComponentType ==
  ASSUME search \in Searches, NEW scores, Scored(scores), DOMAIN scores \subseteq Candidates
  PROVE  /\ \A r \in DOMAIN scores :
              /\ ToRankMap(scores)[r] \in 1..MaxCandidates
              /\ Component(ToRankMap(scores), r)
                   = (20 * Unit) \div (ToRankMap(scores)[r] + K)
         /\ \A r : r \notin DOMAIN scores => Component(ToRankMap(scores), r) = 0
         /\ \A r : Component(ToRankMap(scores), r) \in Nat
<1> DEFINE m == ToRankMap(scores)
<1>1. DOMAIN m = DOMAIN scores
      /\ \A r \in DOMAIN scores : m[r] = 1 + Cardinality(Ahead(scores, r))
  BY DEF ToRankMap
<1>2. Cardinality(DOMAIN scores) \in Nat /\ Cardinality(DOMAIN scores) <= MaxCandidates
  <2>1. DOMAIN scores \in SUBSET Candidates
    OBVIOUS
  <2>2. Cardinality(DOMAIN scores) <= Cardinality(Candidates)
    BY <2>1, SearchFacts, FS_Subset
  <2>3. Cardinality(DOMAIN scores) \in Nat
    BY FS_CardinalityType DEF Scored
  <2> QED BY <2>2, <2>3, SearchFacts
<1>3. \A r \in DOMAIN scores : m[r] \in 1..MaxCandidates
  <2> TAKE r \in DOMAIN scores
  <2>1. Cardinality(Ahead(scores, r)) \in 0..(Cardinality(DOMAIN scores) - 1)
    BY AheadRanks
  <2> QED BY <1>1, <1>2, <2>1, SearchFacts
<1>4. \A r \in DOMAIN scores : Component(m, r) = (20 * Unit) \div (m[r] + K)
  <2> TAKE r \in DOMAIN scores
  <2>1. m[r] # 0
    BY <1>3
  <2> QED BY <1>1, <2>1 DEF Component
<1>5. \A r : r \notin DOMAIN scores => Component(m, r) = 0
  BY <1>1 DEF Component
<1>6. \A r \in DOMAIN scores : Component(m, r) \in Nat
  BY <1>3, <1>4, Shares
<1> QED BY <1>3, <1>4, <1>5, <1>6

\* A better match in a channel earns more there.
LEMMA ComponentBeats ==
  ASSUME search \in Searches, NEW scores, Channel(scores), NEW a, NEW b
  PROVE  /\ ScoreAt(scores, a) > ScoreAt(scores, b) =>
              Component(ToRankMap(scores), a) > Component(ToRankMap(scores), b)
         /\ ScoreAt(scores, a) = 0 /\ ScoreAt(scores, b) = 0 =>
              Component(ToRankMap(scores), a) = Component(ToRankMap(scores), b)
<1> DEFINE m == ToRankMap(scores)
<1>1. Scored(scores) /\ DOMAIN scores \subseteq Candidates
  BY DEF Channel
<1>2. \A r \in DOMAIN scores : /\ m[r] \in 1..MaxCandidates
                               /\ Component(m, r) = (20 * Unit) \div (m[r] + K)
  BY <1>1, ComponentType
<1>3. \A r : r \notin DOMAIN scores => Component(m, r) = 0 /\ ScoreAt(scores, r) = 0
  BY <1>1, ComponentType DEF ScoreAt
<1>4. \A r \in DOMAIN scores :
        ScoreAt(scores, r) = scores[r] /\ scores[r] \in Int /\ scores[r] > 0
  BY DEF ScoreAt, Channel, Scored
<1>5. ASSUME ScoreAt(scores, a) > ScoreAt(scores, b)
      PROVE  Component(m, a) > Component(m, b)
  <2>1. a \in DOMAIN scores
    BY <1>3, <1>4, <1>5
  <2>2. CASE b \in DOMAIN scores
    <3>1. a \in Ahead(scores, b)
      BY <1>4, <1>5, <2>1, <2>2 DEF Ahead
    <3>2. /\ Cardinality(Ahead(scores, a)) < Cardinality(Ahead(scores, b))
          /\ Cardinality(Ahead(scores, a)) \in 0..(Cardinality(DOMAIN scores) - 1)
          /\ Cardinality(Ahead(scores, b)) \in 0..(Cardinality(DOMAIN scores) - 1)
      BY <1>1, <2>1, <2>2, <3>1, AheadRanks
    <3>3. /\ m[a] = 1 + Cardinality(Ahead(scores, a))
          /\ m[b] = 1 + Cardinality(Ahead(scores, b))
      BY <2>1, <2>2 DEF ToRankMap
    <3>4. m[a] < m[b]
      BY <3>2, <3>3
    <3> QED BY <1>2, <2>1, <2>2, <3>4, Shares
  <2>3. CASE b \notin DOMAIN scores
    BY <1>2, <1>3, <2>1, <2>3, Shares
  <2> QED BY <2>2, <2>3
<1>6. ASSUME ScoreAt(scores, a) = 0, ScoreAt(scores, b) = 0
      PROVE  Component(m, a) = Component(m, b)
  BY <1>3, <1>4, <1>6
<1> QED BY <1>5, <1>6

-----------------------------------------------------------------------------
(* The fused order. *)

Found == DOMAIN StaticScores \cup DOMAIN DynamicScores \cup DOMAIN cosines
Ids == IF search.query # {} /\ Found # {} THEN Found ELSE Candidates

\* The boosts are numbers.
LEMMA BoostType ==
  ASSUME search \in Searches, NEW r
  PROVE  TagBoost(r) \in Nat /\ ScaleBoostOf(r) \in Nat
<1> DEFINE hit == search.wanted \cap search.pool[r].tags
<1>1. hit \in SUBSET search.wanted
  OBVIOUS
<1>2. IsFiniteSet(hit)
  BY <1>1, SearchFacts, FS_Subset
<1>3. Cardinality(hit) \in Nat
  BY <1>2, FS_CardinalityType
<1>4. TagBoost(r) = Lower(4, Cardinality(hit))
  BY DEF TagBoost, MaxTagBoost
<1> HIDE DEF hit
<1>5. TagBoost(r) \in Nat
  BY <1>3, <1>4 DEF Lower
<1>6. ScaleBoostOf(r) \in {0, 2}
  BY DEF ScaleBoostOf, Lower, MaxScaleBoost, ScaleBoost
<1> QED BY <1>5, <1>6

\* The fused score is a number.
LEMMA FusedScore ==
  ASSUME search \in Searches, NEW ids, NEW s, NEW d, NEW v, NEW r \in ids,
         Component(s, r) \in Nat, Component(d, r) \in Nat, Component(v, r) \in Nat
  PROVE  \A boosted \in BOOLEAN : RrfFuse(ids, s, d, v, boosted)[r] \in Nat
<1>1. Unit \in Nat
  BY RankingAssumption
<1>2. TagBoost(r) + ScaleBoostOf(r) \in Nat
  BY BoostType
<1>3. Unit * (TagBoost(r) + ScaleBoostOf(r)) \in Nat
  BY <1>1, <1>2
<1>4. RrfFuse(ids, s, d, v, TRUE)[r] =
        Component(s, r) + Component(d, r) + Component(v, r)
          + Unit * (TagBoost(r) + ScaleBoostOf(r))
  BY DEF RrfFuse
<1>5. RrfFuse(ids, s, d, v, FALSE)[r] =
        Component(s, r) + Component(d, r) + Component(v, r) + 0
  BY DEF RrfFuse
<1> DEFINE whole == RrfFuse(ids, s, d, v, TRUE)[r]
           bare == RrfFuse(ids, s, d, v, FALSE)[r]
<1>6. \A x, y, z, u \in Nat : x + y + z + u \in Nat
  OBVIOUS
<1>7. whole \in Nat /\ bare \in Nat
  <2> HIDE DEF whole, bare
  <2>1. whole = Component(s, r) + Component(d, r) + Component(v, r)
                  + Unit * (TagBoost(r) + ScaleBoostOf(r))
    BY <1>4 DEF whole
  <2>2. bare = Component(s, r) + Component(d, r) + Component(v, r) + 0
    BY <1>5 DEF bare
  <2>3. 0 \in Nat
    OBVIOUS
  <2> QED BY <1>3, <1>6, <2>1, <2>2, <2>3, Zenon
<1> QED BY <1>7

\* Without a query every candidate is listed.
LEMMA TimeOrder ==
  ASSUME search \in Searches
  PROVE  Lists(RankByTime, Candidates)
<1> DEFINE ages == [r \in Candidates |-> -search.pool[r].at]
           fused == RrfFuse(Candidates, ToRankMap(ages), <<>>, <<>>, FALSE)
<1>1. \A r \in Candidates : ages[r] \in Int
  BY SearchFacts
<1>2. DOMAIN ages = Candidates
  OBVIOUS
<1>3. Scored(ages)
  BY <1>1, <1>2, SearchFacts DEF Scored
<1> HIDE DEF ages
<1>4. \A r : Component(ToRankMap(ages), r) \in Nat
  BY <1>2, <1>3, ComponentType
<1>5. \A r : Component(<<>>, r) \in Nat
  BY DEF Component
<1>6. \A r \in Candidates : fused[r] \in Nat
  BY <1>4, <1>5, FusedScore
<1>7. DOMAIN fused = Candidates
  BY DEF RrfFuse
<1> HIDE DEF fused
<1>8. Scored(fused)
  BY <1>6, <1>7, SearchFacts DEF Scored
<1>9. RankByTime = OrderCandidates(fused)
  BY DEF RankByTime, fused, ages
<1> QED BY <1>7, <1>8, <1>9, OrderLists

\* With one, what was found is listed and the better match comes first.
LEMMA QueryOrder ==
  ASSUME search \in Searches, Channel(cosines), search.query # {}
  PROVE  /\ Lists(RankByQuery(cosines), Ids)
         /\ \A a, b \in Ids : Dominates(a, b) => Precedes(RankByQuery(cosines), a, b)
<1> DEFINE s == ToRankMap(StaticScores)
           d == ToRankMap(DynamicScores)
           v == ToRankMap(cosines)
           fused == RrfFuse(Ids, s, d, v, TRUE)
<1>1. Channel(StaticScores) /\ Channel(DynamicScores)
  BY TextChannels
<1>2. /\ Scored(StaticScores) /\ DOMAIN StaticScores \subseteq Candidates
      /\ Scored(DynamicScores) /\ DOMAIN DynamicScores \subseteq Candidates
      /\ Scored(cosines) /\ DOMAIN cosines \subseteq Candidates
  BY <1>1 DEF Channel
<1>3. DOMAIN s = DOMAIN StaticScores /\ DOMAIN d = DOMAIN DynamicScores
      /\ DOMAIN v = DOMAIN cosines
  BY DEF ToRankMap
<1>4. RankByQuery(cosines) = OrderCandidates(fused)
  <2>1. Ids = IF DOMAIN s \cup DOMAIN d \cup DOMAIN v # {}
              THEN DOMAIN s \cup DOMAIN d \cup DOMAIN v ELSE Candidates
    BY <1>3 DEF Ids, Found
  <2> QED BY <2>1 DEF RankByQuery
<1>5. /\ \A r : Component(s, r) \in Nat
      /\ \A r : Component(d, r) \in Nat
      /\ \A r : Component(v, r) \in Nat
  BY <1>2, ComponentType
<1>6. Ids \subseteq Candidates
  BY <1>2 DEF Ids, Found
<1>7. DOMAIN fused = Ids
  BY DEF RrfFuse
<1>8. \A r \in Ids : fused[r] \in Nat
  <2> TAKE r \in Ids
  <2>1. Component(s, r) \in Nat /\ Component(d, r) \in Nat /\ Component(v, r) \in Nat
    BY <1>5
  <2> HIDE DEF s, d, v
  <2>2. \A boosted \in BOOLEAN : RrfFuse(Ids, s, d, v, boosted)[r] \in Nat
    BY <2>1, FusedScore
  <2> QED BY <2>2
<1>0. \A r \in Ids :
        fused[r] = Component(s, r) + Component(d, r) + Component(v, r)
                     + Unit * (TagBoost(r) + ScaleBoostOf(r))
  BY DEF RrfFuse
<1> HIDE DEF fused
<1>9. Scored(fused)
  <2>1. Ids \in SUBSET Candidates
    BY <1>6
  <2>2. IsFiniteSet(Ids)
    BY <2>1, SearchFacts, FS_Subset
  <2>3. Ids \subseteq Int
    BY <1>6, SearchFacts
  <2>4. \A x \in Nat : x \in Int
    OBVIOUS
  <2> QED BY <1>7, <1>8, <2>2, <2>3, <2>4, Zenon DEF Scored
<1>10. ASSUME NEW a \in Ids, NEW b \in Ids, Dominates(a, b)
       PROVE  fused[a] > fused[b]
  <2> DEFINE Gain(m) == Component(m, a) - Component(m, b)
  <2>1. /\ ScoreAt(StaticScores, a) > ScoreAt(StaticScores, b)
           \/ (ScoreAt(StaticScores, a) = 0 /\ ScoreAt(StaticScores, b) = 0)
        /\ ScoreAt(DynamicScores, a) > ScoreAt(DynamicScores, b)
           \/ (ScoreAt(DynamicScores, a) = 0 /\ ScoreAt(DynamicScores, b) = 0)
        /\ ScoreAt(cosines, a) > ScoreAt(cosines, b)
           \/ (ScoreAt(cosines, a) = 0 /\ ScoreAt(cosines, b) = 0)
        /\ \/ ScoreAt(StaticScores, a) > ScoreAt(StaticScores, b)
           \/ ScoreAt(DynamicScores, a) > ScoreAt(DynamicScores, b)
           \/ ScoreAt(cosines, a) > ScoreAt(cosines, b)
        /\ TagBoost(a) >= TagBoost(b)
        /\ ScaleBoostOf(a) >= ScaleBoostOf(b)
    BY <1>10 DEF Dominates
  <2>2. /\ ScoreAt(StaticScores, a) > ScoreAt(StaticScores, b) =>
             Component(s, a) > Component(s, b)
        /\ ScoreAt(StaticScores, a) = 0 /\ ScoreAt(StaticScores, b) = 0 =>
             Component(s, a) = Component(s, b)
    BY <1>1, ComponentBeats
  <2>3. /\ ScoreAt(DynamicScores, a) > ScoreAt(DynamicScores, b) =>
             Component(d, a) > Component(d, b)
        /\ ScoreAt(DynamicScores, a) = 0 /\ ScoreAt(DynamicScores, b) = 0 =>
             Component(d, a) = Component(d, b)
    BY <1>1, ComponentBeats
  <2>4. /\ ScoreAt(cosines, a) > ScoreAt(cosines, b) =>
             Component(v, a) > Component(v, b)
        /\ ScoreAt(cosines, a) = 0 /\ ScoreAt(cosines, b) = 0 =>
             Component(v, a) = Component(v, b)
    BY ComponentBeats
  <2>5. /\ Component(s, a) \in Nat /\ Component(s, b) \in Nat
        /\ Component(d, a) \in Nat /\ Component(d, b) \in Nat
        /\ Component(v, a) \in Nat /\ Component(v, b) \in Nat
    BY <1>5
  <2>6. /\ Component(s, a) > Component(s, b) \/ Component(s, a) = Component(s, b)
        /\ Component(d, a) > Component(d, b) \/ Component(d, a) = Component(d, b)
        /\ Component(v, a) > Component(v, b) \/ Component(v, a) = Component(v, b)
        /\ \/ Component(s, a) > Component(s, b)
           \/ Component(d, a) > Component(d, b)
           \/ Component(v, a) > Component(v, b)
    BY ONLY <2>1, <2>2, <2>3, <2>4
  <2>7. Component(s, a) + Component(d, a) + Component(v, a)
          > Component(s, b) + Component(d, b) + Component(v, b)
    BY ONLY <2>5, <2>6
  <2>8. Unit * (TagBoost(a) + ScaleBoostOf(a)) \in Nat
        /\ Unit * (TagBoost(b) + ScaleBoostOf(b)) \in Nat
        /\ Unit * (TagBoost(a) + ScaleBoostOf(a)) >= Unit * (TagBoost(b) + ScaleBoostOf(b))
    <3>1. Unit \in Nat
      BY RankingAssumption
    <3>2. /\ TagBoost(a) \in Nat /\ ScaleBoostOf(a) \in Nat
          /\ TagBoost(b) \in Nat /\ ScaleBoostOf(b) \in Nat
      BY BoostType
    <3>3. /\ TagBoost(a) + ScaleBoostOf(a) \in Nat
          /\ TagBoost(b) + ScaleBoostOf(b) \in Nat
          /\ TagBoost(a) + ScaleBoostOf(a) >= TagBoost(b) + ScaleBoostOf(b)
      BY ONLY <2>1, <3>2
    <3>4. \A x, y \in Nat : x >= y => Unit * x \in Nat /\ Unit * y \in Nat
                                      /\ Unit * x >= Unit * y
      BY ONLY <3>1
    <3> QED BY ONLY <3>3, <3>4
  <2>9. fused[a] = Component(s, a) + Component(d, a) + Component(v, a)
                     + Unit * (TagBoost(a) + ScaleBoostOf(a))
        /\ fused[b] = Component(s, b) + Component(d, b) + Component(v, b)
                     + Unit * (TagBoost(b) + ScaleBoostOf(b))
    BY <1>0
  <2> QED BY ONLY <2>5, <2>7, <2>8, <2>9
<1>11. \A a, b \in Ids : fused[a] > fused[b] => a \in Ahead(fused, b)
  BY <1>7 DEF Ahead
<1> QED BY <1>4, <1>7, <1>9, <1>10, <1>11, OrderLists

-----------------------------------------------------------------------------
(* The cross-encoder. *)

\* A list of a set is a sequence as long as the set is large.
LEMMA ListIsSequence ==
  ASSUME NEW S, IsFiniteSet(S), NEW s, Lists(s, S)
  PROVE  /\ Cardinality(S) \in Nat /\ s \in Seq(S) /\ Len(s) = Cardinality(S)
         /\ DOMAIN s = 1..Cardinality(S)
<1>1. Cardinality(S) \in Nat
  BY FS_CardinalityType
<1>2. s \in [1..Cardinality(S) -> S]
  BY DEF Lists
<1>3. s \in Seq(S)
  BY <1>1, <1>2
<1>4. DOMAIN s = 1..Cardinality(S)
  BY <1>2
<1>5. Len(s) = Cardinality(S)
  BY <1>1, <1>3, <1>4
<1> QED BY <1>1, <1>3, <1>4, <1>5

\* What the reranker makes of a list whose first k elements it is given.
Reordered(s, k, body) ==
  OrderCandidates(ParseRerank(body, SubSeq(s, 1, k))) \o SubSeq(s, k + 1, Len(s))

\* Whatever part of the documents is scored, the head is permuted, the rest
\* stays, and of two scored ones the higher comes first.
LEMMA ReorderedLists ==
  ASSUME NEW S, IsFiniteSet(S), S \subseteq Int, NEW s, Lists(s, S),
         NEW k \in 0..Cardinality(S),
         NEW body, \A i \in DOMAIN body : body[i] \in Int
  PROVE  LET t == Reordered(s, k, body)
         IN /\ Lists(t, S)
            /\ {t[i] : i \in 1..k} = {s[i] : i \in 1..k}
            /\ \A i \in DOMAIN t \ (1..k) : t[i] = s[i]
            /\ \A i, j \in DOMAIN body \cap (1..k) :
                 body[i] > body[j] => Precedes(t, s[i], s[j])
<1> DEFINE n == Cardinality(S)
           top == SubSeq(s, 1, k)
           below == SubSeq(s, k + 1, Len(s))
           H == {s[i] : i \in 1..k}
           parsed == ParseRerank(body, top)
           head == OrderCandidates(parsed)
           t == Reordered(s, k, body)
<1>1. n \in Nat /\ s \in Seq(S) /\ Len(s) = n /\ DOMAIN s = 1..n /\ k \in 0..n
  BY ListIsSequence
<1>2. /\ \A i \in 1..n : s[i] \in S
      /\ \A i, j \in 1..n : s[i] = s[j] => i = j
      /\ \A r \in S : \E i \in 1..n : s[i] = r
  BY <1>1 DEF Lists
<1>3. top \in Seq(S) /\ Len(top) = k /\ DOMAIN top = 1..k /\ \A i \in 1..k : top[i] = s[i]
  BY <1>1
<1>4. /\ below \in Seq(S) /\ Len(below) = n - k
      /\ \A i \in 1..(n - k) : below[i] = s[k + i]
  BY <1>1
<1> HIDE DEF top, below
<1>5. DOMAIN parsed = H
  BY <1>3 DEF ParseRerank
<1>6. \A i \in 1..k : s[i] \in H /\ parsed[s[i]] = IF i \in DOMAIN body THEN body[i] ELSE 0
  <2> TAKE i \in 1..k
  <2>1. s[i] \in H
    OBVIOUS
  <2>2. \A j \in 1..k : top[j] = s[i] => j = i
    BY <1>1, <1>2, <1>3
  <2>3. (CHOOSE j \in DOMAIN top : top[j] = s[i]) = i
    BY <1>3, <2>2
  <2>4. H = {top[j] : j \in DOMAIN top}
    BY <1>3
  <2>5. parsed[s[i]] = LET j == CHOOSE j \in DOMAIN top : top[j] = s[i]
                       IN IF j \in DOMAIN body THEN body[j] ELSE 0
    BY <2>1, <2>4 DEF ParseRerank
  <2> QED BY <2>1, <2>3, <2>5
<1> HIDE DEF parsed
<1>7. H \subseteq S /\ IsFiniteSet(H)
  <2>1. \A i \in 1..k : i \in 1..n
    BY <1>1
  <2>2. H \in SUBSET S
    BY <1>2, <2>1
  <2> QED BY <2>2, FS_Subset
<1>8. Cardinality(H) = k
  <2> DEFINE f == [i \in 1..k |-> s[i]]
  <2>1. f \in Bijection(1..k, H)
    <3>1. f \in [1..k -> H]
      OBVIOUS
    <3>2. \A i, j \in 1..k : f[i] = f[j] => i = j
      BY <1>1, <1>2
    <3>3. \A r \in H : \E i \in 1..k : f[i] = r
      OBVIOUS
    <3> HIDE DEF f
    <3> QED BY <3>1, <3>2, <3>3 DEF Bijection, Injection, Surjection, IsInjective
  <2>2. IsFiniteSet(1..k) /\ Cardinality(1..k) = k
    <3>1. 1 \in Int /\ k \in Int /\ k >= 0
      BY <1>1
    <3> QED BY ONLY <3>1, FS_Interval
  <2>3. ExistsBijection(1..k, H)
    BY <2>1 DEF ExistsBijection
  <2> QED BY <1>7, <2>2, <2>3, FS_Bijection
<1>9. Scored(parsed)
  <2>1. \A r \in H : parsed[r] \in Int
    BY <1>6
  <2> QED BY <1>5, <1>7, <2>1 DEF Scored
<1>10. Lists(head, H) /\ \A a, b \in H : a \in Ahead(parsed, b) => Precedes(head, a, b)
  BY <1>5, <1>9, OrderLists
<1> HIDE DEF head
<1>11. head \in Seq(H) /\ Len(head) = k /\ DOMAIN head = 1..k
  BY <1>7, <1>8, <1>10, ListIsSequence
<1>12. /\ \A i \in 1..k : head[i] \in H
       /\ \A i, j \in 1..k : head[i] = head[j] => i = j
       /\ \A r \in H : \E i \in 1..k : head[i] = r
  BY <1>8, <1>10, <1>11 DEF Lists
<1>13. t = head \o below
  BY DEF Reordered, head, parsed, top, below
<1> HIDE DEF t
<1>14. head \in Seq(S)
  BY <1>7, <1>11
<1>15. t \in Seq(S) /\ Len(t) = n
  BY <1>1, <1>4, <1>11, <1>13, <1>14
<1>16. \A i \in 1..k : t[i] = head[i]
  BY <1>1, <1>4, <1>11, <1>13, <1>14
<1>17. \A i \in (k + 1)..n : t[i] = s[i]
  <2> TAKE i \in (k + 1)..n
  <2>1. t[i] = below[i - k]
    <3>1. i \in 1..(Len(head) + Len(below)) /\ ~(i <= Len(head)) /\ Len(head) = k
      BY <1>1, <1>4, <1>11
    <3>2. t[i] = IF i <= Len(head) THEN head[i] ELSE below[i - Len(head)]
      BY <1>4, <1>13, <1>14, <3>1, ConcatProperties
    <3> QED BY ONLY <3>1, <3>2
  <2>2. i - k \in 1..(n - k) /\ k + (i - k) = i
    BY <1>1
  <2> QED BY <1>4, <2>1, <2>2
<1>18. \A i \in 1..n : i \in 1..k \/ i \in (k + 1)..n
  BY <1>1
<1>19. \A i \in (k + 1)..n : s[i] \notin H
  <2>1. \A i \in (k + 1)..n : \A j \in 1..k : i \in 1..n /\ j \in 1..n /\ i # j
    BY <1>1
  <2> QED BY <1>2, <2>1
<1>20. Lists(t, S)
  <2>1. t \in [1..n -> S]
    BY <1>15
  <2>2. \A i, j \in 1..n : t[i] = t[j] => i = j
    <3> SUFFICES ASSUME NEW i \in 1..n, NEW j \in 1..n, t[i] = t[j]
                 PROVE  i = j
      OBVIOUS
    <3>1. CASE i \in 1..k /\ j \in 1..k
      BY <1>12, <1>16, <3>1
    <3>2. CASE i \in 1..k /\ j \in (k + 1)..n
      BY <1>12, <1>16, <1>17, <1>19, <3>2
    <3>3. CASE i \in (k + 1)..n /\ j \in 1..k
      BY <1>12, <1>16, <1>17, <1>19, <3>3
    <3>4. CASE i \in (k + 1)..n /\ j \in (k + 1)..n
      BY <1>2, <1>17, <3>4
    <3> QED BY <1>18, <3>1, <3>2, <3>3, <3>4
  <2>3. \A r \in S : \E i \in 1..n : t[i] = r
    <3> TAKE r \in S
    <3>1. PICK i \in 1..n : s[i] = r
      BY <1>2
    <3>2. CASE i \in (k + 1)..n
      BY <1>17, <3>1, <3>2
    <3>3. CASE i \in 1..k
      <4>1. r \in H
        BY <3>1, <3>3
      <4>2. PICK j \in 1..k : head[j] = r
        BY <1>12, <4>1
      <4>3. j \in 1..n
        BY <1>1
      <4> QED BY <1>16, <4>2, <4>3
    <3> QED BY <1>18, <3>2, <3>3
  <2>4. DOMAIN t = 1..n
    BY <2>1
  <2> QED BY <2>1, <2>2, <2>3, <2>4 DEF Lists
<1>21. {t[i] : i \in 1..k} = H
  <2>1. \A i \in 1..k : t[i] \in H
    BY <1>12, <1>16
  <2>2. \A r \in H : \E i \in 1..k : t[i] = r
    BY <1>12, <1>16
  <2> HIDE DEF H
  <2> QED BY <2>1, <2>2
<1>22. \A i \in DOMAIN t \ (1..k) : t[i] = s[i]
  BY <1>15, <1>17, <1>18
<1>23. ASSUME NEW i \in DOMAIN body \cap (1..k), NEW j \in DOMAIN body \cap (1..k),
              body[i] > body[j]
       PROVE  Precedes(t, s[i], s[j])
  <2>1. /\ s[i] \in H /\ parsed[s[i]] = body[i]
        /\ s[j] \in H /\ parsed[s[j]] = body[j]
    BY <1>6
  <2>2. s[i] \in Ahead(parsed, s[j])
    BY <1>5, <1>23, <2>1 DEF Ahead
  <2>3. Precedes(head, s[i], s[j])
    BY <1>10, <2>1, <2>2
  <2>4. PICK p, q \in 1..k : p < q /\ head[p] = s[i] /\ head[q] = s[j]
    BY <1>11, <2>3 DEF Precedes
  <2>5. p \in DOMAIN t /\ q \in DOMAIN t
    BY <1>1, <1>15
  <2>6. t[p] = s[i] /\ t[q] = s[j] /\ p < q
    BY <1>16, <2>4
  <2> QED BY <2>5, <2>6 DEF Precedes
<1> QED BY <1>20, <1>21, <1>22, <1>23 DEF t

-----------------------------------------------------------------------------
(* The invariant of a search. *)

RankedOK ==
  /\ Lists(ranked, Ids)
  /\ search.query # {} => \A a, b \in Ids : Dominates(a, b) => Precedes(ranked, a, b)

AnswerOK ==
  /\ Lists(results, Ids)
  /\ {results[i] : i \in DOMAIN Top} = {ranked[i] : i \in DOMAIN Top}
  /\ \A i \in DOMAIN results \ DOMAIN Top : results[i] = ranked[i]
  /\ \A i, j \in DOMAIN reply \cap DOMAIN Top :
       reply[i] > reply[j] => Precedes(results, ranked[i], ranked[j])
  /\ reply = <<>> /\ tried = RerankTries => results = ranked

RankInv ==
  /\ search \in Searches
  /\ stage \in {"rank", "rerank", "answered"}
  /\ stage = "rank" => tried = 0 /\ reply = <<>>
  /\ stage # "rank" => Channel(cosines) /\ RankedOK
  /\ stage = "rerank" => reply = <<>> /\ tried \in Nat /\ tried < RerankTries
  /\ stage = "answered" => AnswerOK

\* What is ranked is finite and numbered.
LEMMA IdsAreCandidates ==
  ASSUME search \in Searches, Channel(cosines)
  PROVE  Ids \subseteq Int /\ IsFiniteSet(Ids)
<1>1. Ids \in SUBSET Candidates
  BY TextChannels DEF Ids, Found, Channel
<1> QED BY <1>1, SearchFacts, FS_Subset

\* How many documents the reranker is given.
LEMMA TopIsHead ==
  ASSUME search \in Searches, Channel(cosines), Lists(ranked, Ids)
  PROVE  /\ Lower(TopN, Len(ranked)) \in 0..Cardinality(Ids)
         /\ DOMAIN Top = 1..Lower(TopN, Len(ranked))
<1> DEFINE k == Lower(TopN, Len(ranked))
<1>1. Cardinality(Ids) \in Nat /\ ranked \in Seq(Ids) /\ Len(ranked) = Cardinality(Ids)
  BY IdsAreCandidates, ListIsSequence
<1>2. k \in 0..Len(ranked)
  BY <1>1, RankingAssumption DEF Lower
<1> HIDE DEF k
<1>3. DOMAIN SubSeq(ranked, 1, k) = 1..k
  BY <1>1, <1>2
<1> QED BY <1>1, <1>2, <1>3 DEF Top, k

\* The order is kept: no reranker, no answer of it.
LEMMA KeptOrder ==
  ASSUME search \in Searches, Channel(cosines), RankedOK, reply = <<>>, results = ranked
  PROVE  AnswerOK
<1>1. DOMAIN reply = {}
  OBVIOUS
<1> QED BY <1>1 DEF AnswerOK, RankedOK

\* A search that has just come in.
LEMMA RankInvInit == RankInit => RankInv
BY DEF RankInit, RankInv

\* The first step of a search.
LEMMA RankKeeps ==
  ASSUME RankInv, Rank
  PROVE  RankInv'
<1>1. search \in Searches /\ search' = search /\ stage' = "rerank" /\ tried' = tried
      /\ reply' = reply /\ tried = 0 /\ reply = <<>>
  BY DEF RankInv, Rank
<1>2. Channel(cosines')
  <2>1. PICK asked \in SUBSET {"static", "dynamic"} :
          cosines' = CombinedVectors(
                       IF "static" \in asked THEN StaticVectors ELSE <<>>,
                       IF "dynamic" \in asked THEN DynamicVectors ELSE <<>>)
    BY DEF Rank
  <2> DEFINE s == IF "static" \in asked THEN StaticVectors ELSE <<>>
             d == IF "dynamic" \in asked THEN DynamicVectors ELSE <<>>
  <2>2. Channel(s) /\ Channel(d)
    BY <1>1, VectorChannels, NoChannel
  <2>3. cosines' = CombinedVectors(s, d)
    BY <2>1
  <2> HIDE DEF s, d
  <2>4. Channel(CombinedVectors(s, d))
    BY <1>1, <2>2, CombinedChannel
  <2> QED BY <2>3, <2>4
<1>3. Candidates' = Candidates
  BY <1>1 DEF Candidates
<1>4. Channel(cosines)'
  BY <1>2, <1>3 DEF Channel, Scored
<1>5. (search \in Searches)'
  BY <1>1
<1>6. CASE search.query = {}
  <2>1. ranked' = RankByTime
    BY <1>6 DEF Rank
  <2>2. Lists(RankByTime, Candidates)
    BY <1>1, TimeOrder
  <2>3. Ids' = Candidates
    BY <1>1, <1>3, <1>6 DEF Ids
  <2>4. RankedOK'
    BY <1>1, <1>6, <2>1, <2>2, <2>3 DEF RankedOK, Lists
  <2> QED BY <1>1, <1>4, <2>4, RankingAssumption DEF RankInv
<1>7. CASE search.query # {}
  <2>1. ranked' = RankByQuery(cosines')
    BY <1>7 DEF Rank
  <2>2. RankByQuery(cosines)' = RankByQuery(cosines')
    BY <1>1 DEF RankByQuery, RrfFuse, TagBoost, ScaleBoostOf, StaticScores, DynamicScores,
              ChannelScores, FtsSearch, KeywordRelevance, Kept, Candidates, UsesStatic,
              UsesDynamic, StaticText, DynamicText
  <2>3. (search.query # {})'
    BY <1>1, <1>7
  <2>4. (/\ Lists(RankByQuery(cosines), Ids)
         /\ \A a, b \in Ids : Dominates(a, b) => Precedes(RankByQuery(cosines), a, b))'
    BY <1>4, <1>5, <2>3, QueryOrder, PTL
  <2>5. RankedOK'
    BY <2>1, <2>2, <2>4 DEF RankedOK
  <2> QED BY <1>1, <1>4, <2>5, RankingAssumption DEF RankInv
<1> QED BY <1>6, <1>7

\* The fused order and what it is about do not change any more.
LEMMA OrderStays ==
  ASSUME search \in Searches, Channel(cosines), UNCHANGED <<search, cosines, ranked>>
  PROVE  /\ (search \in Searches)' /\ Channel(cosines)' /\ Ids' = Ids /\ Top' = Top
         /\ RankedOK => RankedOK'
<1>1. Candidates' = Candidates
  BY DEF Candidates
<1>2. StaticScores' = StaticScores /\ DynamicScores' = DynamicScores
  BY DEF StaticScores, DynamicScores, ChannelScores, FtsSearch, KeywordRelevance,
         Kept, Candidates, UsesStatic, UsesDynamic, StaticText, DynamicText
<1>3. Ids' = Ids
  BY <1>1, <1>2 DEF Ids, Found
<1>4. \A a, b : Dominates(a, b)' <=> Dominates(a, b)
  BY <1>2 DEF Dominates, TagBoost, ScaleBoostOf
<1> QED BY <1>1, <1>3, <1>4 DEF Channel, RankedOK, Top

\* The steps after it.
LEMMA AnswerKeeps ==
  ASSUME RankInv, SkipRerank \/ RerankFails \/ RerankMalformed \/ RerankAnswers
  PROVE  RankInv'
<1>1. /\ search \in Searches /\ stage = "rerank" /\ Channel(cosines) /\ RankedOK
      /\ reply = <<>> /\ tried \in Nat /\ tried < RerankTries
  BY DEF RankInv, SkipRerank, RerankFails, RerankMalformed, RerankAnswers
<1>2. UNCHANGED <<search, cosines, ranked>>
  BY DEF SkipRerank, RerankFails, RerankMalformed, RerankAnswers
<1>3. (search \in Searches)' /\ Channel(cosines)' /\ Ids' = Ids /\ RankedOK' /\ Top' = Top
  BY <1>1, <1>2, OrderStays
<1>4. CASE SkipRerank \/ RerankMalformed
  <2>1. stage' = "answered" /\ results' = ranked /\ reply' = reply /\ tried' = tried
    BY <1>4 DEF SkipRerank, RerankMalformed
  <2>2. (reply = <<>>)' /\ (results = ranked)'
    BY <1>1, <1>2, <2>1
  <2>3. AnswerOK'
    BY <1>3, <2>2, KeptOrder, PTL
  <2> QED BY <1>3, <2>1, <2>3 DEF RankInv
<1>5. CASE RerankFails
  <2>1. reply' = reply /\ tried' = tried + 1
    BY <1>5 DEF RerankFails
  <2>2. CASE tried' < RerankTries
    <3>1. stage' = stage
      BY <1>5, <2>2 DEF RerankFails
    <3> QED BY <1>1, <1>3, <2>1, <2>2, <3>1 DEF RankInv
  <2>3. CASE ~(tried' < RerankTries)
    <3>1. stage' = "answered" /\ results' = ranked
      BY <1>5, <2>3 DEF RerankFails
    <3>2. (reply = <<>>)' /\ (results = ranked)'
      BY <1>1, <1>2, <2>1, <3>1
    <3>3. AnswerOK'
      BY <1>3, <3>2, KeptOrder, PTL
    <3> QED BY <1>3, <3>1, <3>3 DEF RankInv
  <2> QED BY <2>2, <2>3
<1>6. CASE RerankAnswers
  <2>1. PICK body \in RerankBodies :
          reply' = body /\ results' = ApplyCrossEncoder(body)
    BY <1>6 DEF RerankAnswers
  <2>2. stage' = "answered" /\ tried' = tried
    BY <1>6 DEF RerankAnswers
  <2> DEFINE k == Lower(TopN, Len(ranked))
  <2>3. k \in 0..Cardinality(Ids) /\ DOMAIN Top = 1..k /\ Lists(ranked, Ids)
    BY <1>1, TopIsHead DEF RankedOK
  <2> DEFINE t == Reordered(ranked, k, body)
  <2>4. results' = t
    BY <2>1 DEF ApplyCrossEncoder, Reordered, Top, Below
  <2> HIDE DEF k
  <2>5. \A i \in DOMAIN body : body[i] \in Int
    BY RankingAssumption
  <2>6. Ids \subseteq Int /\ IsFiniteSet(Ids)
    BY <1>1, IdsAreCandidates
  <2>7. /\ Lists(t, Ids)
        /\ {t[i] : i \in 1..k} = {ranked[i] : i \in 1..k}
        /\ \A i \in DOMAIN t \ (1..k) : t[i] = ranked[i]
        /\ \A i, j \in DOMAIN body \cap (1..k) :
             body[i] > body[j] => Precedes(t, ranked[i], ranked[j])
    BY <2>3, <2>5, <2>6, ReorderedLists, Zenon
  <2> HIDE DEF t
  <2>8. tried' # RerankTries
    BY <1>1, <2>2
  <2>9. Ids' = Ids /\ ranked' = ranked /\ DOMAIN Top' = 1..k
    BY <1>2, <1>3, <2>3
  <2>10. AnswerOK'
    <3>1. Lists(results, Ids)'
      BY <2>4, <2>7, <2>9 DEF Lists
    <3>2. ({results[i] : i \in DOMAIN Top} = {ranked[i] : i \in DOMAIN Top})'
      BY <2>4, <2>7, <2>9
    <3>3. (\A i \in DOMAIN results \ DOMAIN Top : results[i] = ranked[i])'
      BY <2>4, <2>7, <2>9
    <3>4. (\A i, j \in DOMAIN reply \cap DOMAIN Top :
             reply[i] > reply[j] => Precedes(results, ranked[i], ranked[j]))'
      BY <2>1, <2>4, <2>7, <2>9 DEF Precedes
    <3> QED BY <2>8, <3>1, <3>2, <3>3, <3>4 DEF AnswerOK
  <2> QED BY <1>3, <2>2, <2>10 DEF RankInv
<1> QED BY <1>4, <1>5, <1>6

\* An answer as the invariant has it is what the property asks for.
LEMMA RankInvSuffices == RankInv => BetterMatchesComeFirst
<1> SUFFICES ASSUME RankInv, stage = "answered"
             PROVE  BetterMatchesComeFirst
  BY DEF BetterMatchesComeFirst
<1>1. search \in Searches /\ Channel(cosines) /\ RankedOK /\ AnswerOK
  BY DEF RankInv
<1>2. Ids = IF search.query # {}
               /\ DOMAIN StaticScores \cup DOMAIN DynamicScores \cup DOMAIN cosines # {}
            THEN DOMAIN StaticScores \cup DOMAIN DynamicScores \cup DOMAIN cosines
            ELSE Candidates
  BY DEF Ids, Found
<1>3. /\ Lists(results, Ids) /\ Len(results) = Cardinality(Ids)
      /\ DOMAIN results = 1..Cardinality(Ids)
  BY <1>1, IdsAreCandidates, ListIsSequence DEF AnswerOK
<1>4. {results[i] : i \in DOMAIN results} = Ids
  <2>1. \A i \in DOMAIN results : results[i] \in Ids
    BY <1>3 DEF Lists
  <2>2. \A r \in Ids : \E i \in DOMAIN results : results[i] = r
    BY <1>3 DEF Lists
  <2> QED BY <2>1, <2>2
<1> HIDE DEF Ids
<1> QED BY <1>1, <1>2, <1>3, <1>4 DEF BetterMatchesComeFirst, RankedOK, AnswerOK

\* Every answered search lists its candidates, better matches first, whichever
\* channels and calls of the reranker failed: for any searches, k, head of the
\* reranker and number of its attempts.
THEOREM BetterMatchesFirst == RankSpec => []BetterMatchesComeFirst
<1>1. RankInv /\ [RankNext]_rankVars => RankInv'
  <2> SUFFICES ASSUME RankInv, [RankNext]_rankVars
               PROVE  RankInv'
    OBVIOUS
  <2>1. CASE UNCHANGED rankVars
    <3>1. /\ UNCHANGED <<search, cosines, ranked>>
          /\ UNCHANGED <<stage, tried, reply, results>>
      BY <2>1 DEF rankVars
    <3>2. CASE stage = "rank"
      BY <3>1, <3>2 DEF RankInv
    <3>3. CASE stage # "rank"
      <4>1. (search \in Searches)' /\ Channel(cosines)' /\ Ids' = Ids /\ Top' = Top
            /\ RankedOK'
        BY <3>1, <3>3, OrderStays DEF RankInv
      <4>2. AnswerOK => AnswerOK'
        <5> HAVE AnswerOK
        <5>1. Lists(results, Ids)'
          BY <3>1, <4>1 DEF AnswerOK, Lists
        <5>2. ({results[i] : i \in DOMAIN Top} = {ranked[i] : i \in DOMAIN Top})'
          BY <3>1, <4>1 DEF AnswerOK
        <5>3. (\A i \in DOMAIN results \ DOMAIN Top : results[i] = ranked[i])'
          BY <3>1, <4>1 DEF AnswerOK
        <5>4. (\A i, j \in DOMAIN reply \cap DOMAIN Top :
                 reply[i] > reply[j] => Precedes(results, ranked[i], ranked[j]))'
          BY <3>1, <4>1 DEF AnswerOK, Precedes
        <5>5. (reply = <<>> /\ tried = RerankTries => results = ranked)'
          BY <3>1 DEF AnswerOK
        <5> QED BY <5>1, <5>2, <5>3, <5>4, <5>5 DEF AnswerOK
      <4> QED BY <3>1, <3>3, <4>1, <4>2 DEF RankInv
    <3> QED BY <3>2, <3>3
  <2> QED BY <2>1, RankKeeps, AnswerKeeps DEF RankNext
<1> QED BY <1>1, RankInvInit, RankInvSuffices, PTL DEF RankSpec
=============================================================================
