------------------------- MODULE Publication_proofs -------------------------
(***************************************************************************)
(* Publication keeps its records, its index and its history consistent on  *)
(* both backends, and its job summaries complete on SQLite, for every      *)
(* number of publishers, jobs, keys and records.                           *)
(***************************************************************************)
EXTENDS Publication, TLAPS

\* A transaction that has written a record, which the unique constraint and
\* the row locks protect.
Wrote(p) == tx[p].pc \in {"written", "summarised"}

\* The rows an open transaction relies on: its id is new, and what it replaces
\* is still the active record of the key.
TxOK(p) ==
  /\ Open(p) => tx[p].rec \notin audit
  /\ At(p, "selected") /\ tx[p].existing # None =>
       \E a \in active : a.key = tx[p].key
  /\ Wrote(p) =>
       /\ \A a \in active : a.key = tx[p].key => a.id = tx[p].existing
       /\ tx[p].existing # None =>
            [id |-> tx[p].existing, key |-> tx[p].key] \in active

\* Two open transactions have different ids, and different keys once both
\* have written.
PairOK(p, q) ==
  Open(p) /\ Open(q) /\ p # q =>
    /\ tx[p].rec # tx[q].rec
    /\ Wrote(p) /\ Wrote(q) => tx[p].key # tx[q].key

\* An id is active for one key only, and only published ids replace others.
RowsOK ==
  /\ \A a, b \in active : a.id = b.id => a = b
  /\ \A h \in history : h.by \in audit

PubInv ==
  /\ TypeOK
  /\ \A p \in Publishers : TxOK(p)
  /\ \A p, q \in Publishers : PairOK(p, q)
  /\ RowsOK
  /\ OneActivePerKey
  /\ IndexMatchesActive
  /\ HistoryIsLinear

USE DEF At, Open

\* Nothing is published and nothing is open.
LEMMA PubInit == Init => PubInv
BY NoneAssumption
DEF Init, PubInv, TypeOK, TxOK, PairOK, RowsOK, OneActivePerKey, Wrote,
    IndexMatchesActive, HistoryIsLinear, Summaries, TxTypes, NoTx, None

\* An open transaction has all the fields of one.
LEMMA OpenFields ==
  ASSUME TypeOK, NEW p \in Publishers, Open(p)
  PROVE  tx[p] \in [pc : {"open", "selected", "written", "summarised"},
                    job : Jobs, key : Keys, rec : Records, read : BOOLEAN,
                    seen : Summaries, existing : Records \cup {None}]
BY DEF TypeOK, TxTypes, NoTx

\* Steps that change no row and one transaction keep PubInv if they keep what
\* TxOK and PairOK say of it.
LEMMA TxSteps ==
  ASSUME PubInv, UNCHANGED store,
         NEW p \in Publishers, NEW t \in TxTypes,
         tx' = [tx EXCEPT ![p] = t],
         TxOK(p)',
         \A q \in Publishers : PairOK(p, q)'
  PROVE  PubInv'
<1>1. tx \in [Publishers -> TxTypes] BY DEF PubInv, TypeOK
<1>2. /\ tx'[p] = t
      /\ \A q \in Publishers : q # p => tx'[q] = tx[q]
  BY <1>1
<1>3. TypeOK' BY <1>1 DEF PubInv, TypeOK, store
<1>4. ASSUME NEW q \in Publishers PROVE TxOK(q)'
  <2>1. CASE q = p BY <2>1
  <2>2. CASE q # p BY <1>2, <2>2 DEF PubInv, TxOK, Wrote, store
  <2> QED BY <2>1, <2>2
<1>5. ASSUME NEW q \in Publishers, NEW r \in Publishers PROVE PairOK(q, r)'
  <2>1. CASE q = p BY <2>1
  <2>2. CASE r = p
    <3>1. PairOK(p, q)' OBVIOUS
    <3> QED BY <3>1, <2>2 DEF PairOK
  <2>3. CASE q # p /\ r # p BY <1>2, <2>3 DEF PubInv, PairOK, Wrote
  <2> QED BY <2>1, <2>2, <2>3
<1> QED
  BY <1>3, <1>4, <1>5
  DEF PubInv, store, RowsOK, OneActivePerKey, IndexMatchesActive,
      HistoryIsLinear

\* A rolled back transaction leaves nothing behind.
LEMMA RolledBack ==
  ASSUME PubInv, UNCHANGED store, NEW p \in Publishers,
         tx' = [tx EXCEPT ![p] = NoTx]
  PROVE  PubInv'
<1>1. NoTx \in TxTypes BY DEF TxTypes
<1>2. tx'[p] = NoTx BY DEF PubInv, TypeOK
<1>3. TxOK(p)' BY <1>2 DEF TxOK, Wrote, NoTx
<1>4. \A q \in Publishers : PairOK(p, q)' BY <1>2 DEF PairOK, NoTx
<1> QED BY <1>1, <1>3, <1>4, TxSteps

\* A new transaction takes an id that no other one has.
LEMMA BeginStep ==
  ASSUME PubInv, NEW p \in Publishers, NEW j \in Jobs, NEW k \in Keys,
         NEW r \in Records, Begin(p, j, k, r)
  PROVE  PubInv'
<1> DEFINE t == [pc |-> "open", job |-> j, key |-> k, rec |-> r,
                 read |-> FALSE, seen |-> summary[j], existing |-> None]
<1>1. t \in TxTypes BY DEF TxTypes, PubInv, TypeOK
<1>2. tx' = [tx EXCEPT ![p] = t] BY DEF Begin, OpenTx
<1>3. tx'[p] = t /\ \A q \in Publishers : q # p => tx'[q] = tx[q]
  BY <1>2 DEF PubInv, TypeOK
<1>4. r \notin audit /\ \A q \in Publishers : Open(q) => tx[q].rec # r
  BY DEF Begin, Used
<1>5. TxOK(p)' BY <1>3, <1>4 DEF TxOK, Wrote, Begin, store
<1>6. \A q \in Publishers : PairOK(p, q)' BY <1>3, <1>4 DEF PairOK, Wrote
<1> HIDE DEF t
<1> QED BY <1>1, <1>2, <1>5, <1>6, TxSteps DEF Begin

\* Reading the job row changes no field the invariant speaks of.
LEMMA ReadJobStep ==
  ASSUME PubInv, NEW p \in Publishers, ReadJob(p)
  PROVE  PubInv'
<1> DEFINE t == [tx[p] EXCEPT !.read = TRUE, !.seen = summary[tx[p].job]]
<1>0. Open(p) BY DEF ReadJob
<1>1. /\ tx[p] \in [pc : {"open", "selected", "written", "summarised"},
                    job : Jobs, key : Keys, rec : Records, read : BOOLEAN,
                    seen : Summaries, existing : Records \cup {None}]
  BY <1>0, OpenFields DEF PubInv
<1>2. t \in TxTypes BY <1>1 DEF TxTypes, PubInv, TypeOK
<1>3. tx' = [tx EXCEPT ![p] = t] BY <1>1 DEF ReadJob, PubInv, TypeOK
<1>4. tx'[p] = t /\ \A q \in Publishers : q # p => tx'[q] = tx[q]
  BY <1>3 DEF PubInv, TypeOK
<1>5. /\ tx'[p].pc = tx[p].pc /\ tx'[p].key = tx[p].key
      /\ tx'[p].rec = tx[p].rec /\ tx'[p].existing = tx[p].existing
  BY <1>1, <1>4
<1>6. TxOK(p)'
  <2>1. TxOK(p) /\ active' = active /\ audit' = audit
    BY DEF PubInv, ReadJob, store
  <2> QED BY <1>5, <2>1 DEF TxOK, Wrote
<1>7. \A q \in Publishers : PairOK(p, q)'
  BY <1>4, <1>5 DEF PairOK, Wrote, PubInv
<1> HIDE DEF t
<1> QED BY <1>2, <1>3, <1>6, <1>7, TxSteps DEF ReadJob

\* What was selected is active at the moment of the SELECT.
LEMMA SelectStep ==
  ASSUME PubInv, NEW p \in Publishers, SelectExisting(p)
  PROVE  PubInv'
<1> DEFINE e == IF \E a \in active : a.key = tx[p].key
                THEN (CHOOSE a \in active : a.key = tx[p].key).id
                ELSE None
           t == [tx[p] EXCEPT !.pc = "selected", !.existing = e]
<1>1. tx[p] \in [pc : {"open", "selected", "written", "summarised"},
                 job : Jobs, key : Keys, rec : Records, read : BOOLEAN,
                 seen : Summaries, existing : Records \cup {None}]
  BY OpenFields DEF PubInv, SelectExisting
<1>2. /\ e \in Records \cup {None}
      /\ e # None => \E a \in active : a.key = tx[p].key
  BY DEF PubInv, TypeOK
<1> HIDE DEF e
<1>3. t \in TxTypes BY <1>1, <1>2 DEF TxTypes
<1>4. tx' = [tx EXCEPT ![p] = t] BY <1>1 DEF SelectExisting, PubInv, TypeOK, e
<1>5. tx'[p] = t /\ \A q \in Publishers : q # p => tx'[q] = tx[q]
  BY <1>4 DEF PubInv, TypeOK
<1>6. /\ tx'[p].pc = "selected" /\ tx'[p].key = tx[p].key
      /\ tx'[p].rec = tx[p].rec /\ tx'[p].existing = e
  BY <1>1, <1>5
<1>7. TxOK(p)'
  <2>1. TxOK(p) /\ tx[p].pc = "open" /\ active' = active /\ audit' = audit
    BY DEF PubInv, SelectExisting, store
  <2> QED BY <1>2, <1>6, <2>1 DEF TxOK, Wrote
<1>8. \A q \in Publishers : PairOK(p, q)'
  <2>1. tx[p].pc = "open" /\ \A q \in Publishers : PairOK(p, q)
    BY DEF PubInv, SelectExisting
  <2> QED BY <1>5, <1>6, <2>1 DEF PairOK, Wrote
<1> HIDE DEF t
<1> QED BY <1>3, <1>4, <1>7, <1>8, TxSteps DEF SelectExisting

\* Without a conflict the selected record is still the one of its key, and no
\* other transaction has written the key.
LEMMA WriteStep ==
  ASSUME PubInv, NEW p \in Publishers, WriteRecord(p)
  PROVE  PubInv'
<1>1. CASE Conflict(p) BY <1>1, RolledBack DEF WriteRecord
<1>2. CASE ~Conflict(p)
  <2> DEFINE t == [tx[p] EXCEPT !.pc = "written"]
  <2>1. tx[p] \in [pc : {"open", "selected", "written", "summarised"},
                   job : Jobs, key : Keys, rec : Records, read : BOOLEAN,
                   seen : Summaries, existing : Records \cup {None}]
    BY OpenFields DEF PubInv, WriteRecord
  <2>2. t \in TxTypes BY <2>1 DEF TxTypes
  <2>3. tx' = [tx EXCEPT ![p] = t] BY <1>2 DEF WriteRecord
  <2>4. tx'[p] = t /\ \A q \in Publishers : q # p => tx'[q] = tx[q]
    BY <2>3 DEF PubInv, TypeOK
  <2>5. /\ tx'[p].pc = "written" /\ tx'[p].key = tx[p].key
        /\ tx'[p].rec = tx[p].rec /\ tx'[p].existing = tx[p].existing
    BY <2>1, <2>4
  <2>6. /\ \A a \in active : a.key = tx[p].key => a.id = tx[p].existing
        /\ tx[p].existing # None =>
             [id |-> tx[p].existing, key |-> tx[p].key] \in active
    <3>1. \A a \in active : a.key = tx[p].key => a.id = tx[p].existing
      BY <1>2 DEF Conflict
    <3>2. ASSUME tx[p].existing # None
          PROVE  [id |-> tx[p].existing, key |-> tx[p].key] \in active
      <4>1. PICK a \in active : a.key = tx[p].key
        BY <3>2 DEF PubInv, TxOK, WriteRecord
      <4>2. a.id = tx[p].existing BY <3>1, <4>1
      <4>3. a = [id |-> a.id, key |-> a.key] BY DEF PubInv, TypeOK
      <4> QED BY <4>1, <4>2, <4>3
    <3> QED BY <3>1, <3>2
  <2>7. TxOK(p)' BY <2>5, <2>6 DEF TxOK, Wrote, WriteRecord, store, PubInv
  <2>8. \A q \in Publishers : PairOK(p, q)'
    BY <2>4, <2>5 DEF PairOK, Wrote, PubInv, WriteRecord, KeyLocked
  <2> HIDE DEF t
  <2> QED BY <2>2, <2>3, <2>7, <2>8, TxSteps DEF WriteRecord
<1> QED BY <1>1, <1>2

\* Writing the summary only moves the transaction on.
LEMMA SummaryStep ==
  ASSUME PubInv, NEW p \in Publishers, WriteSummary(p)
  PROVE  PubInv'
<1> DEFINE t == [tx[p] EXCEPT !.pc = "summarised"]
<1>1. tx[p] \in [pc : {"open", "selected", "written", "summarised"},
                 job : Jobs, key : Keys, rec : Records, read : BOOLEAN,
                 seen : Summaries, existing : Records \cup {None}]
  BY OpenFields DEF PubInv, WriteSummary
<1>2. t \in TxTypes BY <1>1 DEF TxTypes
<1>3. tx' = [tx EXCEPT ![p] = t] BY DEF WriteSummary
<1>4. tx'[p] = t /\ \A q \in Publishers : q # p => tx'[q] = tx[q]
  BY <1>3 DEF PubInv, TypeOK
<1>5. /\ tx'[p].pc = "summarised" /\ tx'[p].key = tx[p].key
      /\ tx'[p].rec = tx[p].rec /\ tx'[p].existing = tx[p].existing
  BY <1>1, <1>4
<1>6. TxOK(p)' BY <1>5 DEF TxOK, Wrote, WriteSummary, store, PubInv
<1>7. \A q \in Publishers : PairOK(p, q)'
  BY <1>4, <1>5 DEF PairOK, Wrote, PubInv, WriteSummary
<1> HIDE DEF t
<1> QED BY <1>2, <1>3, <1>6, <1>7, TxSteps DEF WriteSummary

\* A commit replaces exactly the record its transaction selected, which is
\* the only active one of its key.
LEMMA CommitStep ==
  ASSUME PubInv, NEW p \in Publishers, Commit(p)
  PROVE  PubInv'
<1> DEFINE e == tx[p].existing
           r == tx[p].rec
           k == tx[p].key
<1>1. tx[p] \in [pc : {"open", "selected", "written", "summarised"},
                 job : Jobs, key : Keys, rec : Records, read : BOOLEAN,
                 seen : Summaries, existing : Records \cup {None}]
  BY OpenFields DEF PubInv, Commit, CommitRows
<1>2. /\ tx'[p] = NoTx
      /\ \A q \in Publishers : q # p => tx'[q] = tx[q]
  BY DEF PubInv, TypeOK, Commit, CommitRows
<1>3. /\ r \notin audit
      /\ \A a \in active : a.key = k => a.id = e
      /\ e # None => [id |-> e, key |-> k] \in active
  <2>1. TxOK(p) /\ Open(p) /\ Wrote(p)
    BY DEF PubInv, Commit, CommitRows, Wrote
  <2> QED BY <2>1 DEF TxOK
<1>4. /\ active' = {a \in active : a.id # e} \cup {[id |-> r, key |-> k]}
      /\ history' = history \cup {[old |-> o, by |-> r] : o \in {e} \ {None}}
      /\ audit' = audit \cup {r}
      /\ index' = (index \ ({e} \ {None})) \cup {r}
  BY DEF Commit, CommitRows, Archived
<1>5. /\ \A a \in active : a.id \in audit /\ a.id # r
      /\ \A h \in history : h.old \in audit /\ h.by \in audit
  BY <1>3 DEF PubInv, HistoryIsLinear, RowsOK
<1>6. \A a \in active : a \in [id : Records, key : Keys]
  BY DEF PubInv, TypeOK
<1>7. \A a \in active : a.id = e => a.key = k
  <2> SUFFICES ASSUME NEW a \in active, a.id = e PROVE a.key = k
    OBVIOUS
  <2>1. e # None BY <1>6, NoneAssumption
  <2>2. [id |-> e, key |-> k] \in active BY <2>1, <1>3
  <2>3. a = [id |-> e, key |-> k] BY <2>2 DEF PubInv, RowsOK
  <2> QED BY <2>3
<1>8. TypeOK'
  <2>1. active' \subseteq [id : Records, key : Keys]
    BY <1>1, <1>4 DEF PubInv, TypeOK
  <2>2. index' \subseteq Records /\ audit' \subseteq Records
    BY <1>1, <1>4 DEF PubInv, TypeOK
  <2>3. history' \subseteq [old : Records, by : Records]
    BY <1>1, <1>4 DEF PubInv, TypeOK
  <2>4. NewSummary(p) \in Summaries
    BY <1>1 DEF NewSummary, Summaries, Archived
  <2>5. summary' \in [Jobs -> Summaries]
    BY <1>1, <2>4 DEF Commit, CommitRows, PubInv, TypeOK
  <2>6. tx' \in [Publishers -> TxTypes]
    BY DEF Commit, CommitRows, PubInv, TypeOK, TxTypes
  <2>7. backend' \in {"sqlite", "postgres"}
    BY DEF Commit, CommitRows, PubInv, TypeOK
  <2> QED BY <2>1, <2>2, <2>3, <2>5, <2>6, <2>7 DEF TypeOK
<1>9. ASSUME NEW q \in Publishers PROVE TxOK(q)'
  <2>1. CASE q = p BY <1>2, <2>1 DEF TxOK, Wrote, NoTx
  <2>2. CASE q # p
    <3>1. tx'[q] = tx[q] BY <1>2, <2>2
    <3>2. TxOK(q) /\ PairOK(p, q) /\ Open(p) /\ Wrote(p)
      BY DEF PubInv, Commit, CommitRows, Wrote
    <3>3. (Open(q) => tx[q].rec \notin audit)'
      BY <3>1, <3>2, <1>4, <2>2 DEF TxOK, PairOK
    <3>4. (At(q, "selected") /\ tx[q].existing # None =>
             \E a \in active : a.key = tx[q].key)'
      <4> SUFFICES ASSUME tx[q].pc = "selected", tx[q].existing # None
                   PROVE  \E a \in active' : a.key = tx[q].key
        BY <3>1
      <4>1. PICK a \in active : a.key = tx[q].key BY <3>2 DEF TxOK
      <4>2. CASE a.id # e BY <1>4, <4>1, <4>2
      <4>3. CASE a.id = e
        <5>1. tx[q].key = k BY <4>1, <4>3, <1>7
        <5>2. [id |-> r, key |-> k] \in active' BY <1>4
        <5>3. [id |-> r, key |-> k].key = k OBVIOUS
        <5> QED BY <5>1, <5>2, <5>3
      <4> QED BY <4>2, <4>3
    <3>5. (Wrote(q) =>
             /\ \A a \in active : a.key = tx[q].key => a.id = tx[q].existing
             /\ tx[q].existing # None =>
                  [id |-> tx[q].existing, key |-> tx[q].key] \in active)'
      <4> SUFFICES ASSUME Wrote(q)
                   PROVE  /\ \A a \in active' :
                               a.key = tx[q].key => a.id = tx[q].existing
                          /\ tx[q].existing # None =>
                               [id |-> tx[q].existing, key |-> tx[q].key]
                                 \in active'
        BY <3>1 DEF Wrote
      <4>1. tx[q].key # k BY <3>2, <2>2 DEF PairOK, Wrote
      <4>2. /\ \A a \in active : a.key = tx[q].key => a.id = tx[q].existing
            /\ tx[q].existing # None =>
                 [id |-> tx[q].existing, key |-> tx[q].key] \in active
        BY <3>2 DEF TxOK
      <4>3. \A a \in active' : a.key = tx[q].key => a.id = tx[q].existing
        BY <1>4, <4>1, <4>2
      <4>4. ASSUME tx[q].existing # None
            PROVE  [id |-> tx[q].existing, key |-> tx[q].key] \in active'
        <5> DEFINE a == [id |-> tx[q].existing, key |-> tx[q].key]
        <5>1. a \in active BY <4>2, <4>4
        <5>2. a.key # k BY <4>1
        <5>3. a.id # e BY <5>1, <5>2, <1>7
        <5> HIDE DEF a
        <5>4. a \in active' BY <5>1, <5>3, <1>4
        <5> QED BY <5>4 DEF a
      <4> QED BY <4>3, <4>4
    <3> QED BY <3>3, <3>4, <3>5 DEF TxOK
  <2> QED BY <2>1, <2>2
<1>10. ASSUME NEW q \in Publishers, NEW s \in Publishers PROVE PairOK(q, s)'
  <2>1. CASE q = p \/ s = p BY <1>2, <2>1 DEF PairOK, NoTx
  <2>2. CASE q # p /\ s # p BY <1>2, <2>2 DEF PubInv, PairOK, Wrote
  <2> QED BY <2>1, <2>2
<1>11. RowsOK'
  <2>1. \A a, b \in active' : a.id = b.id => a = b
    BY <1>4, <1>5 DEF PubInv, RowsOK
  <2>2. \A h \in history' : h.by \in audit'
    BY <1>4, <1>5
  <2> QED BY <2>1, <2>2 DEF RowsOK
<1>12. OneActivePerKey'
  BY <1>3, <1>4 DEF PubInv, OneActivePerKey
<1>13. {a.id : a \in active'} = ({a.id : a \in active} \ {e}) \cup {r}
  <2> DEFINE new == [id |-> r, key |-> k]
  <2>1. new.id = r /\ new \in active' BY <1>4
  <2>2. \A a : a \in active' <=> (a \in active /\ a.id # e) \/ a = new
    BY <1>4
  <2> HIDE DEF new
  <2>3. ASSUME NEW x \in {a.id : a \in active'}
        PROVE  x \in ({a.id : a \in active} \ {e}) \cup {r}
    BY <2>1, <2>2
  <2>4. ASSUME NEW x \in ({a.id : a \in active} \ {e}) \cup {r}
        PROVE  x \in {a.id : a \in active'}
    <3>1. CASE x = r BY <3>1, <2>1
    <3>2. CASE x # r
      <4>1. PICK a \in active : x = a.id /\ x # e BY <3>2
      <4>2. a \in active' BY <4>1, <2>2
      <4> QED BY <4>1, <4>2
    <3> QED BY <3>1, <3>2
  <2> QED BY <2>3, <2>4
<1>14. IndexMatchesActive'
  <2>1. e = None => e \notin index
    BY NoneAssumption DEF PubInv, TypeOK
  <2> QED BY <1>4, <1>13, <2>1 DEF PubInv, IndexMatchesActive
<1>15. HistoryIsLinear'
  <2>1. {h.old : h \in history'} = {h.old : h \in history} \cup ({e} \ {None})
    <3> DEFINE new == [old |-> e, by |-> r]
    <3>1. new.old = e OBVIOUS
    <3>2. \A h : h \in history' <=> h \in history \/ (e # None /\ h = new)
      BY <1>4
    <3> HIDE DEF new
    <3>3. ASSUME NEW x \in {h.old : h \in history'}
          PROVE  x \in {h.old : h \in history} \cup ({e} \ {None})
      BY <3>1, <3>2
    <3>4. ASSUME NEW x \in {h.old : h \in history} \cup ({e} \ {None})
          PROVE  x \in {h.old : h \in history'}
      <4>1. CASE x = e /\ e # None
        <5>1. new \in history' BY <4>1, <3>2
        <5> QED BY <5>1, <4>1, <3>1
      <4>2. CASE ~(x = e /\ e # None)
        <5>1. PICK h \in history : x = h.old BY <4>2
        <5>2. h \in history' BY <3>2
        <5> QED BY <5>1, <5>2
      <4> QED BY <4>1, <4>2
    <3> QED BY <3>3, <3>4
  <2>2. e # None => e \in {a.id : a \in active}
    BY <1>3
  <2>3. None \notin {a.id : a \in active} BY <1>6, NoneAssumption
  <2>4. /\ audit = {a.id : a \in active} \cup {h.old : h \in history}
        /\ {a.id : a \in active} \cap {h.old : h \in history} = {}
        /\ \A g, h \in history : g.old = h.old \/ g.by = h.by => g = h
    BY DEF PubInv, HistoryIsLinear
  <2>5. (audit = {a.id : a \in active} \cup {h.old : h \in history})'
    <3> DEFINE I == {a.id : a \in active}
               O == {h.old : h \in history}
    <3>1. audit' = audit \cup {r} BY <1>4
    <3>2. audit = I \cup O /\ (e # None => e \in I) /\ None \notin I
      BY <2>2, <2>3, <2>4
    <3>3. /\ {a.id : a \in active'} = (I \ {e}) \cup {r}
          /\ {h.old : h \in history'} = O \cup ({e} \ {None})
      BY <1>13, <2>1
    <3> HIDE DEF I, O
    <3>4. audit' = {a.id : a \in active'} \cup {h.old : h \in history'}
      BY <3>1, <3>2, <3>3
    <3> QED BY <3>4
  <2>6. ({a.id : a \in active} \cap {h.old : h \in history} = {})'
    BY <1>3, <1>13, <2>1, <2>3, <2>4
  <2>7. (\A g, h \in history : g.old = h.old \/ g.by = h.by => g = h)'
    <3>1. \A h \in history : h.old # e
      <4> SUFFICES ASSUME NEW h \in history, h.old = e PROVE FALSE
        OBVIOUS
      <4>1. e \in {g.old : g \in history} OBVIOUS
      <4>2. h.old \in Records BY DEF PubInv, TypeOK
      <4> QED BY <4>1, <4>2, <2>2, <2>4, NoneAssumption
    <3>2. \A h \in history' :
            h \in history \/ (h.old = e /\ h.by = r /\ h = [old |-> e, by |-> r])
      BY <1>4
    <3>3. \A h \in history : h.by # r BY <1>3, <1>5
    <3> QED BY <3>1, <3>2, <3>3, <2>4
  <2> QED BY <2>5, <2>6, <2>7 DEF HistoryIsLinear
<1> QED BY <1>8, <1>9, <1>10, <1>11, <1>12, <1>14, <1>15 DEF PubInv

\* PubInv is inductive.
LEMMA PubNext == PubInv /\ [Next]_vars => PubInv'
<1> SUFFICES ASSUME PubInv, [Next]_vars PROVE PubInv'
  OBVIOUS
<1>1. CASE UNCHANGED vars
  BY <1>1
  DEF vars, PubInv, TypeOK, TxOK, PairOK, Wrote, RowsOK, OneActivePerKey,
      IndexMatchesActive, HistoryIsLinear
<1>2. CASE Next
  <2>1. PICK p \in Publishers : Step(p) BY <1>2 DEF Next
  <2>2. CASE \E j \in Jobs, k \in Keys, r \in Records : Begin(p, j, k, r)
    BY <2>2, BeginStep
  <2>3. CASE ReadJob(p) BY <2>3, ReadJobStep
  <2>4. CASE SelectExisting(p) BY <2>4, SelectStep
  <2>5. CASE WriteRecord(p) BY <2>5, WriteStep
  <2>6. CASE WriteSummary(p) BY <2>6, SummaryStep
  <2>7. CASE Commit(p) BY <2>7, CommitStep
  <2>8. CASE Abort(p) BY <2>8, RolledBack DEF Abort
  <2> QED BY <2>1, <2>2, <2>3, <2>4, <2>5, <2>6, <2>7, <2>8 DEF Step
<1> QED BY <1>1, <1>2

\* On both backends, however publications overlap and fail, a natural key has
\* at most one active record, the full-text index holds exactly the active
\* records, and every published record is active or archived exactly once.
THEOREM PublicationIsConsistent ==
  Spec => []RecordsAreConsistent
<1>1. PubInv => RecordsAreConsistent
  BY DEF PubInv, RecordsAreConsistent
<1> QED BY <1>1, PubInit, PubNext, PTL DEF Spec

-----------------------------------------------------------------------------
(* The job summaries on SQLite. *)

\* With one writer at a time, what a transaction read of its job's row is what
\* the row holds when the transaction writes it back.
SumInv ==
  /\ \A p, q \in Publishers : Open(p) /\ Open(q) => p = q
  /\ \A p \in Publishers : Open(p) =>
       /\ At(p, "summarised") => tx[p].read
       /\ tx[p].read => tx[p].seen = summary[tx[p].job]
  /\ SummariesListAll

\* Steps that change no row keep SumInv if they open no second transaction
\* and what the transaction has read is what the row holds.
LEMMA SumTxSteps ==
  ASSUME TypeOK, SumInv, UNCHANGED store,
         NEW p \in Publishers, NEW t \in TxTypes,
         tx' = [tx EXCEPT ![p] = t],
         t.pc # "idle" => \A q \in Publishers \ {p} : ~Open(q),
         t.pc # "idle" =>
           /\ t.pc = "summarised" => t.read
           /\ t.read => t.seen = summary[t.job]
  PROVE  SumInv'
<1>1. tx'[p] = t /\ \A q \in Publishers : q # p => tx'[q] = tx[q]
  BY DEF TypeOK
<1>2. summary' = summary /\ audit' = audit /\ history' = history
  BY DEF store
<1>3. (\A q, s \in Publishers : Open(q) /\ Open(s) => q = s)'
  BY <1>1 DEF SumInv
<1>4. ASSUME NEW q \in Publishers
      PROVE  (Open(q) => /\ At(q, "summarised") => tx[q].read
                         /\ tx[q].read => tx[q].seen = summary[tx[q].job])'
  <2>1. CASE q = p BY <1>1, <1>2, <2>1
  <2>2. CASE q # p BY <1>1, <1>2, <2>2 DEF SumInv
  <2> QED BY <2>1, <2>2
<1>5. SummariesListAll' BY <1>2 DEF SumInv, SummariesListAll
<1> QED BY <1>3, <1>4, <1>5 DEF SumInv

\* A commit adds its record, and what it archived, to the lists of its job.
LEMMA SumCommit ==
  ASSUME PubInv, SumInv, NEW p \in Publishers, Commit(p)
  PROVE  SumInv'
<1> DEFINE A == Archived(p)
           r == tx[p].rec
           j == tx[p].job
<1>1. tx[p] \in [pc : {"open", "selected", "written", "summarised"},
                 job : Jobs, key : Keys, rec : Records, read : BOOLEAN,
                 seen : Summaries, existing : Records \cup {None}]
  BY OpenFields DEF PubInv, Commit, CommitRows
<1>2. /\ tx'[p] = NoTx
      /\ \A q \in Publishers : q # p => tx'[q] = tx[q]
  BY DEF PubInv, TypeOK, Commit, CommitRows
<1>3. tx[p].seen = summary[j]
  BY DEF SumInv, Commit, CommitRows
<1>4. \A q \in Publishers : ~Open(q)'
  BY <1>2 DEF SumInv, Commit, CommitRows, NoTx
<1>5. /\ summary'[j].written = summary[j].written \cup {r}
      /\ summary'[j].archived = summary[j].archived \cup A
      /\ \A i \in Jobs : i # j => summary'[i] = summary[i]
      /\ j \in Jobs
  <2>1. summary' = [summary EXCEPT ![j] = NewSummary(p)]
    BY DEF Commit, CommitRows
  <2>2. summary'[j] = NewSummary(p) /\ j \in Jobs
    BY <1>1, <2>1 DEF PubInv, TypeOK
  <2>3. \A i \in Jobs : i # j => summary'[i] = summary[i]
    BY <2>1 DEF PubInv, TypeOK
  <2>4. /\ NewSummary(p).written = summary[j].written \cup {r}
        /\ NewSummary(p).archived = summary[j].archived \cup A
    BY <1>3 DEF NewSummary
  <2> QED BY <2>2, <2>3, <2>4
<1>6. audit' = audit \cup {r} BY DEF Commit, CommitRows
<1>7. {h.old : h \in history'} = {h.old : h \in history} \cup A
  <2>1. \A h : h \in history' <=>
          h \in history \/ \E o \in A : h = [old |-> o, by |-> r]
    BY DEF Commit, CommitRows
  <2> HIDE DEF A, r
  <2>2. ASSUME NEW x \in {h.old : h \in history'}
        PROVE  x \in {h.old : h \in history} \cup A
    BY <2>1
  <2>3. ASSUME NEW x \in {h.old : h \in history} \cup A
        PROVE  x \in {h.old : h \in history'}
    <3>1. CASE x \in A
      <4>1. [old |-> x, by |-> r] \in history' BY <3>1, <2>1
      <4>2. [old |-> x, by |-> r].old = x OBVIOUS
      <4> QED BY <4>1, <4>2
    <3>2. CASE x \notin A
      <4>1. PICK h \in history : x = h.old BY <3>2
      <4>2. h \in history' BY <2>1
      <4> QED BY <4>1, <4>2
    <3> QED BY <3>1, <3>2
  <2> QED BY <2>2, <2>3
<1> HIDE DEF A, r, j
<1>8. UNION {summary'[i].written : i \in Jobs} = audit'
  <2>1. UNION {summary[i].written : i \in Jobs} = audit
    BY DEF SumInv, SummariesListAll
  <2>2. ASSUME NEW x \in UNION {summary'[i].written : i \in Jobs}
        PROVE  x \in audit \cup {r}
    <3>1. PICK i \in Jobs : x \in summary'[i].written OBVIOUS
    <3>2. x \in summary[i].written \/ x = r BY <3>1, <1>5
    <3> QED BY <3>2, <2>1
  <2>3. ASSUME NEW x \in audit \cup {r}
        PROVE  x \in UNION {summary'[i].written : i \in Jobs}
    <3>1. CASE x = r
      <4>1. x \in summary'[j].written BY <3>1, <1>5
      <4> QED BY <4>1, <1>5
    <3>2. CASE x \in audit
      <4>1. PICK i \in Jobs : x \in summary[i].written BY <3>2, <2>1
      <4>2. x \in summary'[i].written BY <4>1, <1>5
      <4> QED BY <4>2
    <3> QED BY <3>1, <3>2
  <2> QED BY <2>2, <2>3, <1>6
<1>9. UNION {summary'[i].archived : i \in Jobs} = {h.old : h \in history'}
  <2> DEFINE O == {h.old : h \in history}
  <2>1. UNION {summary[i].archived : i \in Jobs} = O
    BY DEF SumInv, SummariesListAll
  <2> HIDE DEF O
  <2>2. ASSUME NEW x \in UNION {summary'[i].archived : i \in Jobs}
        PROVE  x \in O \cup A
    <3>1. PICK i \in Jobs : x \in summary'[i].archived OBVIOUS
    <3>2. x \in summary[i].archived \/ x \in A BY <3>1, <1>5
    <3> QED BY <3>2, <2>1
  <2>3. ASSUME NEW x \in O \cup A
        PROVE  x \in UNION {summary'[i].archived : i \in Jobs}
    <3>1. CASE x \in A
      <4>1. x \in summary'[j].archived BY <3>1, <1>5
      <4> QED BY <4>1, <1>5
    <3>2. CASE x \in O
      <4>1. PICK i \in Jobs : x \in summary[i].archived BY <3>2, <2>1
      <4>2. x \in summary'[i].archived BY <4>1, <1>5
      <4> QED BY <4>2
    <3> QED BY <3>1, <3>2
  <2>4. {h.old : h \in history'} = O \cup A BY <1>7 DEF O
  <2> QED BY <2>2, <2>3, <2>4
<1>10. SummariesListAll' BY <1>8, <1>9 DEF SummariesListAll
<1> QED BY <1>4, <1>10 DEF SumInv

\* SumInv is inductive on SQLite.
LEMMA SumNext ==
  ASSUME backend = "sqlite"
  PROVE  PubInv /\ SumInv /\ [Next]_vars => SumInv'
<1> SUFFICES ASSUME PubInv, SumInv, [Next]_vars PROVE SumInv'
  OBVIOUS
<1>0. TypeOK BY DEF PubInv
<1>1. CASE UNCHANGED vars
  BY <1>1 DEF vars, SumInv, SummariesListAll
<1>2. CASE Next
  <2>1. PICK p \in Publishers : Step(p) BY <1>2 DEF Next
  <2>0. ASSUME Open(p)
        PROVE  /\ \A q \in Publishers \ {p} : ~Open(q)
               /\ tx[p] \in
                    [pc : {"open", "selected", "written", "summarised"},
                     job : Jobs, key : Keys, rec : Records, read : BOOLEAN,
                     seen : Summaries, existing : Records \cup {None}]
               /\ tx[p].read => tx[p].seen = summary[tx[p].job]
    BY <1>0, <2>0, OpenFields DEF SumInv
  <2>2. CASE \E j \in Jobs, k \in Keys, r \in Records : Begin(p, j, k, r)
    <3>1. PICK j \in Jobs, k \in Keys, r \in Records : Begin(p, j, k, r)
      BY <2>2
    <3> DEFINE t == [pc |-> "open", job |-> j, key |-> k, rec |-> r,
                     read |-> FALSE, seen |-> summary[j], existing |-> None]
    <3>2. t \in TxTypes BY <1>0 DEF TxTypes, TypeOK
    <3>3. t.pc = "open" /\ t.read = FALSE OBVIOUS
    <3>4. tx' = [tx EXCEPT ![p] = t] /\ UNCHANGED store
      BY <3>1 DEF Begin, OpenTx
    <3>5. \A q \in Publishers : ~Open(q) BY <3>1 DEF Begin
    <3> HIDE DEF t
    <3> QED BY <1>0, <3>2, <3>3, <3>4, <3>5, SumTxSteps
  <2>3. CASE ReadJob(p)
    <3> DEFINE t == [tx[p] EXCEPT !.read = TRUE, !.seen = summary[tx[p].job]]
    <3>1. Open(p) BY <2>3 DEF ReadJob
    <3>2. t \in TxTypes BY <1>0, <2>0, <3>1 DEF TxTypes, TypeOK
    <3>3. t.pc # "summarised" /\ t.read /\ t.seen = summary[t.job]
      BY <2>0, <2>3, <3>1 DEF ReadJob
    <3>4. tx' = [tx EXCEPT ![p] = t] /\ UNCHANGED store
      BY <2>0, <2>3, <3>1, <1>0 DEF ReadJob, TypeOK
    <3> HIDE DEF t
    <3> QED BY <1>0, <2>0, <3>1, <3>2, <3>3, <3>4, SumTxSteps
  <2>4. CASE SelectExisting(p)
    <3> DEFINE e == IF \E a \in active : a.key = tx[p].key
                    THEN (CHOOSE a \in active : a.key = tx[p].key).id
                    ELSE None
               t == [tx[p] EXCEPT !.pc = "selected", !.existing = e]
    <3>1. Open(p) BY <2>4 DEF SelectExisting
    <3>2. e \in Records \cup {None} BY <1>0 DEF TypeOK
    <3>3. tx' = [tx EXCEPT ![p] = t] /\ UNCHANGED store
      BY <2>0, <2>4, <3>1, <1>0 DEF SelectExisting, TypeOK
    <3> HIDE DEF e
    <3>4. t \in TxTypes BY <2>0, <3>1, <3>2 DEF TxTypes
    <3>5. t.pc = "selected" /\ (t.read => t.seen = summary[t.job])
      BY <2>0, <3>1
    <3> HIDE DEF t
    <3> QED BY <1>0, <2>0, <3>1, <3>3, <3>4, <3>5, SumTxSteps
  <2>5. CASE WriteRecord(p)
    <3> DEFINE t == IF Conflict(p) THEN NoTx
                    ELSE [tx[p] EXCEPT !.pc = "written"]
    <3>1. Open(p) BY <2>5 DEF WriteRecord
    <3>2. tx' = [tx EXCEPT ![p] = t] /\ UNCHANGED store
      BY <2>5 DEF WriteRecord
    <3>3. t \in TxTypes BY <2>0, <3>1 DEF TxTypes
    <3>4. /\ t.pc # "summarised"
          /\ t.pc # "idle" => (t.read => t.seen = summary[t.job])
      BY <2>0, <3>1 DEF NoTx
    <3> HIDE DEF t
    <3> QED BY <1>0, <2>0, <3>1, <3>2, <3>3, <3>4, SumTxSteps
  <2>6. CASE WriteSummary(p)
    <3> DEFINE t == [tx[p] EXCEPT !.pc = "summarised"]
    <3>1. Open(p) /\ tx[p].read BY <2>6 DEF WriteSummary
    <3>2. tx' = [tx EXCEPT ![p] = t] /\ UNCHANGED store
      BY <2>6 DEF WriteSummary
    <3>3. t \in TxTypes BY <2>0, <3>1 DEF TxTypes
    <3>4. t.read /\ t.seen = summary[t.job] BY <2>0, <3>1
    <3> HIDE DEF t
    <3> QED BY <1>0, <2>0, <3>1, <3>2, <3>3, <3>4, SumTxSteps
  <2>7. CASE Commit(p) BY <2>7, SumCommit
  <2>8. CASE Abort(p)
    <3>1. NoTx \in TxTypes /\ NoTx.pc = "idle" BY DEF TxTypes, NoTx
    <3>2. tx' = [tx EXCEPT ![p] = NoTx] /\ UNCHANGED store
      BY <2>8 DEF Abort
    <3> QED BY <1>0, <3>1, <3>2, SumTxSteps
  <2> QED BY <2>1, <2>2, <2>3, <2>4, <2>5, <2>6, <2>7, <2>8 DEF Step
<1> QED BY <1>1, <1>2

\* The configured backend never changes.
LEMMA BackendIsFixed == [Next]_vars => backend' = backend
BY DEF Next, Step, Begin, ReadJob, SelectExisting, WriteRecord, WriteSummary,
       Commit, CommitRows, Abort, store, vars

\* On SQLite, where one writer publishes at a time, no publication's ids are
\* lost from the job summaries.
THEOREM SqliteSummariesComplete == Spec => []SummariesAreComplete
<1> DEFINE SqliteInv == backend = "sqlite" => SumInv
<1>1. Init => SqliteInv
  BY DEF Init, SumInv, SummariesListAll, NoTx
<1>2. SqliteInv => SummariesAreComplete
  BY DEF SumInv, SummariesAreComplete
<1>3. PubInv /\ SqliteInv /\ [Next]_vars => SqliteInv'
  BY SumNext, BackendIsFixed
<1> HIDE DEF SqliteInv
<1> QED BY <1>1, <1>2, <1>3, PubInit, PubNext, PTL DEF Spec
=============================================================================
