--------------------------- MODULE VlmCalls_proofs --------------------------
(***************************************************************************)
(* What VlmCalls guarantees for every number of threads, every cap, every  *)
(* interval and every retry budget; and of UnitPlanning the planned        *)
(* windows and their dispatch order, for any video, settings and quota.    *)
(***************************************************************************)
EXTENDS VlmCalls, UnitPlanning, FiniteSetTheorems, TLAPS

\* Whoever sleeps or stamps holds the interval lock, so there is at most one.
LockInv == \A t \in Threads : pc[t] \in {"sleep", "stamp"} => lock = t

\* A sleeper's remaining nap covers what is missing of the interval.
SleepInv == \A t \in Threads : At(t, "sleep") => gap + nap[t] >= MinInterval

\* The places inside an attempt, after the loop variable was advanced.
Trying ==
  {"wait_permit", "admitted", "sleep", "stamp", "call", "in_flight"}

\* While a thread is in the loop both budgets have room, and every attempt but
\* the one under way was a counted failure.
Budgeted(t) ==
  pc[t] \in Trying \cup {"next_attempt"} =>
    /\ provider[t] < MaxAttempts
    /\ schema[t] <= SchemaRegenerate
    /\ attempt[t] =
         provider[t] + schema[t] + (IF pc[t] \in Trying THEN 1 ELSE 0)

BudgetInv == \A t \in Threads : Budgeted(t) /\ ~At(t, "fell_through")

VlmInv ==
  TypeOK /\ PermitsAddUp /\ LockInv /\ SleepInv /\ StampsAreSpaced /\ BudgetInv

USE DEF At, GoTo, Places, Nobody, AfterPermit

\* Initially nobody is admitted, nobody sleeps and nothing was counted.
LEMMA VlmInvInit == Init => VlmInv
<1> SUFFICES ASSUME Init PROVE VlmInv
  OBVIOUS
<1> USE VlmAssumption, NobodyAssumption DEF Init
<1>1. TypeOK
  BY DEF TypeOK
<1>2. PermitsAddUp
  <2>1. Admitted = {}
    BY DEF Admitted
  <2> QED BY <2>1, FS_EmptySet DEF PermitsAddUp
<1>3. LockInv /\ SleepInv /\ StampsAreSpaced
  BY DEF LockInv, SleepInv, StampsAreSpaced
<1>4. BudgetInv
  BY DEF BudgetInv, Budgeted, Trying
<1> QED BY <1>1, <1>2, <1>3, <1>4 DEF VlmInv

\* Admitting a thread, or letting one go, changes the count by one.
LEMMA AdmittedCount ==
  ASSUME TypeOK
  PROVE  /\ IsFiniteSet(Admitted)
         /\ Cardinality(Admitted) \in Nat
         /\ \A t \in Threads :
              /\ t \notin Admitted =>
                   Cardinality(Admitted \cup {t}) = Cardinality(Admitted) + 1
              /\ t \in Admitted =>
                   Cardinality(Admitted \ {t}) = Cardinality(Admitted) - 1
<1>1. IsFiniteSet(Admitted)
  BY VlmAssumption, FS_Subset DEF Admitted
<1>2. Cardinality(Admitted) \in Nat
  BY <1>1, FS_CardinalityType
<1>3. \A t \in Threads : t \notin Admitted =>
        Cardinality(Admitted \cup {t}) = Cardinality(Admitted) + 1
  BY <1>1, FS_AddElement
<1>4. \A t \in Threads : t \in Admitted =>
        Cardinality(Admitted \ {t}) = Cardinality(Admitted) - 1
  BY <1>1, FS_RemoveElement
<1> QED BY <1>1, <1>2, <1>3, <1>4

\* Every step keeps the types and the permits: taking one admits a thread,
\* returning one lets that thread go, and nothing else touches either.
LEMMA PermitSteps ==
  ASSUME VlmInv, [Next]_vars
  PROVE  TypeOK' /\ PermitsAddUp'
<1> USE VlmAssumption, NobodyAssumption DEF VlmInv
<1>0. /\ TypeOK /\ PermitsAddUp /\ BudgetInv
      /\ Cardinality(Admitted) \in Nat
  BY AdmittedCount
<1>1. ASSUME NEW t \in Threads, Acquire(t) PROVE TypeOK' /\ PermitsAddUp'
  <2>1. Admitted' = Admitted \cup {t} /\ t \notin Admitted
    BY <1>0, <1>1 DEF Acquire, Admitted, TypeOK
  <2>2. PermitsAddUp'
    BY <1>0, <1>1, <2>1, AdmittedCount DEF Acquire, PermitsAddUp, TypeOK
  <2>3. TypeOK'
    BY <1>0, <1>1 DEF Acquire, TypeOK, retries
  <2> QED BY <2>2, <2>3
<1>2. ASSUME NEW t \in Threads, pc[t] = "in_flight", permits' = permits + 1,
             NEW place \in {"output", "next_attempt", "error"},
             GoTo(t, place)
      PROVE  PermitsAddUp' /\ permits' \in 0..MaxConcurrent
  <2>1. Admitted' = Admitted \ {t} /\ t \in Admitted
    BY <1>0, <1>2 DEF Admitted, TypeOK
  <2>2. Cardinality(Admitted') = Cardinality(Admitted) - 1
    BY <1>0, <2>1, AdmittedCount
  <2>3. Cardinality(Admitted') \in Nat
    BY <2>1, AdmittedCount, FS_RemoveElement, FS_CardinalityType
  <2> QED BY <1>0, <1>2, <2>2, <2>3 DEF PermitsAddUp, TypeOK
<1>3. ASSUME NEW t \in Threads, CallSucceeds(t) PROVE TypeOK' /\ PermitsAddUp'
  <2>1. PermitsAddUp' /\ permits' \in 0..MaxConcurrent
    BY <1>2, <1>3 DEF CallSucceeds
  <2> QED BY <1>0, <1>3, <2>1 DEF CallSucceeds, TypeOK, retries
<1>4. ASSUME NEW t \in Threads, NEW kind \in ErrorKinds, CallFails(t, kind)
      PROVE  TypeOK' /\ PermitsAddUp'
  <2>1. PermitsAddUp' /\ permits' \in 0..MaxConcurrent
    BY <1>2, <1>4 DEF CallFails, Classify
  <2>2. /\ provider[t] \in 0..(MaxAttempts - 1)
        /\ schema[t] \in 0..SchemaRegenerate
    BY <1>0, <1>4 DEF CallFails, BudgetInv, Budgeted, Trying, TypeOK
  <2>3. /\ provider' \in [Threads -> 0..MaxAttempts]
        /\ schema' \in [Threads -> 0..(SchemaRegenerate + 1)]
    BY <1>0, <1>4, <2>2 DEF CallFails, Classify, TypeOK
  <2> QED BY <1>0, <1>4, <2>1, <2>3 DEF CallFails, Classify, TypeOK
<1>5. ASSUME NEW t \in Threads, NextAttempt(t) PROVE TypeOK' /\ PermitsAddUp'
  <2>1. TypeOK'
    BY <1>0, <1>5 DEF NextAttempt, TypeOK, scheduler
  <2>2. Admitted' = Admitted
    BY <1>0, <1>5 DEF NextAttempt, TypeOK, Admitted
  <2> QED BY <1>0, <1>5, <2>1, <2>2 DEF NextAttempt, PermitsAddUp, scheduler
<1>6. ASSUME NEW t \in Threads, LockInterval(t) PROVE TypeOK' /\ PermitsAddUp'
  <2>1. TypeOK'
    BY <1>0, <1>6 DEF LockInterval, CheckGap, TypeOK, retries
  <2>2. Admitted' = Admitted
    BY <1>0, <1>6 DEF LockInterval, CheckGap, TypeOK, Admitted
  <2> QED BY <1>0, <1>6, <2>1, <2>2 DEF LockInterval, CheckGap, PermitsAddUp
<1>7. ASSUME NEW t \in Threads, WakeUp(t) \/ Stamp(t) \/ StartCall(t)
      PROVE TypeOK' /\ PermitsAddUp'
  <2>1. TypeOK'
    BY <1>0, <1>7
    DEF WakeUp, Stamp, StartCall, TypeOK, retries, scheduler
  <2>2. Admitted' = Admitted
    BY <1>0, <1>7
    DEF WakeUp, Stamp, StartCall, TypeOK, Admitted
  <2> QED BY <1>0, <1>7, <2>1, <2>2
          DEF WakeUp, Stamp, StartCall, PermitsAddUp, scheduler
<1>8. CASE Tick
  BY <1>0, <1>8 DEF Tick, TypeOK, PermitsAddUp, Admitted, retries
<1>9. CASE UNCHANGED vars
  BY <1>0, <1>9 DEF vars, TypeOK, PermitsAddUp, Admitted
<1> QED BY <1>1, <1>3, <1>4, <1>5, <1>6, <1>7, <1>8, <1>9 DEF Next, Step

\* Every step keeps the spacing: the lock admits one sleeper or stamper, so
\* nobody else resets the gap that one waits for, and time only helps it.
LEMMA SpacingSteps ==
  ASSUME VlmInv, [Next]_vars
  PROVE  LockInv' /\ SleepInv' /\ StampsAreSpaced'
<1> USE VlmAssumption, NobodyAssumption DEF VlmInv, LockInv, SleepInv, StampsAreSpaced
<1>0. TypeOK
  OBVIOUS
<1>1. ASSUME NEW t \in Threads, LockInterval(t)
      PROVE  LockInv' /\ SleepInv' /\ StampsAreSpaced'
  BY <1>0, <1>1 DEF LockInterval, CheckGap, TypeOK
<1>2. ASSUME NEW t \in Threads, WakeUp(t)
      PROVE  LockInv' /\ SleepInv' /\ StampsAreSpaced'
  BY <1>0, <1>2 DEF WakeUp, TypeOK, scheduler
<1>3. ASSUME NEW t \in Threads, Stamp(t)
      PROVE  LockInv' /\ SleepInv' /\ StampsAreSpaced'
  BY <1>0, <1>3 DEF Stamp, TypeOK
<1>4. ASSUME NEW t \in Threads,
             \/ NextAttempt(t) \/ Acquire(t)
             \/ StartCall(t) \/ CallSucceeds(t)
             \/ \E kind \in ErrorKinds : CallFails(t, kind)
      PROVE  LockInv' /\ SleepInv' /\ StampsAreSpaced'
  BY <1>0, <1>4
  DEF NextAttempt, Acquire, StartCall, CallSucceeds, CallFails,
      Classify, TypeOK, scheduler
<1>5. CASE Tick
  BY <1>0, <1>5 DEF Tick, TypeOK
<1>6. CASE UNCHANGED vars
  BY <1>6 DEF vars
<1> QED BY <1>1, <1>2, <1>3, <1>4, <1>5, <1>6 DEF Next, Step

\* Every step keeps the budgets: a failure that is retried leaves room in the
\* budget of its kind, and the range is as long as both budgets together.
LEMMA BudgetSteps ==
  ASSUME VlmInv, [Next]_vars
  PROVE  BudgetInv'
<1> USE VlmAssumption, NobodyAssumption DEF VlmInv, BudgetInv, Budgeted, Trying
<1>0. TypeOK
  OBVIOUS
<1>1. ASSUME NEW t \in Threads, NextAttempt(t) PROVE BudgetInv'
  BY <1>0, <1>1 DEF NextAttempt, TypeOK
<1>2. ASSUME NEW t \in Threads, NEW kind \in ErrorKinds, CallFails(t, kind)
      PROVE  BudgetInv'
  BY <1>0, <1>2 DEF CallFails, Classify, WillRetry, TypeOK, ErrorKinds
<1>3. ASSUME NEW t \in Threads,
             \/ Acquire(t) \/ LockInterval(t) \/ WakeUp(t)
             \/ Stamp(t) \/ StartCall(t) \/ CallSucceeds(t)
      PROVE  BudgetInv'
  BY <1>0, <1>3
  DEF Acquire, LockInterval, CheckGap, WakeUp, Stamp, StartCall,
      CallSucceeds, TypeOK, retries
<1>4. CASE Tick \/ UNCHANGED vars
  BY <1>0, <1>4 DEF Tick, vars, retries, TypeOK
<1> QED BY <1>1, <1>2, <1>3, <1>4 DEF Next, Step

\* The invariant holds throughout.
LEMMA VlmInvHolds == Spec => []VlmInv
<1>1. Init => VlmInv
  BY VlmInvInit
<1>2. VlmInv /\ [Next]_vars => VlmInv'
  BY PermitSteps, SpacingSteps, BudgetSteps DEF VlmInv
<1> QED BY <1>1, <1>2, PTL DEF Spec

\* VlmScheduler.run: for any cap and any number of threads the permits out and
\* left add up to the cap, so at most max_concurrent_requests calls are open.
THEOREM CapHolds == Spec => [](TypeOK /\ PermitsAddUp)
<1>1. VlmInv => TypeOK /\ PermitsAddUp
  BY DEF VlmInv
<1> QED BY <1>1, VlmInvHolds, PTL

\* VlmScheduler.run: whatever the interval and the interleaving, the recorded
\* starts are at least min_request_interval apart.
THEOREM StampSpacing == Spec => []StampsAreSpaced
<1>1. VlmInv => StampsAreSpaced
  BY DEF VlmInv
<1> QED BY <1>1, VlmInvHolds, PTL

\* execute_vlm_with_retry: for any two budgets the code after the loop, which
\* the source calls unreachable, is not reached.
THEOREM LoopNeverFallsThrough == Spec => []NeverFallsThrough
<1>1. VlmInv => NeverFallsThrough
  BY DEF VlmInv, BudgetInv, NeverFallsThrough
<1> QED BY <1>1, VlmInvHolds, PTL

-----------------------------------------------------------------------------
(* The dispatch order. *)

\* Where the i-th high_freq unit and the i-th default unit go, of h and d units
\* under the quota q.
HfPlace(h, d, q, i) == i + Min({d, (i - 1) \div q})
DfPlace(h, d, q, i) == i + Min({h, q * i})

\* The smaller of two numbers.
LEMMA MinOfTwo ==
  ASSUME NEW a \in Int, NEW b \in Int
  PROVE  Min({a, b}) = IF a <= b THEN a ELSE b
<1>1. \E x \in {a, b} : \A y \in {a, b} : x <= y
  OBVIOUS
<1>2. Min({a, b}) \in {a, b} /\ \A y \in {a, b} : Min({a, b}) <= y
  BY <1>1 DEF Min
<1> QED BY <1>2

\* Products and quotients keep their order.
LEMMA Scaling ==
  ASSUME NEW q \in Nat \ {0}
  PROVE  /\ \A a \in Nat : a \div q \in Nat /\ a \div q <= a
         /\ \A a, b \in Nat : a <= b => a \div q <= b \div q
         /\ \A a, b \in Nat : q * a \in Nat /\ (a <= b => q * a <= q * b)
         /\ \A a, b \in Nat : a < q * b <=> a \div q < b
<1>1. \A a, b \in Int : a <= b => q * a <= q * b
  OBVIOUS
<1>2. \A a, b \in Nat : q * a \in Nat
  OBVIOUS
<1>3. \A a \in Nat : /\ a \div q \in Int
                     /\ q * (a \div q) <= a /\ a < q * (a \div q) + q
  OBVIOUS
<1>4. \A x \in Int : q * (x + 1) = q * x + q
  OBVIOUS
<1>5. \A a \in Nat : a \div q \in Nat
  <2> TAKE a \in Nat
  <2>1. CASE a \div q <= -1
    <3>1. q * (a \div q) <= q * (-1)
      BY <1>1, <1>3, <2>1
    <3>2. q * (-1) = -q
      OBVIOUS
    <3> QED BY <1>3, <3>1, <3>2
  <2> QED BY <1>3, <2>1
<1>6. \A a, b \in Nat : a < q * b <=> a \div q < b
  <2> TAKE a, b \in Nat
  <2>1. ASSUME a \div q < b PROVE a < q * b
    <3>1. a \div q + 1 <= b /\ a \div q + 1 \in Int
      BY <1>3, <2>1
    <3>2. q * (a \div q + 1) <= q * b
      BY <1>1, <3>1
    <3>3. q * (a \div q + 1) = q * (a \div q) + q
      BY <1>3, <1>4
    <3>4. q * b \in Nat /\ a < q * (a \div q) + q
      BY <1>2, <1>3
    <3> QED BY <3>2, <3>3, <3>4
  <2>2. ASSUME ~(a \div q < b) PROVE ~(a < q * b)
    <3>1. q * b <= q * (a \div q)
      BY <1>1, <1>3, <2>2
    <3>2. q * (a \div q) <= a /\ q * b \in Nat /\ q * (a \div q) \in Int
      BY <1>2, <1>3
    <3> QED BY <3>1, <3>2
  <2> QED BY <2>1, <2>2
<1>7. \A a, b \in Nat : a <= b => a \div q <= b \div q
  <2> SUFFICES ASSUME NEW a \in Nat, NEW b \in Nat, a <= b, ~(a \div q <= b \div q)
               PROVE  FALSE
    OBVIOUS
  <2>1. b \div q < a \div q /\ b \div q \in Nat /\ a \div q \in Nat
    BY <1>5
  <2>2. b < q * (a \div q)
    BY <1>6, <2>1
  <2>3. q * (a \div q) <= a /\ q * (a \div q) \in Int
    BY <1>3
  <2> QED BY <2>2, <2>3
<1>8. \A a \in Nat : a \div q <= a
  <2> TAKE a \in Nat
  <2>1. a + 1 \in Nat /\ 1 <= q
    OBVIOUS
  <2>2. a + 1 <= q * (a + 1)
    OBVIOUS
  <2>3. a < q * (a + 1)
    BY <2>1, <2>2
  <2>4. a \div q < a + 1
    BY <1>6, <2>1, <2>3
  <2> QED BY <1>5, <2>4
<1>9. \A a, b \in Nat : q * a \in Nat /\ (a <= b => q * a <= q * b)
  BY <1>1, <1>2
<1> QED BY <1>5, <1>6, <1>7, <1>8, <1>9

\* The places of the two scales are apart, in the order of their plans and
\* within the queue; a default unit comes after at most q more high_freq units
\* than the default unit before it.
LEMMA PlacesApart ==
  ASSUME NEW h \in Nat, NEW d \in Nat, NEW q \in Nat \ {0}
  PROVE  /\ \A i \in 1..h : HfPlace(h, d, q, i) \in 1..(h + d)
         /\ \A i \in 1..d : DfPlace(h, d, q, i) \in 1..(h + d)
         /\ \A i, j \in 1..h : i < j => HfPlace(h, d, q, i) < HfPlace(h, d, q, j)
         /\ \A i, j \in 1..d : i < j => DfPlace(h, d, q, i) < DfPlace(h, d, q, j)
         /\ \A i \in 1..h, j \in 1..d : HfPlace(h, d, q, i) # DfPlace(h, d, q, j)
         /\ d > 0 => DfPlace(h, d, q, 1) <= q + 1
         /\ \A i \in 1..d : i > 1 =>
              DfPlace(h, d, q, i) - DfPlace(h, d, q, i - 1) <= q + 1
<1> DEFINE H(i) == HfPlace(h, d, q, i)
           D(i) == DfPlace(h, d, q, i)
<1>1. \A i \in 1..h : /\ i - 1 \in Nat /\ (i - 1) \div q \in Nat
                      /\ H(i) = IF d <= (i - 1) \div q THEN i + d ELSE i + (i - 1) \div q
  <2> TAKE i \in 1..h
  <2>1. i - 1 \in Nat
    OBVIOUS
  <2>2. (i - 1) \div q \in Nat
    BY <2>1, Scaling
  <2>3. Min({d, (i - 1) \div q}) = IF d <= (i - 1) \div q THEN d ELSE (i - 1) \div q
    BY <2>2, MinOfTwo
  <2> QED BY <2>1, <2>2, <2>3 DEF HfPlace
<1>2. \A i \in 1..d : /\ q * i \in Nat
                      /\ D(i) = IF h <= q * i THEN i + h ELSE i + q * i
  <2> TAKE i \in 1..d
  <2>1. i \in Nat
    OBVIOUS
  <2>2. q * i \in Nat
    BY <2>1, Scaling
  <2>3. Min({h, q * i}) = IF h <= q * i THEN h ELSE q * i
    BY <2>2, MinOfTwo
  <2> QED BY <2>2, <2>3 DEF DfPlace
<1> HIDE DEF H, D
<1>3. \A i \in 1..h : H(i) \in 1..(h + d)
  <2> TAKE i \in 1..h
  <2> DEFINE e == (i - 1) \div q
  <2>1. e \in Nat /\ H(i) = IF d <= e THEN i + d ELSE i + e
    BY <1>1
  <2> HIDE DEF e
  <2> QED BY <2>1
<1>4. \A i \in 1..d : D(i) \in 1..(h + d)
  <2> TAKE i \in 1..d
  <2> DEFINE e == q * i
  <2>1. e \in Nat /\ D(i) = IF h <= e THEN i + h ELSE i + e
    BY <1>2
  <2> HIDE DEF e
  <2> QED BY <2>1
<1>5. ASSUME NEW i \in 1..h, NEW j \in 1..h, i < j
      PROVE  H(i) < H(j)
  <2> DEFINE e == (i - 1) \div q
             f == (j - 1) \div q
  <2>1. /\ e \in Nat /\ H(i) = IF d <= e THEN i + d ELSE i + e
        /\ f \in Nat /\ H(j) = IF d <= f THEN j + d ELSE j + f
    BY <1>1
  <2>2. e <= f
    <3>1. i - 1 \in Nat /\ j - 1 \in Nat /\ i - 1 <= j - 1
      BY <1>5
    <3> QED BY <3>1, Scaling
  <2> HIDE DEF e, f
  <2> QED BY <1>5, <2>1, <2>2
<1>6. ASSUME NEW i \in 1..d, NEW j \in 1..d, i < j
      PROVE  D(i) < D(j)
  <2> DEFINE e == q * i
             f == q * j
  <2>1. /\ e \in Nat /\ D(i) = IF h <= e THEN i + h ELSE i + e
        /\ f \in Nat /\ D(j) = IF h <= f THEN j + h ELSE j + f
    BY <1>2
  <2>2. e <= f
    <3>1. i \in Nat /\ j \in Nat /\ i <= j
      BY <1>6
    <3> QED BY <3>1, Scaling
  <2> HIDE DEF e, f
  <2> QED BY <1>6, <2>1, <2>2
<1>7. ASSUME NEW i \in 1..h, NEW j \in 1..d
      PROVE  H(i) # D(j)
  <2> DEFINE e == (i - 1) \div q
             f == q * j
  <2>1. /\ e \in Nat /\ H(i) = IF d <= e THEN i + d ELSE i + e
        /\ f \in Nat /\ D(j) = IF h <= f THEN j + h ELSE j + f
    BY <1>1, <1>2
  <2>2. i - 1 < f <=> e < j
    <3>1. i - 1 \in Nat /\ j \in Nat
      OBVIOUS
    <3> QED BY <3>1, Scaling
  <2> HIDE DEF e, f
  <2> QED BY <2>1, <2>2
<1>8. ASSUME d > 0
      PROVE  D(1) <= q + 1
  <2>1. 1 \in 1..d /\ q * 1 = q
    BY <1>8
  <2> QED BY <1>2, <2>1
<1>9. ASSUME NEW i \in 1..d, i > 1
      PROVE  D(i) - D(i - 1) <= q + 1
  <2> DEFINE e == q * (i - 1)
             f == q * i
  <2>1. i - 1 \in 1..d
    BY <1>9
  <2>2. /\ e \in Nat /\ D(i - 1) = IF h <= e THEN (i - 1) + h ELSE (i - 1) + e
        /\ f \in Nat /\ D(i) = IF h <= f THEN i + h ELSE i + f
    BY <1>2, <2>1
  <2>3. f = e + q
    OBVIOUS
  <2> HIDE DEF e, f
  <2> QED BY <2>2, <2>3
<1> QED BY <1>3, <1>4, <1>5, <1>6, <1>7, <1>8, <1>9 DEF H, D

\* As many places as units.
LEMMA ImageSize ==
  ASSUME NEW n \in Nat, NEW f \in [1..n -> Int],
         \A i, j \in 1..n : i < j => f[i] < f[j]
  PROVE  Cardinality({f[i] : i \in 1..n}) = n
<1> DEFINE T == {f[i] : i \in 1..n}
<1>1. \A i, j \in 1..n : f[i] = f[j] => i = j
  <2> SUFFICES ASSUME NEW i \in 1..n, NEW j \in 1..n, f[i] = f[j]
               PROVE  i = j
    OBVIOUS
  <2>1. f[i] \in Int /\ f[j] \in Int
    OBVIOUS
  <2> QED BY <2>1
<1>2. f \in [1..n -> T]
  OBVIOUS
<1>3. \A t \in T : \E i \in 1..n : f[i] = t
  OBVIOUS
<1> HIDE DEF T
<1>4. f \in Bijection(1..n, T)
  BY <1>1, <1>2, <1>3 DEF Bijection, Injection, Surjection, IsInjective
<1>5. ExistsBijection(1..n, T)
  BY <1>4 DEF ExistsBijection
<1>6. IsFiniteSet(1..n) /\ Cardinality(1..n) = n
  BY FS_Interval
<1> QED BY <1>5, <1>6, FS_Bijection DEF T

\* The two scales leave no place of the queue empty.
LEMMA PlacesCover ==
  ASSUME NEW h \in Nat, NEW d \in Nat, NEW q \in Nat \ {0}, NEW n \in 1..(h + d)
  PROVE  \/ \E i \in 1..h : HfPlace(h, d, q, i) = n
         \/ \E i \in 1..d : DfPlace(h, d, q, i) = n
<1> DEFINE all == 1..(h + d)
           H(i) == HfPlace(h, d, q, i)
           D(i) == DfPlace(h, d, q, i)
           f == [k \in all |-> IF k <= h THEN H(k) ELSE D(k - h)]
<1>1. \A k \in all : \/ k <= h /\ k \in 1..h
                     \/ ~(k <= h) /\ k - h \in 1..d
  OBVIOUS
<1>2. /\ \A i \in 1..h : H(i) \in all
      /\ \A i \in 1..d : D(i) \in all
      /\ \A i, j \in 1..h : i < j => H(i) < H(j)
      /\ \A i, j \in 1..d : i < j => D(i) < D(j)
      /\ \A i \in 1..h : \A j \in 1..d : H(i) # D(j)
  BY PlacesApart
<1> HIDE DEF H, D
<1>3. f \in [all -> all]
  BY <1>1, <1>2
<1>4. /\ \A i, j \in 1..h : H(i) = H(j) => i = j
      /\ \A i, j \in 1..d : D(i) = D(j) => i = j
  BY <1>2
<1>5. \A k, l \in all : f[k] = f[l] => k = l
  <2> SUFFICES ASSUME NEW k \in all, NEW l \in all, f[k] = f[l]
               PROVE  k = l
    OBVIOUS
  <2>1. CASE k <= h /\ l <= h
    BY <1>1, <1>4, <2>1
  <2>2. CASE ~(k <= h) /\ ~(l <= h)
    <3>1. k - h \in 1..d /\ l - h \in 1..d /\ D(k - h) = D(l - h)
      BY <1>1, <2>2
    <3>2. k - h = l - h
      BY <1>4, <3>1
    <3> QED BY <3>2
  <2>3. CASE k <= h /\ ~(l <= h)
    BY <1>1, <1>2, <2>3
  <2>4. CASE ~(k <= h) /\ l <= h
    <3>1. k - h \in 1..d /\ l \in 1..h /\ D(k - h) = H(l)
      BY <1>1, <2>4
    <3> QED BY <1>2, <3>1
  <2> QED BY <2>1, <2>2, <2>3, <2>4
<1>6. f \in Injection(all, all)
  BY <1>3, <1>5 DEF Injection, IsInjective
<1>7. IsFiniteSet(all)
  <2>1. 1 \in Int /\ h + d \in Int
    OBVIOUS
  <2> QED BY <2>1, FS_Interval
<1> HIDE DEF f
<1>8. f \in Surjection(all, all)
  BY <1>6, <1>7, FS_Injection
<1>9. PICK k \in all : f[k] = n
  BY <1>8 DEF Surjection
<1>10. CASE k <= h
  BY <1>1, <1>9, <1>10 DEF f, H
<1>11. CASE ~(k <= h)
  BY <1>1, <1>9, <1>11 DEF f, D
<1> QED BY <1>10, <1>11

-----------------------------------------------------------------------------
\* What is in each place of the queue of two plans.
Placed(hf, df) ==
  LET h == Len(hf)
      d == Len(df)
      q == Max({1, Quota})
      order == DispatchOrder(hf, df)
  IN /\ q \in Nat \ {0}
     /\ DOMAIN order = 1..(h + d) /\ Len(order) = h + d
     /\ \A i \in 1..h : order[HfPlace(h, d, q, i)]
                          = [scale |-> "high_freq_event", window |-> hf[i]]
     /\ \A i \in 1..d : order[DfPlace(h, d, q, i)]
                          = [scale |-> "default_segment", window |-> df[i]]

\* The order puts the units where the counting has them.
LEMMA OrderPlaces ==
  ASSUME NEW S, NEW hf \in Seq(S), NEW df \in Seq(S)
  PROVE  Placed(hf, df)
<1> DEFINE h == Len(hf)
           d == Len(df)
           q == Max({1, Quota})
           order == DispatchOrder(hf, df)
           H(i) == HfPlace(h, d, q, i)
           D(i) == DfPlace(h, d, q, i)
           all == 1..(h + d)
<1>1. q \in Nat \ {0}
  <2>1. Quota \in Int
    BY PlanningAssumption
  <2>2. \E x \in {1, Quota} : \A y \in {1, Quota} : x >= y
    BY <2>1
  <2>3. q \in {1, Quota} /\ q >= 1
    BY <2>2 DEF Max
  <2> QED BY <2>1, <2>3
<1>2. h \in Nat /\ d \in Nat /\ DOMAIN hf = 1..h /\ DOMAIN df = 1..d
  OBVIOUS
<1>3. order = [n \in all |->
        IF \E i \in DOMAIN hf : H(i) = n
        THEN [scale |-> "high_freq_event",
              window |-> hf[CHOOSE i \in DOMAIN hf : H(i) = n]]
        ELSE [scale |-> "default_segment",
              window |-> df[CHOOSE i \in DOMAIN df : D(i) = n]]]
  BY DEF DispatchOrder, HfPlace, DfPlace
<1> HIDE DEF q, order
<1>4. DOMAIN order = all
  BY <1>3
<1>5. Len(order) = h + d
  <2>1. h + d \in Nat
    BY <1>2
  <2>2. \A n \in all : order[n] = order[n]
    OBVIOUS
  <2>3. order \in [all -> {order[n] : n \in all}]
    BY <1>3
  <2>4. order \in Seq({order[n] : n \in all})
    BY <2>1, <2>3
  <2> QED BY <1>4, <2>1, <2>4
<1>6. /\ \A i \in 1..h : H(i) \in all
      /\ \A i \in 1..d : D(i) \in all
      /\ \A i, j \in 1..h : i < j => H(i) < H(j)
      /\ \A i, j \in 1..d : i < j => D(i) < D(j)
      /\ \A i \in 1..h : \A j \in 1..d : H(i) # D(j)
  BY <1>1, <1>2, PlacesApart
<1> HIDE DEF H, D
<1>7. /\ \A i, j \in 1..h : H(i) = H(j) => i = j
      /\ \A i, j \in 1..d : D(i) = D(j) => i = j
  BY <1>2, <1>6
<1>8. ASSUME NEW i \in 1..h
      PROVE  order[H(i)] = [scale |-> "high_freq_event", window |-> hf[i]]
  <2>1. H(i) \in all /\ i \in DOMAIN hf
    BY <1>2, <1>6
  <2>2. (CHOOSE j \in DOMAIN hf : H(j) = H(i)) = i
    BY <1>2, <1>7, <2>1
  <2> QED BY <1>3, <2>1, <2>2
<1>9. ASSUME NEW i \in 1..d
      PROVE  order[D(i)] = [scale |-> "default_segment", window |-> df[i]]
  <2>1. D(i) \in all /\ i \in DOMAIN df
    BY <1>2, <1>6
  <2>2. ~ \E j \in DOMAIN hf : H(j) = D(i)
    BY <1>2, <1>6
  <2>3. (CHOOSE j \in DOMAIN df : D(j) = D(i)) = i
    BY <1>2, <1>7, <2>1
  <2> QED BY <1>3, <2>1, <2>2, <2>3
<1> QED BY <1>1, <1>4, <1>5, <1>8, <1>9 DEF Placed, q, order, H, D

\* The c units of scale s are where `at' says, in order.
InOrder(order, len, s, c, at) ==
  /\ len \in Nat /\ c \in Nat
  /\ at \in [1..c -> 1..len]
  /\ \A i, j \in 1..c : i < j => at[i] < at[j]
  /\ \A n \in 1..len : order[n].scale = s <=> \E i \in 1..c : at[i] = n
TurnAt(order, n) == Cardinality({m \in 1..n : order[m].scale = order[n].scale})

\* The unit in a place is the one whose turn it is.
LEMMA TurnsOf ==
  ASSUME NEW order, NEW len, NEW s, NEW c, NEW at, InOrder(order, len, s, c, at),
         NEW i \in 1..c
  PROVE  TurnAt(order, at[i]) = i
<1>0. /\ len \in Nat /\ c \in Nat
      /\ at \in [1..c -> 1..len]
      /\ \A k, j \in 1..c : k < j => at[k] < at[j]
      /\ \A n \in 1..len : order[n].scale = s <=> \E k \in 1..c : at[k] = n
  BY DEF InOrder
<1> DEFINE f == [k \in 1..i |-> at[k]]
           T == {m \in 1..at[i] : order[m].scale = order[at[i]].scale}
<1>1. \A k \in 1..i : k \in 1..c /\ at[k] \in 1..len /\ at[k] \in Int
  BY <1>0
<1>2. i \in Nat /\ f \in [1..i -> Int] /\ at[i] \in 1..len /\ order[at[i]].scale = s
  BY <1>0, <1>1
<1>3. \A j, k \in 1..i : j < k => f[j] < f[k]
  BY <1>0, <1>1
<1>4. T = {f[k] : k \in 1..i}
  <2>1. ASSUME NEW m \in T
        PROVE  \E k \in 1..i : f[k] = m
    <3>1. m \in 1..at[i] /\ m \in 1..len /\ order[m].scale = s
      BY <1>0, <1>2
    <3>2. PICK k \in 1..c : at[k] = m
      BY <1>0, <3>1
    <3>3. k \in 1..i
      <4>1. CASE i < k
        <5>1. at[i] < at[k]
          BY <1>0, <4>1
        <5> QED BY <1>0, <1>2, <3>1, <3>2, <5>1
      <4> QED BY <1>0, <4>1
    <3> QED BY <3>2, <3>3
  <2>2. ASSUME NEW k \in 1..i
        PROVE  f[k] \in T
    <3>1. k \in 1..c /\ at[k] \in 1..len /\ order[at[k]].scale = s
      BY <1>0, <1>1
    <3>2. at[k] <= at[i]
      <4>1. CASE k = i
        BY <1>2, <4>1
      <4>2. CASE k < i
        BY <1>0, <1>1, <1>2, <4>2
      <4> QED BY <4>1, <4>2
    <3>3. at[k] \in 1..at[i]
      BY <1>2, <3>1, <3>2
    <3> QED BY <1>2, <3>1, <3>3
  <2> HIDE DEF T
  <2> QED BY <2>1, <2>2
<1> HIDE DEF f
<1>5. Cardinality({f[k] : k \in 1..i}) = i
  BY <1>2, <1>3, ImageSize
<1> QED BY <1>4, <1>5 DEF TurnAt

\* The order of any two plans is fair.
LEMMA OrderIsFair ==
  ASSUME NEW S, NEW hf \in Seq(S), NEW df \in Seq(S)
  PROVE  Fair(DispatchOrder(hf, df), hf, df, Max({1, Quota}))
<1> DEFINE h == Len(hf)
           d == Len(df)
           q == Max({1, Quota})
           order == DispatchOrder(hf, df)
           H(i) == HfPlace(h, d, q, i)
           D(i) == DfPlace(h, d, q, i)
           len == h + d
<1>1. /\ q \in Nat \ {0}
      /\ DOMAIN order = 1..len /\ Len(order) = len
      /\ \A i \in 1..h : order[H(i)] = [scale |-> "high_freq_event", window |-> hf[i]]
      /\ \A i \in 1..d : order[D(i)] = [scale |-> "default_segment", window |-> df[i]]
  <2>1. Placed(hf, df)
    BY OrderPlaces
  <2> QED BY <2>1, Zenon DEF Placed
<1>2. h \in Nat /\ d \in Nat /\ len \in Nat /\ DOMAIN hf = 1..h /\ DOMAIN df = 1..d
  OBVIOUS
<1> HIDE DEF q, order, h, d
<1>3. /\ \A i \in 1..h : H(i) \in 1..len
      /\ \A i \in 1..d : D(i) \in 1..len
      /\ \A i, j \in 1..h : i < j => H(i) < H(j)
      /\ \A i, j \in 1..d : i < j => D(i) < D(j)
      /\ \A i \in 1..h : \A j \in 1..d : H(i) # D(j)
      /\ d > 0 => D(1) <= q + 1
      /\ \A i \in 1..d : i > 1 => D(i) - D(i - 1) <= q + 1
  BY <1>1, <1>2, PlacesApart
<1>4. \A n \in 1..len : (\E i \in 1..h : H(i) = n) \/ (\E i \in 1..d : D(i) = n)
  BY <1>1, <1>2, PlacesCover
<1> HIDE DEF H, D
<1>5. \A i \in 1..h : order[H(i)].scale = "high_freq_event" /\ order[H(i)].window = hf[i]
  <2> TAKE i \in 1..h
  <2>1. order[H(i)] = [scale |-> "high_freq_event", window |-> hf[i]]
    BY <1>1
  <2> QED BY ONLY <2>1
<1>6. \A i \in 1..d : order[D(i)].scale = "default_segment" /\ order[D(i)].window = df[i]
  <2> TAKE i \in 1..d
  <2>1. order[D(i)] = [scale |-> "default_segment", window |-> df[i]]
    BY <1>1
  <2> QED BY ONLY <2>1
<1>7. \A n \in 1..len :
        /\ order[n].scale = "high_freq_event" <=> \E i \in 1..h : H(i) = n
        /\ order[n].scale = "default_segment" <=> \E i \in 1..d : D(i) = n
  BY <1>4, <1>5, <1>6
<1> DEFINE Turn(n) == TurnAt(order, n)
<1>8. \A i \in 1..h : Turn(H(i)) = i
  <2> DEFINE at == [i \in 1..h |-> H(i)]
  <2>1. at \in [1..h -> 1..len] /\ \A i \in 1..h : at[i] = H(i)
    BY <1>3
  <2> HIDE DEF at
  <2>2. InOrder(order, len, "high_freq_event", h, at)
    <3>1. \A i, j \in 1..h : i < j => at[i] < at[j]
      BY <1>3, <2>1
    <3>2. \A n \in 1..len : order[n].scale = "high_freq_event" <=> \E i \in 1..h : at[i] = n
      BY <1>7, <2>1
    <3> QED BY <1>2, <2>1, <3>1, <3>2 DEF InOrder
  <2>3. \A i \in 1..h : TurnAt(order, at[i]) = i
    BY <2>2, TurnsOf
  <2> QED BY <2>1, <2>3
<1>9. \A i \in 1..d : Turn(D(i)) = i
  <2> DEFINE at == [i \in 1..d |-> D(i)]
  <2>1. at \in [1..d -> 1..len] /\ \A i \in 1..d : at[i] = D(i)
    BY <1>3
  <2> HIDE DEF at
  <2>2. InOrder(order, len, "default_segment", d, at)
    <3>1. \A i, j \in 1..d : i < j => at[i] < at[j]
      BY <1>3, <2>1
    <3>2. \A n \in 1..len : order[n].scale = "default_segment" <=> \E i \in 1..d : at[i] = n
      BY <1>7, <2>1
    <3> QED BY <1>2, <2>1, <3>1, <3>2 DEF InOrder
  <2>3. \A i \in 1..d : TurnAt(order, at[i]) = i
    BY <2>2, TurnsOf
  <2> QED BY <2>1, <2>3
<1> HIDE DEF Turn
<1> DEFINE PlanOf(s) == IF s = "high_freq_event" THEN hf ELSE df
<1>10. ASSUME NEW n \in 1..len
       PROVE  /\ Turn(n) \in DOMAIN PlanOf(order[n].scale)
              /\ order[n].window = PlanOf(order[n].scale)[Turn(n)]
  <2>1. CASE \E i \in 1..h : H(i) = n
    <3>1. PICK i \in 1..h : H(i) = n
      BY <2>1
    <3>2. Turn(n) = i /\ order[n].scale = "high_freq_event" /\ order[n].window = hf[i]
      BY <1>5, <1>8, <3>1
    <3> QED BY <1>2, <3>2
  <2>2. CASE \E i \in 1..d : D(i) = n
    <3>1. PICK i \in 1..d : D(i) = n
      BY <2>2
    <3>2. Turn(n) = i /\ order[n].scale = "default_segment" /\ order[n].window = df[i]
      BY <1>6, <1>9, <3>1
    <3> QED BY <1>2, <3>2
  <2> QED BY <1>4, <2>1, <2>2
<1>11. ASSUME NEW m \in 1..len, NEW n \in 1..len, m < n,
              order[n].scale = "default_segment",
              \A k \in m..(n - 1) : order[k].scale = "high_freq_event"
       PROVE  n - m <= q
  <2>1. PICK i \in 1..d : D(i) = n
    BY <1>7, <1>11
  <2>2. CASE i = 1
    <3>1. d > 0 /\ D(1) <= q + 1
      BY <1>2, <1>3, <2>2
    <3> QED BY <1>1, <1>2, <2>1, <2>2, <3>1
  <2>3. CASE i > 1
    <3> DEFINE p == D(i - 1)
    <3>1. i - 1 \in 1..d /\ i - 1 < i
      BY <1>2, <2>3
    <3>2. p \in 1..len /\ p < n /\ n - p <= q + 1
      BY <1>3, <2>1, <2>3, <3>1
    <3>3. order[p].scale = "default_segment"
      BY <1>6, <3>1
    <3> HIDE DEF p
    <3>4. p < m
      <4>1. CASE m <= p
        <5>1. p \in m..(n - 1)
          BY <1>2, <3>2, <4>1
        <5>2. order[p].scale = "high_freq_event"
          BY <1>11, <5>1
        <5> QED BY <3>3, <5>2
      <4> QED BY <1>2, <3>2, <4>1
    <3> QED BY <1>1, <1>2, <3>2, <3>4
  <2> QED BY <1>2, <2>2, <2>3
<1>12. Len(order) = Len(hf) + Len(df)
  BY <1>1 DEF h, d
<1>13. /\ Len(order) = Len(hf) + Len(df)
       /\ \A n \in DOMAIN order :
            /\ Turn(n) \in DOMAIN PlanOf(order[n].scale)
            /\ order[n].window = PlanOf(order[n].scale)[Turn(n)]
       /\ \A m, n \in DOMAIN order :
            (/\ m < n
             /\ order[n].scale = "default_segment"
             /\ \A k \in m..(n - 1) : order[k].scale = "high_freq_event")
            => n - m <= q
  BY <1>1, <1>10, <1>11, <1>12
<1> QED BY <1>13 DEF Fair, order, q, Turn, TurnAt, PlanOf

-----------------------------------------------------------------------------
(* The windows that the queue is made of. *)

\* The elements below one of a finite total order.
Down(S, R, k) == {j \in S : <<j, k>> \in R}

\* R orders the elements of S totally.
Orders(R, S) ==
  /\ \A a \in S : <<a, a>> \in R
  /\ \A a, b \in S : <<a, b>> \in R \/ <<b, a>> \in R
  /\ \A a, b \in S : <<a, b>> \in R /\ <<b, a>> \in R => a = b
  /\ \A a, b, c \in S : <<a, b>> \in R /\ <<b, c>> \in R => <<a, c>> \in R

\* Numbering the elements of a finite totally ordered set by how many are not
\* above them uses every number once, and the last number is the top element's.
LEMMA Ranks ==
  ASSUME NEW S, IsFiniteSet(S), NEW R, Orders(R, S)
  PROVE  /\ Cardinality(S) \in Nat
         /\ \A k \in S : Cardinality(Down(S, R, k)) \in 1..Cardinality(S)
         /\ \A i \in 1..Cardinality(S) :
              \E k \in S : Cardinality(Down(S, R, k)) = i
         /\ \A j, k \in S :
              Cardinality(Down(S, R, j)) = Cardinality(Down(S, R, k)) => j = k
         /\ S # {} => \E k \in S : \A j \in S : <<j, k>> \in R
<1> DEFINE n == Cardinality(S)
           f == [k \in S |-> Cardinality(Down(S, R, k))]
<1>1. n \in Nat
  BY FS_CardinalityType
<1>2. \A k \in S : /\ IsFiniteSet(Down(S, R, k))
                   /\ Cardinality(Down(S, R, k)) \in Nat
                   /\ Cardinality(Down(S, R, k)) <= n
  <2> TAKE k \in S
  <2>1. Down(S, R, k) \in SUBSET S
    BY DEF Down
  <2>2. IsFiniteSet(Down(S, R, k)) /\ Cardinality(Down(S, R, k)) <= n
    BY <2>1, FS_Subset
  <2> QED BY <2>2, FS_CardinalityType
<1>3. \A k \in S : Cardinality(Down(S, R, k)) # 0
  <2> TAKE k \in S
  <2>1. k \in Down(S, R, k)
    BY DEF Down, Orders
  <2> QED BY <1>2, <2>1, FS_EmptySet
<1>4. \A k \in S : f[k] \in 1..n
  BY <1>1, <1>2, <1>3
<1>5. \A a, b \in S : <<a, b>> \in R /\ a # b => f[a] # f[b]
  <2> SUFFICES ASSUME NEW a \in S, NEW b \in S, <<a, b>> \in R, a # b, f[a] = f[b]
               PROVE  FALSE
    OBVIOUS
  <2>1. Down(S, R, a) \in SUBSET Down(S, R, b)
    BY DEF Down, Orders
  <2>2. Cardinality(Down(S, R, b)) = Cardinality(Down(S, R, a))
    OBVIOUS
  <2>3. Down(S, R, b) = Down(S, R, a)
    BY <1>2, <2>1, <2>2, FS_Subset
  <2>4. b \in Down(S, R, b) /\ b \notin Down(S, R, a)
    BY DEF Down, Orders
  <2> QED BY <2>3, <2>4
<1>6. \A a, b \in S : f[a] = f[b] => a = b
  <2> SUFFICES ASSUME NEW a \in S, NEW b \in S, f[a] = f[b], a # b
               PROVE  FALSE
    OBVIOUS
  <2>1. CASE <<a, b>> \in R
    BY <1>5, <2>1
  <2>2. CASE <<b, a>> \in R
    BY <1>5, <2>2
  <2> QED BY <2>1, <2>2 DEF Orders
<1>7. f \in [S -> 1..n]
  BY <1>4
<1>8. f \in Injection(S, 1..n)
  BY <1>6, <1>7 DEF Injection, IsInjective
<1>9. IsFiniteSet(1..n) /\ Cardinality(1..n) = n
  BY <1>1, FS_Interval
<1>10. f \in Surjection(S, 1..n)
  BY <1>8, <1>9, FS_Injection
<1>11. \A i \in 1..n : \E k \in S : f[k] = i
  BY <1>10 DEF Surjection
<1>12. ASSUME S # {}
       PROVE  \E k \in S : \A j \in S : <<j, k>> \in R
  <2>1. n \in 1..n
    BY <1>1, <1>12, FS_EmptySet
  <2>2. PICK k \in S : f[k] = n
    BY <1>11, <2>1
  <2>3. Down(S, R, k) \in SUBSET S /\ Cardinality(Down(S, R, k)) = n
    BY <2>2 DEF Down
  <2>4. S = Down(S, R, k)
    BY <2>3, FS_Subset
  <2> QED BY <2>4 DEF Down
<1> QED BY <1>1, <1>4, <1>6, <1>11, <1>12

\* S is not empty and has no number beyond n.
Upper(S, n) == n \in Nat /\ S # {} /\ \A s \in S : s \in 1..n

\* A bounded set of numbers that is not empty has a least and a greatest one.
LEMMA Extremes ==
  ASSUME NEW S, NEW n, Upper(S, n)
  PROVE  /\ \E k \in S : \A j \in S : j <= k
         /\ \E k \in S : \A j \in S : j >= k
<1> DEFINE Up == {p \in Int \X Int : p[1] <= p[2]}
           Dn == {p \in Int \X Int : p[1] >= p[2]}
<1>1. IsFiniteSet(S)
  <2>1. IsFiniteSet(1..n)
    BY FS_Interval DEF Upper
  <2>2. S \in SUBSET (1..n)
    BY DEF Upper
  <2> QED BY ONLY <2>1, <2>2, FS_Subset
<1>2. S # {} /\ \A x \in S : x \in Int
  BY DEF Upper
<1>3. /\ \A x, y \in S : <<x, y>> \in Up <=> x <= y
      /\ \A x, y \in S : <<x, y>> \in Dn <=> x >= y
  BY <1>2
<1> HIDE DEF Up, Dn
<1>4. Orders(Up, S) /\ Orders(Dn, S)
  BY <1>2, <1>3 DEF Orders
<1>5. \E k \in S : \A j \in S : <<j, k>> \in Up
  BY <1>1, <1>2, <1>4, Ranks
<1>6. \E k \in S : \A j \in S : <<j, k>> \in Dn
  BY <1>1, <1>2, <1>4, Ranks
<1> QED BY <1>3, <1>5, <1>6

\* The larger of two numbers.
LEMMA MaxOfTwo ==
  ASSUME NEW a \in Int, NEW b \in Int
  PROVE  Max({a, b}) = IF a >= b THEN a ELSE b
<1>1. \E x \in {a, b} : \A y \in {a, b} : x >= y
  OBVIOUS
<1>2. Max({a, b}) \in {a, b} /\ \A y \in {a, b} : Max({a, b}) >= y
  BY <1>1 DEF Max
<1> QED BY <1>2

\* The windows of a plan.
Windows == [start : Int, end : Int]

\* The list ws keeps inside from..to and leaves none of it out.
Covers(ws, from, to) ==
  /\ ws \in Seq(Windows)
  /\ \A k \in DOMAIN ws :
       from <= ws[k].start /\ ws[k].start < ws[k].end /\ ws[k].end <= to
  /\ \A t \in from..(to - 1) :
       \E k \in DOMAIN ws : ws[k].start <= t /\ t < ws[k].end

\* Windows at least as long as they are apart leave nothing out.
LEMMA TileCovers ==
  ASSUME NEW from \in Int, NEW to \in Int, from < to,
         NEW window \in Nat, NEW step \in Nat \ {0}, step <= window
  PROVE  Covers(Tile(from, to, window, step), from, to)
<1> DEFINE N(k) == from + (k - 1) * step
           I == 1..(to - from)
           Ends(n) == /\ N(n) + window >= to
                      /\ \A k \in 1..(n - 1) : N(k) + window < to
           count == CHOOSE n \in I : Ends(n)
           T == [k \in 1..count |->
                   [start |-> N(k), end |-> Min({N(k) + window, to})]]
<1>1. Tile(from, to, window, step) = T
  BY DEF Tile
<1>2. N(1) = from
  OBVIOUS
<1>3. \A k \in Int : N(k) \in Int /\ N(k + 1) = N(k) + step
  <2> TAKE k \in Int
  <2>1. (k + 1 - 1) * step = (k - 1) * step + step
    OBVIOUS
  <2> QED BY <2>1
<1>4. \A k \in Int : k >= 1 => N(k) >= from + k - 1
  <2> SUFFICES ASSUME NEW k \in Int, k >= 1 PROVE (k - 1) * step >= k - 1
    OBVIOUS
  <2>1. \A a \in Nat : a * step >= a
    OBVIOUS
  <2> QED BY <2>1
<1> HIDE DEF N
<1>5. /\ count \in I
      /\ N(count) + window >= to
      /\ \A k \in 1..(count - 1) : N(k) + window < to
  <2> DEFINE Reach == {n \in I : N(n) + window >= to}
  <2>1. to - from \in Reach
    <3>1. to - from \in Int /\ to - from >= 1
      OBVIOUS
    <3>2. N(to - from) \in Int /\ N(to - from) >= from + (to - from) - 1
      BY <1>3, <1>4, <3>1
    <3> QED BY <3>1, <3>2
  <2>2. PICK n \in Reach : \A j \in Reach : j >= n
    <3>1. Upper(Reach, to - from)
      BY <2>1 DEF Upper
    <3> HIDE DEF Reach
    <3> QED BY <3>1, Extremes
  <2>3. n \in I /\ Ends(n)
    <3> SUFFICES ASSUME NEW k \in 1..(n - 1) PROVE N(k) + window < to
      BY <2>2
    <3>1. k \in I /\ k < n /\ k \in Int
      BY <2>2
    <3> QED BY <1>3, <2>2, <3>1
  <2> HIDE DEF I
  <2> QED BY <2>3
<1> HIDE DEF count
<1>6. \A k \in 1..count : N(k) < to
  <2> TAKE k \in 1..count
  <2>1. CASE k = 1
    BY <1>2, <2>1
  <2>2. CASE k # 1
    <3>1. k - 1 \in 1..(count - 1) /\ k - 1 \in Int /\ (k - 1) + 1 = k
      BY <1>5, <2>2
    <3>2. N(k - 1) + window < to /\ N(k) = N(k - 1) + step /\ N(k - 1) \in Int
      BY <1>3, <1>5, <3>1
    <3> QED BY <3>2
  <2> QED BY <2>1, <2>2
<1>7. \A k \in 1..count :
        Min({N(k) + window, to}) = IF N(k) + window <= to THEN N(k) + window ELSE to
  <2> TAKE k \in 1..count
  <2>1. N(k) + window \in Int
    BY <1>3, <1>5
  <2> QED BY <2>1, MinOfTwo
<1>8. /\ DOMAIN T = 1..count
      /\ \A k \in 1..count :
           /\ T[k].start = N(k)
           /\ T[k].end = IF N(k) + window <= to THEN N(k) + window ELSE to
           /\ T[k] \in Windows
  BY <1>3, <1>5, <1>7 DEF Windows
<1>9. T \in Seq(Windows)
  <2>1. count \in Nat
    BY <1>5
  <2>2. T \in [1..count -> Windows]
    BY <1>8
  <2> QED BY <2>1, <2>2
<1> HIDE DEF T
<1>10. \A k \in 1..count : from <= N(k) /\ N(k) < N(k) + window /\ N(k) \in Int
  <2> TAKE k \in 1..count
  <2>1. k \in Int /\ k >= 1
    BY <1>5
  <2> QED BY <1>3, <1>4, <2>1
<1>11. \A k \in DOMAIN T :
         from <= T[k].start /\ T[k].start < T[k].end /\ T[k].end <= to
  BY <1>6, <1>8, <1>10
<1>12. ASSUME NEW t \in from..(to - 1)
       PROVE  \E k \in 1..count : T[k].start <= t /\ t < T[k].end
  <2> DEFINE Begun == {k \in 1..count : N(k) <= t}
  <2>1. PICK k \in Begun : \A j \in Begun : j <= k
    <3>1. 1 \in Begun
      BY <1>2, <1>5
    <3>2. Upper(Begun, count)
      BY <1>5, <3>1 DEF Upper
    <3> HIDE DEF Begun
    <3> QED BY <3>2, Extremes
  <2>2. k \in 1..count /\ k \in Int /\ count \in Int /\ N(k) \in Int /\ N(k) <= t
    BY <1>3, <1>5, <2>1
  <2>3. t < N(k) + window
    <3>1. CASE k = count
      BY <1>5, <2>2, <3>1
    <3>2. CASE k # count
      <4>1. k + 1 \in 1..count /\ k + 1 \notin Begun
        BY <2>1, <2>2, <3>2
      <4>2. N(k + 1) > t /\ N(k + 1) = N(k) + step
        BY <1>3, <2>2, <4>1
      <4> QED BY <2>2, <4>2
    <3> QED BY <3>1, <3>2
  <2> QED BY <1>8, <2>2, <2>3
<1> QED BY <1>1, <1>8, <1>9, <1>11, <1>12 DEF Covers

\* The high_freq windows are at least as long as they are apart.
LEMMA HfStep ==
  LET step == Max({1, (HfWindow * (HfRatio[2] - HfRatio[1])) \div HfRatio[2]})
  IN step \in Nat \ {0} /\ step <= HfWindow
<1> DEFINE w == HfWindow
           n == HfRatio[1]
           d == HfRatio[2]
           a == w * (d - n)
<1>1. w \in Nat \ {0} /\ n \in Nat /\ d \in Nat \ {0} /\ n < d
  BY PlanningAssumption
<1> HIDE DEF w, n, d
<1>2. a \in Nat /\ a < d * (w + 1)
  <2>1. a = w * d - w * n
    BY <1>1
  <2>2. d * (w + 1) = w * d + d
    BY <1>1
  <2>3. w * n \in Nat /\ w * d \in Nat /\ w * (d - n) \in Nat
    BY <1>1
  <2> QED BY <1>1, <2>1, <2>2, <2>3
<1> HIDE DEF a
<1>3. a \div d \in Nat /\ a \div d < w + 1
  <2>1. w + 1 \in Nat
    BY <1>1
  <2>2. /\ \A x \in Nat : x \div d \in Nat
        /\ \A x, y \in Nat : x < d * y <=> x \div d < y
    BY <1>1, Scaling
  <2> QED BY <1>2, <2>1, <2>2
<1>4. Max({1, a \div d}) = IF 1 >= a \div d THEN 1 ELSE a \div d
  BY <1>3, MaxOfTwo
<1>5. Max({1, a \div d}) \in Nat \ {0} /\ Max({1, a \div d}) <= w
  BY <1>1, <1>3, <1>4
<1> QED BY <1>5 DEF a, w, n, d

\* Where the windows of a trigger end.
TriggerEnd(t, d) == IF t.end <= d THEN t.end ELSE d

\* The windows of a trigger cover what of it is inside the video, and no more.
LEMMA TriggerIsCovered ==
  ASSUME NEW t, t.start \in Int, t.end \in Int, NEW d \in Nat
  PROVE  Covers(HighFreqWindows(t, d), t.start, TriggerEnd(t, d))
<1> DEFINE from == t.start
           to == TriggerEnd(t, d)
           step == Max({1, (HfWindow * (HfRatio[2] - HfRatio[1])) \div HfRatio[2]})
           ws == HighFreqWindows(t, d)
<1>1. from \in Int /\ to \in Int
  BY DEF TriggerEnd
<1>2. ws = IF to - from <= 0 THEN <<>>
           ELSE IF HfWindow >= to - from THEN <<[start |-> from, end |-> to]>>
           ELSE Tile(from, to, HfWindow, step)
  <2>1. Min({t.end, d}) = to
    BY MinOfTwo DEF TriggerEnd
  <2>2. d # Unknown
    BY DEF Unknown
  <2> QED BY <2>1, <2>2 DEF HighFreqWindows
<1>3. step \in Nat \ {0} /\ step <= HfWindow
  BY HfStep
<1>4. HfWindow \in Nat
  BY PlanningAssumption
<1> SUFFICES Covers(ws, from, to)
  OBVIOUS
<1> HIDE DEF from, to, step, ws
<1>5. CASE to - from <= 0
  BY <1>1, <1>2, <1>5 DEF Covers
<1>6. CASE to - from > 0 /\ HfWindow >= to - from
  <2>1. ws = <<[start |-> from, end |-> to]>>
    BY <1>1, <1>2, <1>6
  <2>2. [start |-> from, end |-> to] \in Windows
    BY <1>1 DEF Windows
  <2>3. DOMAIN ws = {1} /\ ws[1].start = from /\ ws[1].end = to /\ ws \in Seq(Windows)
    BY <2>1, <2>2
  <2> QED BY <1>1, <1>6, <2>3 DEF Covers
<1>7. CASE to - from > 0 /\ ~(HfWindow >= to - from)
  <2>1. ws = Tile(from, to, HfWindow, step)
    BY <1>1, <1>2, <1>7
  <2>2. Covers(Tile(from, to, HfWindow, step), from, to)
    BY <1>1, <1>3, <1>4, <1>7, TileCovers
  <2> QED BY <2>1, <2>2
<1> QED BY <1>1, <1>5, <1>6, <1>7

\* A trigger whose times are numbers.
Trigger(t) == t.start \in Nat /\ t.end \in Int

\* The list ws has the windows of all the triggers, inside the video.
ServesTriggers(ws, ts, d) ==
  /\ ws \in Seq(Windows)
  /\ \A k \in DOMAIN ws :
       0 <= ws[k].start /\ ws[k].start < ws[k].end /\ ws[k].end <= d
  /\ \A i \in DOMAIN ts : \A x \in Int :
       ts[i].start <= x /\ x < ts[i].end /\ x < d =>
         \E k \in DOMAIN ws : ws[k].start <= x /\ x < ws[k].end

\* Numbered by place, with the later ones of equal windows left out, no window
\* gets lost.
LEMMA PlanServesTriggers ==
  ASSUME NEW m \in Nat, NEW ts, DOMAIN ts = 1..m, \A i \in 1..m : Trigger(ts[i]),
         NEW d \in Nat
  PROVE  ServesTriggers(HighFreqPlan(ts, d), ts, d)
<1> DEFINE ws == [i \in DOMAIN ts |-> HighFreqWindows(ts[i], d)]
           Of(p) == ws[p[1]][p[2]]
           All == {p \in UNION {{i} \X DOMAIN ws[i] : i \in DOMAIN ts} : Usable(Of(p))}
           Kept == {p \in All : \A q \in All : Upto(q, p) /\ Of(q) = Of(p) => q = p}
           Place(p) == Cardinality({q \in Kept : Upto(q, p)})
           plan == [n \in 1..Cardinality(Kept) |-> Of(CHOOSE p \in Kept : Place(p) = n)]
           R == {pq \in All \X All : Upto(pq[1], pq[2])}
           Q == {pq \in All \X All : Upto(pq[2], pq[1])}
<1>1. HighFreqPlan(ts, d) = plan
  BY DEF HighFreqPlan
<1>2. \A i \in 1..m : Covers(ws[i], ts[i].start, TriggerEnd(ts[i], d))
  <2> TAKE i \in 1..m
  <2>1. ts[i].start \in Int /\ ts[i].start >= 0 /\ ts[i].end \in Int
    BY DEF Trigger
  <2> QED BY <2>1, TriggerIsCovered
<1> HIDE DEF ws
<1>3. \A i \in 1..m : /\ ws[i] \in Seq(Windows)
                      /\ Len(ws[i]) \in Nat /\ DOMAIN ws[i] = 1..Len(ws[i])
                      /\ \A k \in DOMAIN ws[i] :
                           /\ ws[i][k] \in Windows
                           /\ ts[i].start <= ws[i][k].start
                           /\ ws[i][k].start < ws[i][k].end
                           /\ ws[i][k].end <= TriggerEnd(ts[i], d)
  <2> TAKE i \in 1..m
  <2>1. ws[i] \in Seq(Windows)
    BY <1>2 DEF Covers
  <2> QED BY <1>2, <2>1 DEF Covers
<1>4. \A p \in All : /\ p = <<p[1], p[2]>> /\ p[1] \in 1..m /\ p[2] \in DOMAIN ws[p[1]]
                     /\ p[1] \in Nat /\ p[2] \in Nat
  BY <1>3
<1>5. \A i \in 1..m : \A k \in DOMAIN ws[i] : <<i, k>> \in All
  <2> SUFFICES ASSUME NEW i \in 1..m, NEW k \in DOMAIN ws[i]
               PROVE  Usable(ws[i][k])
    OBVIOUS
  <2>1. ws[i][k].start \in Int /\ ws[i][k].end \in Int /\ ws[i][k].start < ws[i][k].end
    BY <1>3 DEF Windows
  <2> QED BY <2>1 DEF Usable, MinWindow
<1>6. IsFiniteSet(All)
  <2> DEFINE U == {{i} \X DOMAIN ws[i] : i \in 1..m}
             g == [i \in 1..m |-> {i} \X DOMAIN ws[i]]
  <2>1. IsFiniteSet(U)
    <3>1. g \in Surjection(1..m, U)
      BY DEF Surjection
    <3>2. IsFiniteSet(1..m)
      BY FS_Interval
    <3> QED BY ONLY <3>1, <3>2, FS_Surjection
  <2>2. \A i \in 1..m : IsFiniteSet({i} \X DOMAIN ws[i])
    <3> TAKE i \in 1..m
    <3>1. IsFiniteSet({i})
      BY FS_Singleton
    <3>2. IsFiniteSet(DOMAIN ws[i])
      <4>1. DOMAIN ws[i] = 1..Len(ws[i]) /\ Len(ws[i]) \in Int
        BY <1>3
      <4>2. IsFiniteSet(1..Len(ws[i]))
        BY <4>1, FS_Interval
      <4> QED BY <4>1, <4>2
    <3> QED BY ONLY <3>1, <3>2, FS_Product
  <2>3. \A T \in U : IsFiniteSet(T)
    BY <2>2
  <2>4. IsFiniteSet(UNION U)
    BY ONLY <2>1, <2>3, FS_UNION
  <2>5. All \in SUBSET UNION U
    OBVIOUS
  <2> QED BY ONLY <2>4, <2>5, FS_Subset
<1> HIDE DEF Of, All
<1>7. /\ \A a \in All : Upto(a, a)
      /\ \A a, b \in All : Upto(a, b) \/ Upto(b, a)
      /\ \A a, b \in All : Upto(a, b) /\ Upto(b, a) => a = b
      /\ \A a, b, c \in All : Upto(a, b) /\ Upto(b, c) => Upto(a, c)
  <2>1. \A a, b \in All : a[1] = b[1] /\ a[2] = b[2] => a = b
    BY <1>4
  <2> QED BY <1>4, <2>1 DEF Upto
<1>8. \A a, b \in All : (<<a, b>> \in R <=> Upto(a, b)) /\ (<<a, b>> \in Q <=> Upto(b, a))
  OBVIOUS
<1> HIDE DEF R, Q
<1>9. \A S : S \subseteq All => Orders(R, S) /\ Orders(Q, S)
  BY <1>7, <1>8 DEF Orders
<1>10. Kept \subseteq All /\ IsFiniteSet(Kept)
  <2>1. Kept \in SUBSET All
    OBVIOUS
  <2> QED BY ONLY <1>6, <2>1, FS_Subset
<1>11. \A p \in All : \E q \in Kept : Of(q) = Of(p)
  <2> TAKE p \in All
  <2> DEFINE E == {q \in All : Of(q) = Of(p)}
  <2>1. E \in SUBSET All /\ p \in E
    OBVIOUS
  <2>2. IsFiniteSet(E) /\ Orders(Q, E) /\ E # {}
    BY <1>6, <1>9, <2>1, FS_Subset
  <2>3. PICK q \in E : \A j \in E : <<j, q>> \in Q
    <3> HIDE DEF E
    <3> QED BY ONLY <2>2, Ranks
  <2>4. q \in All /\ Of(q) = Of(p)
    OBVIOUS
  <2>5. \A j \in All : Upto(j, q) /\ Of(j) = Of(q) => j = q
    <3> SUFFICES ASSUME NEW j \in All, Upto(j, q), Of(j) = Of(q) PROVE j = q
      OBVIOUS
    <3>1. j \in E
      BY <2>4
    <3>2. Upto(q, j)
      BY <1>8, <2>3, <2>4, <3>1
    <3> QED BY <1>7, <2>4, <3>2
  <2> QED BY <2>4, <2>5
<1> HIDE DEF Kept
<1>12. \A p \in Kept : Place(p) = Cardinality(Down(Kept, R, p))
  <2> TAKE p \in Kept
  <2>1. {q \in Kept : Upto(q, p)} = Down(Kept, R, p)
    BY <1>8, <1>10 DEF Down
  <2> QED BY <2>1
<1>13. /\ Cardinality(Kept) \in Nat
       /\ \A k \in Kept : Cardinality(Down(Kept, R, k)) \in 1..Cardinality(Kept)
       /\ \A i \in 1..Cardinality(Kept) : \E k \in Kept : Cardinality(Down(Kept, R, k)) = i
       /\ \A j, k \in Kept :
            Cardinality(Down(Kept, R, j)) = Cardinality(Down(Kept, R, k)) => j = k
  <2>1. Orders(R, Kept)
    BY <1>9, <1>10
  <2> QED BY ONLY <1>10, <2>1, Ranks
<1>14. /\ \A k \in Kept : Place(k) \in 1..Cardinality(Kept)
       /\ \A i \in 1..Cardinality(Kept) : \E k \in Kept : Place(k) = i
       /\ \A j, k \in Kept : Place(j) = Place(k) => j = k
  BY <1>12, <1>13
<1> HIDE DEF Place
<1>15. \A n \in DOMAIN plan : \E p \in Kept : plan[n] = Of(p)
  <2> TAKE n \in DOMAIN plan
  <2>1. (CHOOSE p \in Kept : Place(p) = n) \in Kept
    BY <1>14
  <2> QED BY <2>1
<1>16. \A p \in Kept : Place(p) \in DOMAIN plan /\ plan[Place(p)] = Of(p)
  <2> TAKE p \in Kept
  <2>1. (CHOOSE q \in Kept : Place(q) = Place(p)) = p
    BY <1>14
  <2> QED BY <1>14, <2>1
<1>17. DOMAIN plan = 1..Cardinality(Kept)
  OBVIOUS
<1>18. \A p \in All : /\ Of(p) \in Windows
                      /\ 0 <= Of(p).start /\ Of(p).start < Of(p).end /\ Of(p).end <= d
  <2> TAKE p \in All
  <2>1. p[1] \in 1..m /\ p[2] \in DOMAIN ws[p[1]] /\ Of(p) = ws[p[1]][p[2]]
    BY <1>4 DEF Of
  <2>2. ts[p[1]].start \in Nat /\ ts[p[1]].end \in Int
    BY <2>1 DEF Trigger
  <2>3. /\ Of(p) \in Windows
        /\ ts[p[1]].start <= Of(p).start
        /\ Of(p).start < Of(p).end
        /\ Of(p).end <= TriggerEnd(ts[p[1]], d)
    BY <1>3, <2>1
  <2>4. Of(p).start \in Int /\ Of(p).end \in Int
    BY <2>3 DEF Windows
  <2> QED BY <2>2, <2>3, <2>4 DEF TriggerEnd
<1>19. plan \in Seq(Windows)
  <2>1. \A n \in DOMAIN plan : plan[n] \in Windows
    BY <1>10, <1>15, <1>18
  <2>2. \E f : f = plan
    OBVIOUS
  <2>3. plan = [n \in 1..Cardinality(Kept) |-> plan[n]]
    OBVIOUS
  <2> HIDE DEF plan
  <2>4. plan \in [1..Cardinality(Kept) -> Windows]
    BY <1>17, <2>1, <2>3
  <2> QED BY <1>13, <2>4
<1> HIDE DEF plan
<1>20. \A k \in DOMAIN plan :
         0 <= plan[k].start /\ plan[k].start < plan[k].end /\ plan[k].end <= d
  BY <1>10, <1>15, <1>18
<1>21. ASSUME NEW i \in DOMAIN ts, NEW x \in Int,
              ts[i].start <= x, x < ts[i].end, x < d
       PROVE  \E k \in DOMAIN plan : plan[k].start <= x /\ x < plan[k].end
  <2>1. ts[i].start \in Nat /\ ts[i].end \in Int /\ i \in 1..m
    BY DEF Trigger
  <2>2. x \in (ts[i].start)..(TriggerEnd(ts[i], d) - 1)
    BY <1>21, <2>1 DEF TriggerEnd
  <2>3. PICK k \in DOMAIN ws[i] : ws[i][k].start <= x /\ x < ws[i][k].end
    BY <1>2, <2>1, <2>2 DEF Covers
  <2>4. <<i, k>> \in All /\ Of(<<i, k>>) = ws[i][k]
    BY <1>5, <2>1 DEF Of
  <2>5. PICK q \in Kept : Of(q) = ws[i][k]
    BY <1>11, <2>4
  <2> QED BY <1>16, <2>3, <2>5
<1> QED BY <1>1, <1>19, <1>20, <1>21 DEF ServesTriggers

\* How long a list is.
LEMMA ListLength ==
  ASSUME NEW S, NEW n \in Nat, NEW f \in [1..n -> S]
  PROVE  f \in Seq(S) /\ Len(f) = n
<1>1. f \in Seq(S)
  OBVIOUS
<1>2. DOMAIN f = 1..n
  OBVIOUS
<1> QED BY <1>1, <1>2

\* The samples of a list of scores, and where each ends.
LEMMA SampleFacts ==
  ASSUME NEW scores \in Seq(Int)
  PROVE  LET samples == Samples(scores)
             n == Len(scores)
         IN /\ n \in Nat /\ Len(samples) = n /\ DOMAIN samples = 1..n
            /\ \A i \in 1..n : /\ samples[i].at = i * Interval
                               /\ samples[i].score = scores[i]
                               /\ SampleEnd(samples, i) \in Int
                               /\ SampleEnd(samples, i) > samples[i].at
                               /\ i < n => SampleEnd(samples, i) = (i + 1) * Interval
<1> DEFINE samples == Samples(scores)
           n == Len(scores)
           times == [k \in 1..Len(samples) |-> samples[k].at]
           I == 1..(n - 1)
           diff == [i \in I |-> times[i + 1] - times[i]]
           half == Cardinality(I) \div 2
           Mid(d) == /\ Cardinality({i \in I : diff[i] < d}) <= half
                     /\ half < Cardinality({i \in I : diff[i] <= d})
           mid == CHOOSE d \in {diff[i] : i \in I} : Mid(d)
<1>1. Interval \in Nat \ {0}
  BY PlanningAssumption
<1>2. n \in Nat
  OBVIOUS
<1>3. samples = [i \in 1..n |-> [at |-> i * Interval, score |-> scores[i]]]
  BY DEF Samples
<1> HIDE DEF samples, n
<1>4. DOMAIN samples = 1..n
  BY <1>3
<1>5. \A i \in 1..n : samples[i].at = i * Interval /\ samples[i].score = scores[i]
  BY <1>3
<1>6. Len(samples) = n
  <2> DEFINE S == {samples[i] : i \in 1..n}
  <2>1. samples \in [1..n -> S]
    BY <1>3
  <2> HIDE DEF S
  <2> QED BY ONLY <1>2, <2>1, ListLength
<1>7. \A i \in Int : i * Interval \in Int /\ (i + 1) * Interval = i * Interval + Interval
  <2> TAKE i \in Int
  <2> QED BY <1>1
<1>8. DOMAIN times = 1..n /\ \A i \in 1..n : times[i] = i * Interval
  BY <1>5, <1>6
<1>9. Len(times) = n
  <2>1. times = [k \in 1..n |-> samples[k].at]
    BY <1>6
  <2> DEFINE S == {samples[i].at : i \in 1..n}
  <2>2. times \in [1..n -> S]
    BY <2>1
  <2> HIDE DEF S, times
  <2> QED BY ONLY <1>2, <2>2, ListLength
<1> HIDE DEF times
<1>10. MedianStep(times) = IF n < 2 THEN 1 ELSE Max({1, mid})
  BY <1>9 DEF MedianStep
<1>11. MedianStep(times) \in Nat \ {0}
  <2>1. CASE n < 2
    BY <1>10, <2>1
  <2>2. CASE ~(n < 2)
    <3>1. \A i \in I : diff[i] = Interval
      <4> SUFFICES ASSUME NEW i \in I PROVE times[i + 1] - times[i] = Interval
        OBVIOUS
      <4>1. i \in 1..n /\ i + 1 \in 1..n /\ i \in Int
        BY <1>2
      <4>2. times[i] = i * Interval /\ times[i + 1] = i * Interval + Interval
        BY <1>7, <1>8, <4>1
      <4> QED BY <1>1, <1>7, <4>1, <4>2
    <3>2. 1 \in I
      BY <1>2, <2>2
    <3> DEFINE D == {diff[i] : i \in I}
    <3>3. D = {Interval}
      BY <3>1, <3>2
    <3>4. Cardinality(I) = n - 1
      BY <1>2, <2>2, FS_Interval
    <3>5. {i \in I : diff[i] < Interval} = {} /\ {i \in I : diff[i] <= Interval} = I
      BY <1>1, <3>1
    <3>6. half \in Nat /\ half < n - 1
      BY <1>2, <2>2, <3>4
    <3>7. Mid(Interval)
      <4>1. /\ Cardinality({i \in I : diff[i] < Interval}) = 0
            /\ Cardinality({i \in I : diff[i] <= Interval}) = n - 1
        BY <3>4, <3>5, FS_EmptySet
      <4> HIDE DEF I, half, diff
      <4> QED BY <3>6, <4>1
    <3> HIDE DEF Mid
    <3>8. mid = Interval
      BY <3>3, <3>7
    <3>9. Max({1, Interval}) \in Nat \ {0}
      BY <1>1, MaxOfTwo
    <3> QED BY <1>10, <2>2, <3>8, <3>9
  <2> QED BY <2>1, <2>2
<1>12. \A i \in 1..n : SampleEnd(samples, i)
         = IF i < n THEN samples[i + 1].at ELSE samples[i].at + MedianStep(times)
  BY <1>6 DEF SampleEnd, times
<1>13. ASSUME NEW i \in 1..n
       PROVE  /\ SampleEnd(samples, i) \in Int
              /\ SampleEnd(samples, i) > samples[i].at
              /\ i < n => SampleEnd(samples, i) = (i + 1) * Interval
  <2>1. i \in Int /\ samples[i].at = i * Interval /\ i * Interval \in Int
    <3>1. i \in Int
      BY <1>2
    <3> QED BY <1>5, <1>7, <3>1
  <2>2. CASE i < n
    <3>1. i + 1 \in 1..n
      BY <1>2, <2>2
    <3>2. SampleEnd(samples, i) = (i + 1) * Interval
      BY <1>5, <1>12, <2>2, <3>1
    <3>3. (i + 1) * Interval = i * Interval + Interval
      BY <1>7, <2>1
    <3>4. SampleEnd(samples, i) = samples[i].at + Interval /\ samples[i].at \in Int
      BY <2>1, <3>2, <3>3
    <3>5. SampleEnd(samples, i) \in Int /\ SampleEnd(samples, i) > samples[i].at
      BY <1>1, <3>4
    <3> QED BY <3>2, <3>5
  <2>3. CASE ~(i < n)
    BY <1>11, <1>12, <2>1, <2>3
  <2> QED BY <2>2, <2>3
<1>14. /\ n \in Nat /\ Len(samples) = n /\ DOMAIN samples = 1..n
       /\ \A i \in 1..n : /\ samples[i].at = i * Interval
                          /\ samples[i].score = scores[i]
                          /\ SampleEnd(samples, i) \in Int
                          /\ SampleEnd(samples, i) > samples[i].at
                          /\ i < n => SampleEnd(samples, i) = (i + 1) * Interval
  BY <1>2, <1>4, <1>5, <1>6, <1>13
<1> QED BY <1>14 DEF samples, n

\* Every sample at or above the threshold is in some run: the gap before the
\* next run comes after the last sample of this one.
LEMMA RunsCover ==
  ASSUME NEW samples, NEW n \in Nat, Len(samples) = n
  PROVE  /\ Runs(samples) \subseteq (1..n) \X (1..n)
         /\ \A i \in 1..n : samples[i].score >= Threshold =>
              \E r \in Runs(samples) : r[1] <= i /\ i <= r[2]
<1> DEFINE Hot == {i \in 1..Len(samples) : samples[i].score >= Threshold}
           Joined(i, j) == samples[j].at - SampleEnd(samples, i) <= MergeGap
           Nxt(i) == {j \in Hot : j > i /\ \A k \in Hot : k > i => k >= j}
           Prv(i) == {j \in Hot : j < i /\ \A k \in Hot : k < i => k <= j}
           Firsts == {i \in Hot : \A j \in Prv(i) : ~Joined(j, i)}
           Lasts == {i \in Hot : \A j \in Nxt(i) : ~Joined(i, j)}
<1>1. Runs(samples) = {r \in Firsts \X Lasts :
        r[1] <= r[2] /\ \A i \in Firsts : i > r[1] => i > r[2]}
  BY DEF Runs
<1> HIDE DEF Joined
<1>2. \A i \in Hot : i \in 1..n /\ i \in Int
  OBVIOUS
<1>3. \A i \in 1..n : samples[i].score >= Threshold => i \in Hot
  OBVIOUS
<1> HIDE DEF Hot
<1>4. Firsts \subseteq 1..n /\ Lasts \subseteq 1..n
  BY <1>2
<1>5. ASSUME NEW i \in 1..n, samples[i].score >= Threshold
      PROVE  \E r \in Runs(samples) : r[1] <= i /\ i <= r[2]
  <2>1. i \in Hot
    BY <1>3, <1>5
  <2>2. PICK a \in Hot : \A j \in Hot : j >= a
    <3>1. Upper(Hot, n)
      BY <1>2, <2>1 DEF Upper
    <3> QED BY <3>1, Extremes
  <2>3. PICK b \in Hot : \A j \in Hot : j <= b
    <3>1. Upper(Hot, n)
      BY <1>2, <2>1 DEF Upper
    <3> QED BY <3>1, Extremes
  <2>4. a \in Firsts /\ a <= i
    BY <1>2, <2>1, <2>2
  <2>5. b \in Lasts /\ i <= b
    BY <1>2, <2>1, <2>3
  <2> DEFINE Before == {j \in Firsts : j <= i}
             After == {j \in Lasts : j >= i}
  <2>6. PICK f \in Before : \A j \in Before : j <= f
    <3>1. Upper(Before, n)
      BY <1>4, <2>4 DEF Upper
    <3> HIDE DEF Before
    <3> QED BY <3>1, Extremes
  <2>7. PICK l \in After : \A j \in After : j >= l
    <3>1. Upper(After, n)
      BY <1>4, <2>5 DEF Upper
    <3> HIDE DEF After
    <3> QED BY <3>1, Extremes
  <2>8. f \in Firsts /\ l \in Lasts /\ f <= i /\ i <= l /\ f <= l
    BY <1>4, <2>6, <2>7
  <2>9. ASSUME NEW g \in Firsts, g > f, ~(g > l)
        PROVE  FALSE
    <3>1. g \in Hot /\ g \in Int /\ g > i /\ l \in Int /\ f \in Int
      BY <1>2, <1>4, <2>6, <2>8, <2>9
    <3> DEFINE Below == {k \in Hot : k < g}
    <3>2. PICK p \in Below : \A k \in Below : k <= p
      <4>1. Upper(Below, n)
        BY <1>2, <2>1, <3>1 DEF Upper
      <4> HIDE DEF Below
      <4> QED BY <4>1, Extremes
    <3>3. p \in Hot /\ p < g /\ p >= i /\ p \in Int
      BY <1>2, <2>1, <3>1, <3>2
    <3>4. p \in Prv(g)
      BY <3>2, <3>3
    <3>5. ~Joined(p, g)
      BY <3>4
    <3>6. \A j \in Nxt(p) : j = g
      <4> SUFFICES ASSUME NEW j \in Nxt(p) PROVE j = g
        OBVIOUS
      <4>1. j \in Hot /\ j > p /\ j <= g /\ j \in Int
        BY <1>2, <3>1, <3>3
      <4>2. ~(j < g)
        BY <3>2, <3>3, <4>1
      <4> QED BY <3>1, <4>1, <4>2
    <3>7. p \in Lasts
      BY <3>3, <3>5, <3>6
    <3>8. p >= l
      BY <2>7, <3>3, <3>7
    <3> QED BY <2>9, <3>1, <3>3, <3>8
  <2>10. \A g \in Firsts : g > f => g > l
    BY <2>9
  <2> HIDE DEF Firsts, Lasts
  <2>11. <<f, l>> \in Runs(samples)
    BY <1>1, <2>8, <2>10
  <2> QED BY <2>8, <2>11
<1> HIDE DEF Firsts, Lasts
<1>6. Runs(samples) \subseteq (1..n) \X (1..n)
  BY <1>1, <1>4
<1> QED BY <1>5, <1>6

\* The triggers ts reach every sample with motion inside the video v, the last
\* one if `last` says so.
Seen(ts, v, last) ==
  \A i \in DOMAIN v.scores :
    (/\ v.scores[i] >= Threshold
     /\ i * Interval < v.duration
     /\ i * Interval < Len(v.scores) * Interval \/ last)
    => \E t \in ts : t.start <= i * Interval /\ i * Interval < t.end

\* The triggers of one scan.
ScanTriggers(v, d) ==
  LET samples == Samples(v.scores)
  IN Triggers(samples, ScanBound(d, samples))

\* Whether a scan clamps its triggers to the recorded duration or to the last
\* sample, they reach the motion.
LEMMA ScanSees ==
  ASSUME NEW v \in Videos, NEW d \in {Unknown, v.duration}
  PROVE  /\ IsFiniteSet(ScanTriggers(v, d))
         /\ \A t \in ScanTriggers(v, d) : Trigger(t)
         /\ Seen(ScanTriggers(v, d), v, d # Unknown)
<1> DEFINE samples == Samples(v.scores)
           n == Len(v.scores)
           b == ScanBound(d, samples)
           runs == Runs(samples)
           Of(r) == TriggerOf(samples, r, b)
           ts == ScanTriggers(v, d)
<1>1. /\ v.duration \in Nat /\ v.scores \in Seq(Int)
      /\ Interval \in Nat \ {0} /\ MinDuration \in Nat
  BY PlanningAssumption
<1>2. /\ n \in Nat /\ Len(samples) = n /\ DOMAIN samples = 1..n
      /\ \A i \in 1..n : /\ samples[i].at = i * Interval
                         /\ samples[i].score = v.scores[i]
                         /\ SampleEnd(samples, i) \in Int
                         /\ SampleEnd(samples, i) > samples[i].at
                         /\ i < n => SampleEnd(samples, i) = (i + 1) * Interval
  BY <1>1, SampleFacts
<1>3. DOMAIN v.scores = 1..n
  BY <1>1
<1>4. ts = {t \in {Of(r) : r \in runs} : b # Unknown => t.start < b}
  BY DEF ScanTriggers, Triggers
<1> HIDE DEF samples, n
<1>5. /\ runs \subseteq (1..n) \X (1..n)
      /\ \A i \in 1..n : samples[i].score >= Threshold =>
           \E r \in runs : r[1] <= i /\ i <= r[2]
  BY <1>2, RunsCover
<1>6. IsFiniteSet(runs)
  <2>1. IsFiniteSet(1..n)
    BY <1>2, FS_Interval
  <2>2. IsFiniteSet((1..n) \X (1..n))
    BY ONLY <2>1, FS_Product
  <2>3. runs \in SUBSET ((1..n) \X (1..n))
    BY <1>5
  <2> QED BY ONLY <2>2, <2>3, FS_Subset
<1>7. \A i, j \in Int : /\ i * Interval \in Int
                        /\ i <= j => i * Interval <= j * Interval
                        /\ i >= 0 => i * Interval >= 0
                        /\ (i + 1) * Interval = i * Interval + Interval
  <2>1. \A i, j \in Int : i <= j => i * Interval <= j * Interval
    BY <1>1
  <2>2. \A i \in Int : i * Interval \in Int /\ (i >= 0 => i * Interval >= 0)
    BY <1>1
  <2>3. \A i \in Int : (i + 1) * Interval = i * Interval + Interval
    BY <1>1
  <2> QED BY <2>1, <2>2, <2>3
<1>8. runs = {} \/ (b \in Int /\ b \in {d, n * Interval} /\ (d # Unknown => b = d))
  <2>1. CASE n = 0
    BY <1>5, <2>1
  <2>2. CASE n # 0 /\ d = Unknown /\ samples # <<>>
    <3> DEFINE A == {samples[i].at : i \in DOMAIN samples}
    <3>1. \A x \in A : x \in Int /\ x <= n * Interval
      <4> SUFFICES ASSUME NEW i \in 1..n
                   PROVE  samples[i].at \in Int /\ samples[i].at <= n * Interval
        BY <1>2
      <4>1. i \in Int /\ n \in Int /\ i <= n
        BY <1>2
      <4> QED BY <1>2, <1>7, <4>1
    <3>2. n * Interval \in A /\ n * Interval \in Int
      <4>1. n \in 1..n /\ n \in Int
        BY <1>2, <2>2
      <4> QED BY <1>2, <1>7, <4>1
    <3>3. b = Max(A)
      BY <2>2 DEF ScanBound
    <3> HIDE DEF A
    <3>4. Max(A) \in A /\ Max(A) >= n * Interval
      BY <3>1, <3>2 DEF Max
    <3>5. Max(A) = n * Interval
      BY <3>1, <3>2, <3>4
    <3> QED BY <2>2, <3>2, <3>3, <3>5
  <2>3. CASE ~(d = Unknown /\ samples # <<>>)
    BY <1>1, <2>3 DEF ScanBound, Unknown
  <2> QED BY <2>1, <2>2, <2>3
<1> HIDE DEF b
<1>9. ASSUME NEW r \in runs
      PROVE  /\ r[1] \in 1..n /\ r[2] \in 1..n
             /\ Of(r).start = r[1] * Interval /\ Of(r).start \in Nat
             /\ Of(r).end \in Int
             /\ \/ Of(r).end >= SampleEnd(samples, r[2])
                \/ b # Unknown /\ Of(r).end = b
  <2>1. r[1] \in 1..n /\ r[2] \in 1..n /\ r[1] \in Int
    BY <1>2, <1>5
  <2> DEFINE start == samples[r[1]].at
             far == start + MinDuration
             end == Max({SampleEnd(samples, r[2]), far})
  <2>2. start = r[1] * Interval /\ start \in Nat /\ far \in Int
    <3>1. r[1] >= 0 /\ r[1] * Interval \in Int /\ r[1] * Interval >= 0
      BY <1>2, <1>7, <2>1
    <3>2. start = r[1] * Interval
      BY <1>2, <2>1
    <3> QED BY <1>1, <3>1, <3>2
  <2>3. SampleEnd(samples, r[2]) \in Int
    BY <1>2, <2>1
  <2>4. /\ Of(r).start = start
        /\ Of(r).end = IF b = Unknown THEN end ELSE Min({end, b})
    BY DEF TriggerOf
  <2> HIDE DEF start, far
  <2>5. end \in Int /\ end >= SampleEnd(samples, r[2])
    BY <2>2, <2>3, MaxOfTwo
  <2> HIDE DEF end, Of
  <2>6. b \in Int
    BY <1>8
  <2>7. Min({end, b}) = IF end <= b THEN end ELSE b
    BY <2>5, <2>6, MinOfTwo
  <2> QED BY <2>1, <2>2, <2>3, <2>4, <2>5, <2>6, <2>7
<1>10. IsFiniteSet(ts)
  <2> DEFINE T == {Of(r) : r \in runs}
             f == [r \in runs |-> Of(r)]
  <2>1. f \in Surjection(runs, T)
    <3> HIDE DEF Of, runs
    <3> QED BY DEF Surjection
  <2>2. ts \in SUBSET T
    BY <1>4
  <2>3. IsFiniteSet(T)
    BY ONLY <1>6, <2>1, FS_Surjection
  <2> QED BY ONLY <2>2, <2>3, FS_Subset
<1> HIDE DEF Of, runs, ts
<1>11. \A t \in ts : Trigger(t)
  BY <1>4, <1>9 DEF Trigger
<1>12. Seen(ts, v, d # Unknown)
  <2> SUFFICES ASSUME NEW i \in 1..n,
                      v.scores[i] >= Threshold,
                      i * Interval < v.duration,
                      i * Interval < n * Interval \/ d # Unknown
               PROVE  \E t \in ts : t.start <= i * Interval /\ i * Interval < t.end
    BY <1>3 DEF Seen, n
  <2>1. PICK r \in runs : r[1] <= i /\ i <= r[2]
    BY <1>2, <1>5
  <2>2. i \in Int /\ n \in Int /\ r[1] \in Int /\ r[2] \in Int
    BY <1>2, <1>9
  <2> DEFINE at == i * Interval
  <2>3. at \in Int /\ Of(r).start \in Int /\ Of(r).start <= at
    BY <1>7, <1>9, <2>1, <2>2
  <2>4. at < SampleEnd(samples, r[2]) /\ SampleEnd(samples, r[2]) \in Int
    <3>1. r[2] \in 1..n
      BY <1>9
    <3>2. SampleEnd(samples, r[2]) > r[2] * Interval /\ SampleEnd(samples, r[2]) \in Int
      BY <1>2, <3>1
    <3>3. at <= r[2] * Interval /\ r[2] * Interval \in Int
      BY <1>7, <2>1, <2>2
    <3> QED BY <2>3, <3>2, <3>3
  <2>5. b \in Int /\ (b # Unknown => at < b)
    <3>1. CASE d # Unknown
      BY <1>8, <3>1
    <3>2. CASE d = Unknown
      BY <1>8, <3>2
    <3> QED BY <3>1, <3>2
  <2>6. at < Of(r).end
    BY <1>9, <2>3, <2>4, <2>5
  <2>7. Of(r) \in ts
    BY <1>4, <2>3, <2>5
  <2> QED BY <2>3, <2>6, <2>7
<1> QED BY <1>10, <1>11, <1>12 DEF ts

-----------------------------------------------------------------------------
(* From the scan to the queue. *)

\* What is known of the video and the motion in it, whatever the order of scans
\* and probes.
ScanInv ==
  /\ video \in Videos
  /\ duration \in {Unknown, video.duration}
  /\ IsFiniteSet(triggers) /\ \A t \in triggers : Trigger(t)
  /\ timed \in BOOLEAN /\ scans \in Nat /\ (timed => scans > 0)
  /\ scans > 0 => Seen(triggers, video, timed)

\* The high_freq plan serves the triggers of the job, in whatever order they
\* were listed.
PlanServes ==
  /\ \A k \in DOMAIN plans.hf :
       /\ 0 <= plans.hf[k].start /\ plans.hf[k].start < plans.hf[k].end
       /\ plans.hf[k].end <= duration
  /\ \A t \in triggers : \A x \in Int :
       t.start <= x /\ x < t.end /\ x < duration =>
         \E k \in DOMAIN plans.hf : plans.hf[k].start <= x /\ x < plans.hf[k].end

\* The duration is known before anything is planned from it, and the queue is
\* the order of the plans.
PlansInv ==
  /\ plans \in [default : Seq(Windows), hf : Seq(Windows)]
  /\ phase \in {"plan_hf", "dispatch", "done"} =>
       duration = video.duration /\ Covers(plans.default, 0, duration)
  /\ phase \in {"dispatch", "done"} => PlanServes
  /\ phase = "done" => queue = DispatchOrder(plans.hf, plans.default)

PlanInv == ScanInv /\ PlansInv

\* The default windows cover the video.
LEMMA DefaultCovers ==
  ASSUME NEW d \in Nat
  PROVE  Covers(DefaultSegments(d), 0, d)
<1>1. /\ Window \in Nat /\ Window - Overlap \in Nat \ {0}
      /\ Window - Overlap <= Window
  BY PlanningAssumption
<1>2. CASE d = 0
  BY <1>2 DEF DefaultSegments, Covers
<1>3. CASE d > 0
  BY <1>1, <1>3, TileCovers DEF DefaultSegments
<1> QED BY <1>2, <1>3

\* No step of a scan, a probe or a planner loses motion that a scan has seen.
LEMMA ScanSteps ==
  ASSUME PlanInv, [PlanNext]_planVars
  PROVE  ScanInv'
<1>1. /\ video \in Videos /\ duration \in {Unknown, video.duration}
      /\ IsFiniteSet(triggers) /\ \A t \in triggers : Trigger(t)
      /\ timed \in BOOLEAN /\ scans \in Nat /\ (timed => scans > 0)
      /\ scans > 0 => Seen(triggers, video, timed)
  BY DEF PlanInv, ScanInv
<1>2. CASE ScanMotion
  <2>1. /\ video' = video /\ duration' = duration
        /\ triggers' = triggers \cup ScanTriggers(video, duration)
        /\ scans' = scans + 1 /\ timed' = (timed \/ duration # Unknown)
    BY <1>2 DEF ScanMotion, ScanTriggers
  <2> DEFINE new == ScanTriggers(video, duration)
  <2>2. IsFiniteSet(new) /\ (\A t \in new : Trigger(t))
        /\ Seen(new, video, duration # Unknown)
    BY <1>1, ScanSees
  <2> HIDE DEF new
  <2>3. IsFiniteSet(triggers \cup new)
    BY <1>1, <2>2, FS_Union
  <2>4. Seen(triggers \cup new, video, timed')
    <3>1. CASE timed
      <4>1. Seen(triggers, video, TRUE)
        BY <1>1, <3>1
      <4> QED BY <4>1 DEF Seen
    <3>2. CASE ~timed
      <4>1. timed' = (duration # Unknown)
        BY <2>1, <3>2
      <4> QED BY <2>2, <4>1 DEF Seen
    <3> QED BY <3>1, <3>2
  <2>5. \A t \in triggers \cup new : Trigger(t)
    BY <1>1, <2>2
  <2>6. triggers' = triggers \cup new
    BY <2>1 DEF new
  <2> QED BY <1>1, <2>1, <2>3, <2>4, <2>5, <2>6 DEF ScanInv
<1>3. CASE OtherJobProbes \/ PlanDefault
  <2>1. /\ video' = video /\ duration' = video.duration
        /\ triggers' = triggers /\ scans' = scans /\ timed' = timed
    BY <1>3 DEF OtherJobProbes, PlanDefault
  <2> QED BY <1>1, <2>1 DEF ScanInv
<1>4. CASE \/ ScanFails \/ FinalizeMotion \/ Reclaim \/ ProbeFails \/ PlanHighFreq
           \/ Dispatch \/ UNCHANGED planVars
  <2>1. UNCHANGED <<video, duration, triggers, scans, timed>>
    BY <1>4 DEF ScanFails, FinalizeMotion, Reclaim, ProbeFails, PlanHighFreq,
                Dispatch, planVars
  <2> QED BY <1>1, <2>1 DEF ScanInv
<1> QED BY <1>2, <1>3, <1>4 DEF PlanNext

\* Each planner sees the inputs the next ones rely on.
LEMMA PlanSteps ==
  ASSUME PlanInv, [PlanNext]_planVars
  PROVE  PlansInv'
<1>1. /\ video \in Videos /\ duration \in {Unknown, video.duration}
      /\ IsFiniteSet(triggers) /\ \A t \in triggers : Trigger(t)
  BY DEF PlanInv, ScanInv
<1>2. /\ plans \in [default : Seq(Windows), hf : Seq(Windows)]
      /\ phase \in {"plan_hf", "dispatch", "done"} =>
           duration = video.duration /\ Covers(plans.default, 0, duration)
      /\ phase \in {"dispatch", "done"} => PlanServes
      /\ phase = "done" => queue = DispatchOrder(plans.hf, plans.default)
  BY DEF PlanInv, PlansInv
<1>3. video.duration \in Nat
  BY <1>1, PlanningAssumption
<1>4. CASE PlanDefault
  <2> DEFINE df == DefaultSegments(video.duration)
  <2>1. /\ duration' = video.duration /\ video' = video /\ phase' = "plan_hf"
        /\ plans' = [plans EXCEPT !.default = df]
    BY <1>4 DEF PlanDefault
  <2>2. Covers(df, 0, video.duration)
    BY <1>3, DefaultCovers
  <2>3. df \in Seq(Windows)
    BY <2>2 DEF Covers
  <2> HIDE DEF df
  <2>4. plans' \in [default : Seq(Windows), hf : Seq(Windows)] /\ plans'.default = df
    BY <1>2, <2>1, <2>3
  <2> QED BY <2>1, <2>2, <2>4 DEF PlansInv
<1>5. CASE PlanHighFreq
  <2>1. /\ phase = "plan_hf" /\ phase' = "dispatch"
        /\ UNCHANGED <<video, duration, triggers>>
    BY <1>5 DEF PlanHighFreq
  <2>2. PICK ts \in [1..Cardinality(triggers) -> triggers] :
          /\ {ts[i] : i \in DOMAIN ts} = triggers
          /\ plans' = [plans EXCEPT !.hf = HighFreqPlan(ts, duration)]
    BY <1>5 DEF PlanHighFreq
  <2> DEFINE m == Cardinality(triggers)
             hf == HighFreqPlan(ts, duration)
  <2>3. m \in Nat
    BY <1>1, FS_CardinalityType
  <2>4. DOMAIN ts = 1..m /\ \A i \in 1..m : Trigger(ts[i])
    BY <1>1, <2>2
  <2>5. duration \in Nat /\ duration = video.duration
    BY <1>2, <1>3, <2>1
  <2>6. ServesTriggers(hf, ts, duration)
    <3> HIDE DEF m
    <3> QED BY ONLY <2>3, <2>4, <2>5, PlanServesTriggers
  <2>7. plans' = [plans EXCEPT !.hf = hf]
    BY <2>2
  <2> HIDE DEF hf
  <2>8. hf \in Seq(Windows)
    BY <2>6 DEF ServesTriggers
  <2>9. /\ plans' \in [default : Seq(Windows), hf : Seq(Windows)]
        /\ plans'.hf = hf /\ plans'.default = plans.default
    BY <1>2, <2>7, <2>8
  <2>10. PlanServes'
    <3>1. \A t \in triggers : \E i \in DOMAIN ts : ts[i] = t
      BY <2>2
    <3>2. \A k \in DOMAIN hf :
            0 <= hf[k].start /\ hf[k].start < hf[k].end /\ hf[k].end <= duration
      BY <2>6 DEF ServesTriggers
    <3>3. \A t \in triggers : \A x \in Int :
            t.start <= x /\ x < t.end /\ x < duration =>
              \E k \in DOMAIN hf : hf[k].start <= x /\ x < hf[k].end
      BY <2>6, <3>1 DEF ServesTriggers
    <3> QED BY <2>1, <2>9, <3>2, <3>3 DEF PlanServes
  <2> QED BY <1>2, <2>1, <2>5, <2>9, <2>10 DEF PlansInv
<1>6. CASE Dispatch
  <2>1. /\ phase = "dispatch" /\ UNCHANGED <<video, duration, triggers, plans>>
        /\ queue' = DispatchOrder(plans.hf, plans.default)
    BY <1>6 DEF Dispatch
  <2> QED BY <1>2, <2>1 DEF PlansInv, PlanServes
<1>7. CASE ScanMotion \/ ScanFails \/ FinalizeMotion \/ Reclaim \/ ProbeFails
  <2>1. plans' = plans /\ phase' \in {"motion", "scanned", "plan", "failed"}
    BY <1>7 DEF ScanMotion, ScanFails, FinalizeMotion, Reclaim, ProbeFails
  <2> QED BY <1>2, <2>1 DEF PlansInv
<1>8. CASE OtherJobProbes
  <2>1. plans' = plans /\ phase' \in {"motion", "scanned", "plan"}
    BY <1>8 DEF OtherJobProbes
  <2> QED BY <1>2, <2>1 DEF PlansInv
<1>9. CASE UNCHANGED planVars
  BY <1>2, <1>9 DEF planVars, PlansInv, PlanServes
<1> QED BY <1>4, <1>5, <1>6, <1>7, <1>8, <1>9 DEF PlanNext

\* The invariant of a job's planning.
LEMMA PlanInvHolds == PlanSpec => []PlanInv
<1>1. PlanInit => PlanInv
  <2> SUFFICES ASSUME PlanInit PROVE PlanInv
    OBVIOUS
  <2>1. /\ video \in Videos /\ duration = Unknown /\ triggers = {} /\ scans = 0 /\ timed = FALSE
        /\ plans = [default |-> <<>>, hf |-> <<>>] /\ phase = "motion"
    BY DEF PlanInit
  <2>2. ScanInv
    <3>1. IsFiniteSet(triggers) /\ \A t \in triggers : Trigger(t)
      BY <2>1, FS_EmptySet
    <3>2. scans \in Nat /\ ~(scans > 0)
      BY <2>1
    <3>3. timed \in BOOLEAN /\ ~timed
      BY <2>1
    <3> QED BY <2>1, <3>1, <3>2, <3>3 DEF ScanInv
  <2>3. PlansInv
    BY <2>1 DEF PlansInv
  <2> QED BY <2>2, <2>3 DEF PlanInv
<1>2. PlanInv /\ [PlanNext]_planVars => PlanInv'
  BY ScanSteps, PlanSteps DEF PlanInv
<1> QED BY <1>1, <1>2, PTL DEF PlanSpec

\* A finished queue holds the windows of the two plans and no others.
QueueHolds ==
  /\ \A n \in DOMAIN queue :
       \/ \E i \in DOMAIN plans.hf : queue[n].window = plans.hf[i]
       \/ \E i \in DOMAIN plans.default : queue[n].window = plans.default[i]
  /\ \A i \in DOMAIN plans.hf : plans.hf[i] \in QueueOf("high_freq_event")
  /\ \A i \in DOMAIN plans.default : plans.default[i] \in QueueOf("default_segment")

\* The dispatch order loses no unit and adds none.
LEMMA DispatchHolds ==
  ASSUME PlansInv, phase = "done"
  PROVE  QueueHolds
<1> DEFINE hf == plans.hf
           df == plans.default
           h == Len(hf)
           d == Len(df)
           q == Max({1, Quota})
<1>1. hf \in Seq(Windows) /\ df \in Seq(Windows) /\ queue = DispatchOrder(hf, df)
  BY DEF PlansInv
<1>2. h \in Nat /\ d \in Nat /\ DOMAIN hf = 1..h /\ DOMAIN df = 1..d
  BY <1>1
<1>3. /\ q \in Nat \ {0}
      /\ DOMAIN queue = 1..(h + d)
      /\ \A i \in 1..h : queue[HfPlace(h, d, q, i)]
                           = [scale |-> "high_freq_event", window |-> hf[i]]
      /\ \A i \in 1..d : queue[DfPlace(h, d, q, i)]
                           = [scale |-> "default_segment", window |-> df[i]]
  <2>1. Placed(hf, df)
    BY <1>1, OrderPlaces
  <2> QED BY <1>1, <2>1 DEF Placed
<1> HIDE DEF hf, df, h, d, q
<1>4. /\ \A i \in 1..h : HfPlace(h, d, q, i) \in 1..(h + d)
      /\ \A i \in 1..d : DfPlace(h, d, q, i) \in 1..(h + d)
  BY <1>2, <1>3, PlacesApart
<1>5. \A n \in DOMAIN queue : \/ \E i \in DOMAIN hf : queue[n].window = hf[i]
                              \/ \E i \in DOMAIN df : queue[n].window = df[i]
  <2> TAKE n \in DOMAIN queue
  <2>1. \/ \E i \in 1..h : HfPlace(h, d, q, i) = n
        \/ \E i \in 1..d : DfPlace(h, d, q, i) = n
    <3>1. n \in 1..(h + d)
      BY <1>3
    <3>2. h \in Nat /\ d \in Nat /\ q \in Nat \ {0}
      BY <1>2, <1>3
    <3> QED BY ONLY <3>1, <3>2, PlacesCover, ZenonT(90)
  <2>2. CASE \E i \in 1..h : HfPlace(h, d, q, i) = n
    <3>1. PICK i \in 1..h : HfPlace(h, d, q, i) = n
      BY <2>2
    <3>2. queue[n] = [scale |-> "high_freq_event", window |-> hf[i]]
      BY <1>3, <3>1
    <3> QED BY <1>2, <3>2
  <2>3. CASE \E i \in 1..d : DfPlace(h, d, q, i) = n
    <3>1. PICK i \in 1..d : DfPlace(h, d, q, i) = n
      BY <2>3
    <3>2. queue[n] = [scale |-> "default_segment", window |-> df[i]]
      BY <1>3, <3>1
    <3> QED BY <1>2, <3>2
  <2> QED BY <2>1, <2>2, <2>3
<1>6. \A i \in DOMAIN hf : hf[i] \in QueueOf("high_freq_event")
  <2> TAKE i \in DOMAIN hf
  <2>1. PICK n \in DOMAIN queue :
          queue[n] = [scale |-> "high_freq_event", window |-> hf[i]]
    BY <1>2, <1>3, <1>4
  <2> QED BY <2>1 DEF QueueOf
<1>7. \A i \in DOMAIN df : df[i] \in QueueOf("default_segment")
  <2> TAKE i \in DOMAIN df
  <2>1. PICK n \in DOMAIN queue :
          queue[n] = [scale |-> "default_segment", window |-> df[i]]
    BY <1>2, <1>3, <1>4
  <2> QED BY <2>1 DEF QueueOf
<1> QED BY <1>5, <1>6, <1>7 DEF QueueHolds, hf, df

\* The queue of a job leaves no instant of the video and no motion a scan
\* reported unlooked at, and no unit leaves the video, for every window,
\* overlap, threshold and quota, every video, and every order of scans and
\* probes (plan_default_segments, plan_motion_triggers, plan_high_freq_windows,
\* dispatch_order).
THEOREM QueueCovers == PlanSpec => []QueueCoversVideo
<1>1. PlanInv => QueueCoversVideo
  <2> SUFFICES ASSUME PlanInv, phase = "done"
               PROVE  /\ \A n \in DOMAIN queue :
                           /\ 0 <= queue[n].window.start
                           /\ queue[n].window.start < queue[n].window.end
                           /\ queue[n].window.end <= duration
                      /\ \A t \in 0..(duration - 1) :
                           \E w \in QueueOf("default_segment") :
                             w.start <= t /\ t < w.end
                      /\ scans > 0 =>
                           \A i \in DOMAIN video.scores :
                             (/\ video.scores[i] >= Threshold
                              /\ i * Interval < duration
                              /\ i * Interval < Len(video.scores) * Interval \/ timed)
                             => \E w \in QueueOf("high_freq_event") :
                                  w.start <= i * Interval /\ i * Interval < w.end
    BY DEF QueueCoversVideo
  <2>1. QueueHolds
    BY DispatchHolds DEF PlanInv
  <2>2. PlanServes /\ duration = video.duration /\ Covers(plans.default, 0, duration)
    BY DEF PlanInv, PlansInv
  <2>3. ASSUME NEW n \in DOMAIN queue
        PROVE  /\ 0 <= queue[n].window.start
               /\ queue[n].window.start < queue[n].window.end
               /\ queue[n].window.end <= duration
    BY <2>1, <2>2 DEF QueueHolds, PlanServes, Covers
  <2>4. ASSUME NEW t \in 0..(duration - 1)
        PROVE  \E w \in QueueOf("default_segment") : w.start <= t /\ t < w.end
    <3>1. PICK k \in DOMAIN plans.default :
            plans.default[k].start <= t /\ t < plans.default[k].end
      BY <2>2 DEF Covers
    <3>2. plans.default[k] \in QueueOf("default_segment")
      BY <2>1 DEF QueueHolds
    <3> QED BY <3>1, <3>2
  <2>5. ASSUME scans > 0, NEW i \in DOMAIN video.scores,
               video.scores[i] >= Threshold, i * Interval < duration,
               i * Interval < Len(video.scores) * Interval \/ timed
        PROVE  \E w \in QueueOf("high_freq_event") :
                 w.start <= i * Interval /\ i * Interval < w.end
    <3>1. Seen(triggers, video, timed)
      BY <2>5 DEF PlanInv, ScanInv
    <3>2. PICK t \in triggers : t.start <= i * Interval /\ i * Interval < t.end
      BY <2>2, <2>5, <3>1 DEF Seen
    <3>3. i * Interval \in Int
      <4>1. Interval \in Nat /\ video.scores \in Seq(Int)
        BY PlanningAssumption DEF PlanInv, ScanInv
      <4>2. i \in Int
        BY <4>1
      <4> QED BY <4>1, <4>2
    <3>4. PICK k \in DOMAIN plans.hf :
            plans.hf[k].start <= i * Interval /\ i * Interval < plans.hf[k].end
      BY <2>2, <2>5, <3>2, <3>3 DEF PlanServes
    <3>5. plans.hf[k] \in QueueOf("high_freq_event")
      BY <2>1 DEF QueueHolds
    <3> QED BY <3>4, <3>5
  <2> QED BY <2>3, <2>4, <2>5
<1> QED BY <1>1, PlanInvHolds, PTL

\* Whatever the planners return, and whatever the quota, the queue is fair to
\* both scales (dispatch_order).
THEOREM DispatchFair == PlanSpec => []DispatchIsFair
<1>1. PlanInv => DispatchIsFair
  <2> SUFFICES ASSUME PlanInv, phase = "done"
               PROVE  Fair(queue, plans.hf, plans.default, Max({1, Quota}))
    BY DEF DispatchIsFair
  <2>1. /\ plans.hf \in Seq(Windows) /\ plans.default \in Seq(Windows)
        /\ queue = DispatchOrder(plans.hf, plans.default)
    BY DEF PlanInv, PlansInv
  <2> QED BY <2>1, OrderIsFair
<1> QED BY <1>1, PlanInvHolds, PTL
=============================================================================
