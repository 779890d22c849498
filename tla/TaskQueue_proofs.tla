-------------------------- MODULE TaskQueue_proofs --------------------------
(***************************************************************************)
(* Theorems about TaskQueue for every number of slots and tasks and every  *)
(* lease, cadence and delay: types, the time budget that keeps a held      *)
(* lease alive, and the implementation of TaskLease.                       *)
(***************************************************************************)
EXTENDS TaskQueue, TLAPS

\* The clamped cadence is a positive number of ticks.
LEMMA RenewPositive == RenewSeconds \in Nat \ {0}
BY QueueAssumption DEF RenewSeconds

\* How the control of a slot, its heartbeat thread and its clock fit together.
SlotOK(w) ==
  /\ pc[w] \in {"idle", "claiming"} <=> hb[w] = "off"
  /\ hb[w] # "off" => held[w] \in Tasks
  /\ Writing(w) => clock[w] \in 0..WriteDelay
  /\ Waiting(w) => clock[w] \in -WakeDelay..RenewSeconds
  /\ hb[w] = "off" => misses[w] = 0

SlotsOK == \A w \in Workers : SlotOK(w)

\* A step of one slot leaves the others' control alone.
OthersKept(w) ==
  \A v \in Workers \ {w} :
    /\ pc'[v] = pc[v] /\ hb'[v] = hb[v] /\ held'[v] = held[v]
    /\ clock'[v] = clock[v] /\ misses'[v] = misses[v]

\* SlotOK is local to the slot's own variables.
LEMMA SlotLocal ==
  ASSUME NEW v, SlotOK(v),
         pc'[v] = pc[v], hb'[v] = hb[v], held'[v] = held[v],
         clock'[v] = clock[v], misses'[v] = misses[v]
  PROVE  SlotOK(v)'
BY DEF SlotOK, Writing, Waiting

\* Types and slots are preserved together: the range of a lease depends on the
\* age of the write that sets it.
LEMMA SlotSteps ==
  ASSUME TypeOK, SlotsOK, [Next]_vars
  PROVE  SlotsOK'
<1> USE QueueAssumption, RenewPositive
<1>1. ASSUME NEW w \in Workers, SlotStep(w) \/ HeartbeatStep(w)
      PROVE  OthersKept(w) /\ SlotOK(w)'
  <2> USE DEF TypeOK, SlotsOK, SlotOK, OthersKept, Writing, Waiting
  <2>1. CASE StartClaim(w)
    BY <2>1 DEF StartClaim
  <2>2. ASSUME NEW t \in Tasks, Claim(w, t) PROVE OthersKept(w) /\ SlotOK(w)'
    BY <2>2 DEF Claim
  <2>3. CASE ClaimNothing(w)
    BY <2>3 DEF ClaimNothing, Idle
  <2>4. CASE Finish(w)
    BY <2>4 DEF Finish, Stop
  <2>5. CASE EscapeTask(w)
    BY <2>5 DEF EscapeTask, Stop
  <2>6. CASE Return(w)
    BY <2>6 DEF Return, Idle
  <2>7. CASE Crash(w)
    BY <2>7 DEF Crash, Idle
  <2>8. CASE Wake(w)
    BY <2>8 DEF Wake
  <2>9. CASE Renew(w)
    BY <2>9 DEF Renew, WaitAgain
  <2>10. CASE RenewFails(w)
    BY <2>10 DEF RenewFails, WaitAgain
  <2> QED BY <1>1, <2>1, <2>2, <2>3, <2>4, <2>5, <2>6, <2>7, <2>8, <2>9, <2>10
          DEF SlotStep, HeartbeatStep
<1>2. ASSUME NEW w \in Workers, SlotStep(w) \/ HeartbeatStep(w)
      PROVE  SlotsOK'
  BY <1>1, <1>2, SlotLocal DEF SlotsOK, OthersKept
<1>3. CASE Tick
  <2> SUFFICES ASSUME NEW w \in Workers PROVE SlotOK(w)'
    BY DEF SlotsOK
  <2> QED BY <1>3 DEF Tick, TypeOK, SlotsOK, SlotOK, Writing, Waiting
<1>4. ASSUME NEW t \in Tasks, Enqueue(t) PROVE SlotsOK'
  BY <1>4, SlotLocal DEF Enqueue, SlotsOK, slots
<1>5. CASE UNCHANGED vars
  BY <1>5, SlotLocal DEF vars, SlotsOK
<1> QED BY <1>2, <1>3, <1>4, <1>5 DEF Next

\* Every step keeps the types, given that the slots are consistent.
LEMMA TypeSteps ==
  ASSUME TypeOK, SlotsOK, [Next]_vars
  PROVE  TypeOK'
<1> USE QueueAssumption, RenewPositive DEF TypeOK, Settled
<1>1. ASSUME NEW t \in Tasks, Enqueue(t) PROVE TypeOK'
  BY <1>1 DEF Enqueue, slots
<1>2. ASSUME NEW w \in Workers, StartClaim(w) PROVE TypeOK'
  BY <1>2 DEF StartClaim, rows
<1>3. ASSUME NEW w \in Workers, NEW t \in Tasks, Claim(w, t) PROVE TypeOK'
  <2>1. LeaseSeconds - clock[w] \in -(WriteDelay + 1)..LeaseSeconds
    BY <1>3 DEF Claim, SlotsOK, SlotOK, Writing
  <2> QED BY <1>3, <2>1 DEF Claim
<1>4. ASSUME NEW w \in Workers, ClaimNothing(w) \/ Return(w) \/ Crash(w)
      PROVE  TypeOK'
  <2>1. Idle(w) /\ UNCHANGED rows
    BY <1>4 DEF ClaimNothing, Return, Crash
  <2>2. giveups' \in 0..MaxGiveUps
    BY <1>4 DEF ClaimNothing, Return, Crash
  <2> QED BY <2>1, <2>2 DEF Idle, rows
<1>5. ASSUME NEW w \in Workers, Finish(w) PROVE TypeOK'
  <2>1. PICK s \in {"succeeded", "retry_scheduled", "failed"} :
          status' = [status EXCEPT ![held[w]] = s]
    BY <1>5 DEF Finish
  <2>2. /\ owner' = [owner EXCEPT ![held[w]] = NoOne]
        /\ left' = [left EXCEPT ![held[w]] = 0]
        /\ Stop(w) /\ UNCHANGED <<line, grantee, giveups>>
    BY <1>5 DEF Finish
  <2>3. status' \in [Tasks -> {"absent", "queued", "running"} \cup Settled]
    BY <2>1
  <2>4. left' \in [Tasks -> -(WriteDelay + 1)..LeaseSeconds]
    <3>1. 0 \in -(WriteDelay + 1)..LeaseSeconds
      OBVIOUS
    <3>2. ASSUME NEW t \in Tasks
          PROVE  left'[t] \in -(WriteDelay + 1)..LeaseSeconds
      BY <2>2, <3>1
    <3>3. left' = [t \in Tasks |-> left'[t]]
      BY <2>2
    <3> QED BY <3>2, <3>3
  <2>5. owner' \in [Tasks -> {NoOne} \cup {WorkerId[v] : v \in Workers}]
    BY <2>2
  <2> QED BY <2>2, <2>3, <2>4, <2>5 DEF Stop
<1>6. ASSUME NEW w \in Workers, EscapeTask(w) PROVE TypeOK'
  BY <1>6 DEF EscapeTask, Stop, rows
<1>7. ASSUME NEW w \in Workers, Wake(w) PROVE TypeOK'
  BY <1>7 DEF Wake, rows
<1>8. ASSUME NEW w \in Workers, Renew(w) PROVE TypeOK'
  <2>1. LeaseSeconds - clock[w] \in -(WriteDelay + 1)..LeaseSeconds
    BY <1>8 DEF Renew, SlotsOK, SlotOK, Writing
  <2>2. left' \in [Tasks -> -(WriteDelay + 1)..LeaseSeconds]
    BY <1>8, <2>1 DEF Renew
  <2>3. WaitAgain(w) /\ misses' = [misses EXCEPT ![w] = 0]
    BY <1>8 DEF Renew
  <2> QED BY <2>2, <2>3 DEF WaitAgain
<1>9. ASSUME NEW w \in Workers, RenewFails(w) PROVE TypeOK'
  <2>1. misses' \in [Workers -> 0..MaxMisses]
    BY <1>9 DEF RenewFails
  <2>2. WaitAgain(w) /\ UNCHANGED left
    BY <1>9 DEF RenewFails
  <2> QED BY <2>1, <2>2 DEF WaitAgain
<1>10. CASE Tick
  BY <1>10 DEF Tick
<1>11. CASE UNCHANGED vars
  BY <1>11 DEF vars
<1> QED BY <1>1, <1>2, <1>3, <1>4, <1>5, <1>6, <1>7, <1>8, <1>9, <1>10, <1>11
        DEF Next, SlotStep, HeartbeatStep

\* Initially nobody is processing anything.
LEMMA InitTypes == Init => TypeOK /\ SlotsOK
BY QueueAssumption, RenewPositive, NoOneAssumption
DEF Init, TypeOK, SlotsOK, SlotOK, Writing, Waiting

\* Types, including the range of every lease, for all delays and cadences.
THEOREM QueueTypeCorrect == Spec => [](TypeOK /\ SlotsOK)
<1>1. TypeOK /\ SlotsOK /\ [Next]_vars => (TypeOK /\ SlotsOK)'
  BY TypeSteps, SlotSteps
<1> QED BY <1>1, InitTypes, PTL DEF Spec

-----------------------------------------------------------------------------
(* The lease budget. *)

\* The slots whose heartbeat may still write their task's row.
Guarded(w) ==
  \/ pc[w] = "processing"
  \/ pc[w] = "stopping" /\ hb[w] = "writing" /\ status[held[w]] = "running"

\* The longest it can take until the current turn of the heartbeat commits.
Remaining(w) ==
  IF hb[w] = "writing" THEN WriteDelay - clock[w]
                       ELSE clock[w] + WakeDelay + WriteDelay

\* The longest it can take until a renewal succeeds.
Budget(w) == (MaxMisses - misses[w]) * Cycle + Remaining(w)

\* A guarded slot is the row's last claimant, and the lease outlives the next
\* successful renewal.
LeaseOK(w) ==
  Guarded(w) =>
    /\ status[held[w]] = "running"
    /\ owner[held[w]] = WorkerId[w]
    /\ grantee[held[w]] = w
    /\ left[held[w]] >= Budget(w)

LeasesOK == \A w \in Workers : LeaseOK(w)

\* The arithmetic of missed renewals.
LEMMA Misses ==
  /\ Cycle \in Nat \ {0}
  /\ \A m \in 0..MaxMisses : (MaxMisses - m) * Cycle \in Nat
  /\ \A m \in 0..MaxMisses :
       m < MaxMisses =>
         (MaxMisses - (m + 1)) * Cycle = (MaxMisses - m) * Cycle - Cycle
  /\ (MaxMisses + 1) * Cycle = (MaxMisses - 0) * Cycle + Cycle
<1>1. Cycle \in Nat \ {0}
  BY QueueAssumption, RenewPositive DEF Cycle
<1> HIDE DEF Cycle
<1>2. \A m \in 0..MaxMisses : (MaxMisses - m) * Cycle \in Nat
  BY <1>1, QueueAssumption
<1>3. \A m \in 0..MaxMisses :
        m < MaxMisses =>
          (MaxMisses - (m + 1)) * Cycle = (MaxMisses - m) * Cycle - Cycle
  BY <1>1, QueueAssumption
<1>4. (MaxMisses + 1) * Cycle = (MaxMisses - 0) * Cycle + Cycle
  BY <1>1, QueueAssumption
<1> QED BY <1>1, <1>2, <1>3, <1>4

\* What remains of a turn is not negative, so neither is the budget.
LEMMA BudgetNat ==
  ASSUME TypeOK, SlotsOK, NEW w \in Workers, Guarded(w)
  PROVE  Remaining(w) \in Nat /\ Budget(w) \in Nat
<1>1. Remaining(w) \in Nat
  BY QueueAssumption, RenewPositive
  DEF TypeOK, SlotsOK, SlotOK, Guarded, Remaining, Writing, Waiting
<1>2. (MaxMisses - misses[w]) * Cycle \in Nat
  BY Misses DEF TypeOK
<1> QED BY <1>1, <1>2 DEF Budget

\* Two guarded slots never hold the same task.
LEMMA GuardedUnique ==
  ASSUME LeasesOK, NEW v \in Workers, NEW w \in Workers,
         Guarded(v), Guarded(w), held[v] = held[w]
  PROVE  v = w
BY DEF LeasesOK, LeaseOK

\* The task of a guarded slot is not claimable.
LEMMA GuardedNotClaimable ==
  ASSUME TypeOK, SlotsOK, LeasesOK, NEW w \in Workers, NEW x \in Workers,
         Guarded(w), pc[x] = "claiming"
  PROVE  ~Claimable(x, held[w])
<1>1. left[held[w]] >= 0 /\ left[held[w]] \in Int /\ status[held[w]] = "running"
  <2>1. held[w] \in Tasks
    BY DEF SlotsOK, SlotOK, Guarded
  <2>2. left[held[w]] \in Int
    BY <2>1, QueueAssumption DEF TypeOK
  <2> QED BY <2>2, BudgetNat DEF LeasesOK, LeaseOK
<1>2. clock[x] \in Nat
  BY QueueAssumption DEF SlotsOK, SlotOK, Writing
<1> QED BY <1>1, <1>2 DEF Claimable

\* LeaseOK depends on the slot's own control and on the row it holds.
LEMMA LeaseLocal ==
  ASSUME NEW v, LeaseOK(v),
         pc'[v] = pc[v], hb'[v] = hb[v], held'[v] = held[v],
         clock'[v] = clock[v], misses'[v] = misses[v],
         Guarded(v) => /\ status'[held[v]] = status[held[v]]
                       /\ owner'[held[v]] = owner[held[v]]
                       /\ grantee'[held[v]] = grantee[held[v]]
                       /\ left'[held[v]] = left[held[v]],
         Guarded(v)' => Guarded(v)
  PROVE  LeaseOK(v)'
BY DEF LeaseOK, Guarded, Budget, Remaining

\* The row a heartbeat works on was claimed, and never returns to the queue.
StartedOK ==
  \A w \in Workers : hb[w] # "off" => status[held[w]] \in {"running"} \cup Settled

\* A heartbeat never runs on a row that was not started.
LEMMA StartedSteps ==
  ASSUME TypeOK, SlotsOK, StartedOK, [Next]_vars
  PROVE  StartedOK'
<1>1. \A t \in Tasks : status[t] \in {"running"} \cup Settled
                        => status'[t] \in {"running"} \cup Settled
  BY DEF TypeOK, Settled, Next, Enqueue, SlotStep, StartClaim, Claim,
         ClaimNothing, Finish, EscapeTask, Return, Crash, HeartbeatStep, Wake,
         Renew, RenewFails, WaitAgain, Tick, rows, vars
<1>2. ASSUME NEW w \in Workers, hb'[w] # "off"
      PROVE  status'[held'[w]] \in {"running"} \cup Settled
  <2>1. CASE hb[w] # "off" /\ held'[w] = held[w]
    BY <1>1, <2>1 DEF StartedOK, SlotsOK, SlotOK
  <2>2. CASE \E t \in Tasks : Claim(w, t)
    BY <2>2 DEF Claim, TypeOK
  <2>3. ASSUME NEW x \in Workers, SlotStep(x) \/ HeartbeatStep(x)
        PROVE  \/ hb[w] # "off" /\ held'[w] = held[w]
               \/ \E t \in Tasks : Claim(w, t)
    <3>1. CASE \E t \in Tasks : Claim(x, t)
      <4>1. CASE x # w
        BY <1>2, <3>1, <4>1 DEF Claim, TypeOK
      <4> QED BY <3>1, <4>1
    <3>2. CASE StartClaim(x)
      BY <1>2, <3>2 DEF StartClaim
    <3>3. CASE ClaimNothing(x) \/ Return(x) \/ Crash(x)
      BY <1>2, <3>3 DEF ClaimNothing, Return, Crash, Idle, TypeOK
    <3>4. CASE Finish(x) \/ EscapeTask(x)
      BY <1>2, <3>4 DEF Finish, EscapeTask, Stop
    <3>5. CASE HeartbeatStep(x)
      BY <1>2, <3>5 DEF HeartbeatStep, Wake, Renew, RenewFails, WaitAgain, TypeOK
    <3> QED BY <2>3, <3>1, <3>2, <3>3, <3>4, <3>5 DEF SlotStep
  <2>4. CASE Tick \/ (\E t \in Tasks : Enqueue(t)) \/ UNCHANGED vars
    <3>1. hb[w] # "off" /\ held'[w] = held[w]
      BY <1>2, <2>4 DEF Tick, Enqueue, slots, vars
    <3> QED BY <2>1, <3>1
  <2> QED BY <2>1, <2>2, <2>3, <2>4 DEF Next
<1> QED BY <1>2 DEF StartedOK

\* A claim starts with the whole budget, and takes no row from a heartbeat.
LEMMA ClaimKeepsLeases ==
  ASSUME Timely, TypeOK, SlotsOK, StartedOK, LeasesOK,
         NEW x \in Workers, NEW t \in Tasks, Claim(x, t)
  PROVE  LeasesOK'
<1> USE QueueAssumption, RenewPositive
<1>1. ASSUME NEW w \in Workers, pc[w] = "processing" \/ hb[w] = "writing",
             held[w] = t
      PROVE  FALSE
  <2>1. Claimable(x, t) /\ pc[x] = "claiming"
    BY DEF Claim, FirstClaimable
  <2>2. ~Guarded(w)
    BY <1>1, <2>1, GuardedNotClaimable
  <2>3. status[t] \in {"running"} \cup Settled
    BY <1>1 DEF StartedOK, SlotsOK, SlotOK
  <2>4. status[t] = "running"
    BY <2>1, <2>3 DEF Claimable, Settled
  <2> QED BY <1>1, <2>2, <2>4, ZenonT(60) DEF Guarded, TypeOK, SlotsOK, SlotOK
<1>2. ASSUME NEW w \in Workers \ {x} PROVE LeaseOK(w)'
  <2>1. /\ pc'[w] = pc[w] /\ hb'[w] = hb[w] /\ held'[w] = held[w]
        /\ clock'[w] = clock[w] /\ misses'[w] = misses[w]
    BY DEF Claim, TypeOK
  <2>2. held[w] # t => /\ status'[held[w]] = status[held[w]]
                       /\ owner'[held[w]] = owner[held[w]]
                       /\ grantee'[held[w]] = grantee[held[w]]
                       /\ left'[held[w]] = left[held[w]]
    BY DEF Claim, TypeOK
  <2>3. CASE held[w] # t
    BY <2>1, <2>2, <2>3, LeaseLocal DEF LeasesOK, Guarded
  <2>4. CASE held[w] = t
    BY <1>1, <2>1, <2>4 DEF LeaseOK, Guarded
  <2> QED BY <2>3, <2>4
<1>3. LeaseOK(x)'
  <2>1. clock[x] \in 0..WriteDelay /\ misses[x] = 0
    BY DEF Claim, SlotsOK, SlotOK, Writing
  <2>2. Budget(x)' = (MaxMisses - 0) * Cycle + Cycle
    BY <2>1 DEF Claim, TypeOK, Budget, Remaining, Cycle
  <2>3. left'[t] >= Budget(x)'
    <3>1. left'[t] = LeaseSeconds - clock[x]
      BY DEF Claim, TypeOK
    <3> QED BY <2>1, <2>2, <3>1, Misses DEF Timely
  <2> QED BY <2>3 DEF Claim, TypeOK, LeaseOK
<1> QED BY <1>2, <1>3 DEF LeasesOK

\* Each turn of a heartbeat stays within the budget.
LEMMA HeartbeatKeepsLeases ==
  ASSUME Timely, TypeOK, SlotsOK, StartedOK, LeasesOK,
         NEW x \in Workers, HeartbeatStep(x)
  PROVE  LeasesOK'
<1> USE QueueAssumption, RenewPositive
<1>1. ASSUME NEW w \in Workers \ {x} PROVE LeaseOK(w)'
  <2>1. /\ pc'[w] = pc[w] /\ hb'[w] = hb[w] /\ held'[w] = held[w]
        /\ clock'[w] = clock[w] /\ misses'[w] = misses[w]
        /\ UNCHANGED <<status, owner, grantee>>
    BY DEF HeartbeatStep, Wake, Renew, RenewFails, WaitAgain, TypeOK, rows
  <2>2. ASSUME Guarded(w) PROVE left'[held[w]] = left[held[w]]
    <3>1. CASE UNCHANGED left
      BY <3>1
    <3>2. CASE held[w] # held[x] /\ Renew(x)
      <4>1. held[w] \in Tasks
        BY <2>2 DEF Guarded, SlotsOK, SlotOK
      <4> QED BY <3>2, <4>1 DEF Renew, TypeOK
    <3>3. CASE held[w] = held[x] /\ Renew(x)
      <4>1. status[held[x]] = "running"
        BY <2>2, <3>3 DEF LeasesOK, LeaseOK
      <4>2. Guarded(x)
        BY <3>3, <4>1 DEF Renew, Guarded, TypeOK, SlotsOK, SlotOK
      <4> QED BY <2>2, <3>3, <4>2, GuardedUnique
    <3> QED BY <3>1, <3>2, <3>3 DEF HeartbeatStep, Wake, RenewFails, rows
  <2> QED BY <2>1, <2>2, LeaseLocal DEF LeasesOK, Guarded
<1>2. ASSUME Guarded(x)' PROVE Guarded(x)
  BY <1>2 DEF HeartbeatStep, Wake, Renew, RenewFails, WaitAgain, Guarded, TypeOK,
              rows
<1>3. ASSUME Guarded(x)' PROVE LeaseOK(x)'
  <2>1. /\ status[held[x]] = "running" /\ owner[held[x]] = WorkerId[x]
        /\ grantee[held[x]] = x /\ left[held[x]] >= Budget(x)
        /\ held[x] \in Tasks /\ left[held[x]] \in Int
    BY <1>2, <1>3 DEF LeasesOK, LeaseOK, SlotsOK, SlotOK, Guarded, TypeOK
  <2>2. UNCHANGED <<status, owner, grantee, held>>
    BY DEF HeartbeatStep, Wake, Renew, RenewFails, WaitAgain, rows
  <2>3. (MaxMisses - misses[x]) * Cycle \in Nat /\ Cycle \in Nat
    BY Misses DEF TypeOK
  <2>4. left'[held[x]] >= Budget(x)'
    <3>1. CASE Wake(x)
      <4>1. clock[x] \in Int /\ clock[x] >= -WakeDelay
        BY <3>1 DEF Wake, SlotsOK, SlotOK, Waiting
      <4>2. Budget(x) >= (MaxMisses - misses[x]) * Cycle + WriteDelay
        BY <2>3, <3>1, <4>1 DEF Wake, Budget, Remaining
      <4>3. Budget(x)' = (MaxMisses - misses[x]) * Cycle + WriteDelay
        BY <2>3, <3>1 DEF Wake, Budget, Remaining, TypeOK
      <4>4. left' = left /\ Budget(x) \in Int
        BY <1>2, <1>3, <3>1, BudgetNat DEF Wake, rows
      <4> HIDE DEF Budget
      <4> QED BY <2>1, <2>3, <4>2, <4>3, <4>4
    <3>2. CASE Renew(x)
      <4>1. clock[x] \in 0..WriteDelay
        BY <3>2 DEF Renew, SlotsOK, SlotOK, Writing
      <4>2. left'[held[x]] = LeaseSeconds - clock[x]
        BY <2>1, <3>2 DEF Renew, TypeOK
      <4>3. Budget(x)' = (MaxMisses - 0) * Cycle + Cycle
        BY <3>2 DEF Renew, WaitAgain, Budget, Remaining, TypeOK, Cycle
      <4> QED BY <4>1, <4>2, <4>3, Misses DEF Timely
    <3>3. CASE RenewFails(x)
      <4>1. clock[x] \in 0..WriteDelay /\ misses[x] \in 0..MaxMisses
        BY <3>3 DEF RenewFails, SlotsOK, SlotOK, Writing, TypeOK
      <4>2. Budget(x) >= (MaxMisses - misses[x]) * Cycle
        BY <2>3, <3>3, <4>1 DEF RenewFails, Budget, Remaining
      <4>3. Budget(x)' = (MaxMisses - (misses[x] + 1)) * Cycle + Cycle
        BY <3>3 DEF RenewFails, WaitAgain, Budget, Remaining, TypeOK, Cycle
      <4>4. Budget(x)' = (MaxMisses - misses[x]) * Cycle
        BY <2>3, <3>3, <4>1, <4>3, Misses DEF RenewFails
      <4>5. left' = left /\ Budget(x) \in Int
        BY <1>2, <1>3, <3>3, BudgetNat DEF RenewFails
      <4> HIDE DEF Budget
      <4> QED BY <2>1, <2>3, <4>2, <4>4, <4>5
    <3> QED BY <3>1, <3>2, <3>3 DEF HeartbeatStep
  <2> QED BY <2>1, <2>2, <2>4 DEF LeaseOK
<1> QED BY <1>1, <1>3 DEF LeasesOK, LeaseOK

\* The steps of process_one other than the claim only end guards.
LEMMA SlotKeepsLeases ==
  ASSUME TypeOK, SlotsOK, LeasesOK, NEW x \in Workers,
         SlotStep(x), \A t \in Tasks : ~Claim(x, t)
  PROVE  LeasesOK'
<1>1. CASE Finish(x)
  <2> DEFINE t == held[x]
  <2>1. t \in Tasks /\ Guarded(x)
    BY <1>1 DEF Finish, Guarded, SlotsOK, SlotOK
  <2>2. status'[t] # "running" /\ pc'[x] = "stopping" /\ held'[x] = t
    BY <1>1, <2>1 DEF Finish, Stop, TypeOK
  <2>3. ASSUME NEW w \in Workers \ {x} PROVE LeaseOK(w)'
    <3>1. /\ pc'[w] = pc[w] /\ hb'[w] = hb[w] /\ held'[w] = held[w]
          /\ clock'[w] = clock[w] /\ misses'[w] = misses[w]
      BY <1>1 DEF Finish, Stop, TypeOK
    <3>2. held[w] # t =>
            /\ status'[held[w]] = status[held[w]]
            /\ owner'[held[w]] = owner[held[w]]
            /\ grantee'[held[w]] = grantee[held[w]]
            /\ left'[held[w]] = left[held[w]]
      BY <1>1 DEF Finish, TypeOK
    <3>3. Guarded(w) => held[w] # t
      BY <2>1, GuardedUnique
    <3>4. Guarded(w)' => Guarded(w)
      <4>1. CASE held[w] # t
        BY <3>1, <3>2, <4>1 DEF Guarded
      <4>2. CASE held[w] = t
        BY <2>2, <3>1, <4>2 DEF Guarded
      <4> QED BY <4>1, <4>2
    <3> QED BY <3>1, <3>2, <3>3, <3>4, LeaseLocal DEF LeasesOK
  <2>4. ~Guarded(x)'
    BY <2>2 DEF Guarded
  <2> QED BY <2>3, <2>4 DEF LeasesOK, LeaseOK
<1>2. CASE ~Finish(x)
  <2>1. UNCHANGED rows
    BY <1>2 DEF SlotStep, StartClaim, ClaimNothing, EscapeTask, Return, Crash
  <2>2. ASSUME NEW w \in Workers \ {x} PROVE LeaseOK(w)'
    <3>1. /\ pc'[w] = pc[w] /\ hb'[w] = hb[w] /\ held'[w] = held[w]
          /\ clock'[w] = clock[w] /\ misses'[w] = misses[w]
      BY <1>2 DEF SlotStep, StartClaim, ClaimNothing, EscapeTask, Return, Crash,
                  Idle, Stop, TypeOK
    <3> QED BY <2>1, <3>1, LeaseLocal DEF LeasesOK, Guarded, rows
  <2>3. CASE EscapeTask(x)
    <3>1. Guarded(x) /\ UNCHANGED <<hb, held, clock, misses>>
      BY <2>3 DEF EscapeTask, Stop, Guarded
    <3> QED BY <2>1, <2>2, <3>1
            DEF LeasesOK, LeaseOK, Budget, Remaining, rows
  <2>4. CASE ~EscapeTask(x)
    <3>1. pc'[x] \in {"idle", "claiming"}
      BY <1>2, <2>4 DEF SlotStep, StartClaim, ClaimNothing, Return, Crash, Idle,
                        TypeOK
    <3> QED BY <2>2, <3>1 DEF LeasesOK, LeaseOK, Guarded
  <2> QED BY <2>3, <2>4
<1> QED BY <1>1, <1>2

\* Time eats the lease and the budget at the same rate.
LEMMA TickKeepsLeases ==
  ASSUME TypeOK, SlotsOK, LeasesOK, Tick
  PROVE  LeasesOK'
<1> USE QueueAssumption
<1> SUFFICES ASSUME NEW w \in Workers, Guarded(w)' PROVE LeaseOK(w)'
  BY DEF LeasesOK, LeaseOK
<1>1. UNCHANGED <<status, owner, grantee, pc, hb, held, misses>>
  BY DEF Tick
<1>2. Guarded(w)
  BY <1>1 DEF Guarded
<1>3. held[w] \in Tasks /\ left[held[w]] \in Int
  <2>1. held[w] \in Tasks
    BY <1>2 DEF Guarded, SlotsOK, SlotOK
  <2> QED BY <2>1 DEF TypeOK
<1>4. left[held[w]] >= Budget(w) /\ Budget(w) \in Nat
  BY <1>2, BudgetNat DEF LeasesOK, LeaseOK
<1>5. left'[held[w]] = left[held[w]] - 1
  BY <1>2, <1>3, <1>4 DEF Tick, LeasesOK, LeaseOK
<1>6. Budget(w)' = Budget(w) - 1
  <2>1. Remaining(w)' = Remaining(w) - 1
    BY <1>2, RenewPositive
    DEF Tick, Guarded, Remaining, Writing, Waiting, TypeOK, SlotsOK, SlotOK
  <2>2. (MaxMisses - misses[w]) * Cycle \in Nat /\ Remaining(w) \in Nat
    BY <1>2, Misses, BudgetNat DEF TypeOK
  <2>3. Budget(w)' = (MaxMisses - misses[w]) * Cycle + Remaining(w)'
    BY <1>1 DEF Budget
  <2> QED BY <2>1, <2>2, <2>3 DEF Budget
<1> QED BY <1>1, <1>2, <1>3, <1>4, <1>5, <1>6 DEF LeasesOK, LeaseOK

\* The invariant the queue keeps under timely heartbeats.
QueueInv == TypeOK /\ SlotsOK /\ StartedOK /\ LeasesOK

\* Every step keeps the whole invariant: one case per actor.
LEMMA QueueInvSteps ==
  ASSUME Timely, QueueInv, [Next]_vars
  PROVE  QueueInv'
<1> USE DEF QueueInv
<1>1. TypeOK' /\ SlotsOK' /\ StartedOK'
  BY TypeSteps, SlotSteps, StartedSteps
<1>2. ASSUME NEW x \in Workers, SlotStep(x) PROVE LeasesOK'
  BY <1>2, ClaimKeepsLeases, SlotKeepsLeases
<1>3. ASSUME NEW x \in Workers, HeartbeatStep(x) PROVE LeasesOK'
  BY <1>3, HeartbeatKeepsLeases
<1>4. ASSUME Tick PROVE LeasesOK'
  BY <1>4, TickKeepsLeases
<1>5. ASSUME NEW t \in Tasks, Enqueue(t) PROVE LeasesOK'
  <2> SUFFICES ASSUME NEW w \in Workers, Guarded(w)' PROVE LeaseOK(w)'
    BY DEF LeasesOK, LeaseOK
  <2>1. /\ UNCHANGED <<owner, left, grantee, pc, hb, held, clock, misses>>
        /\ status[t] = "absent" /\ status' = [status EXCEPT ![t] = "queued"]
    BY <1>5 DEF Enqueue, slots
  <2>2. Guarded(w)
    BY <2>1 DEF Guarded, TypeOK
  <2>3. held[w] # t
    BY <2>1, <2>2 DEF LeasesOK, LeaseOK
  <2>4. status'[held[w]] = status[held[w]]
    BY <2>1, <2>3 DEF TypeOK
  <2> QED BY <2>1, <2>2, <2>4, LeaseLocal DEF LeasesOK
<1>6. ASSUME UNCHANGED vars PROVE LeasesOK'
  BY <1>6, LeaseLocal DEF vars, LeasesOK, Guarded
<1>7. LeasesOK'
  BY <1>2, <1>3, <1>4, <1>5, <1>6 DEF Next
<1> QED BY <1>1, <1>7

\* Initially no lease is held, so there is nothing to keep.
LEMMA QueueInvInit == Init => QueueInv
BY InitTypes DEF Init, QueueInv, StartedOK, LeasesOK, LeaseOK, Guarded

\* The budget makes every held lease live.
LEMMA QueueInvHolds == ASSUME Timely PROVE Spec => []QueueInv
<1>1. QueueInv /\ [Next]_vars => QueueInv'
  BY QueueInvSteps
<1> QED BY <1>1, QueueInvInit, PTL DEF Spec

\* A guarded lease has a non-negative budget left, so it has not passed.
LEMMA QueueInvLive == QueueInv => HeldLeaseIsLive
<1> SUFFICES ASSUME QueueInv, NEW w \in Workers, NEW t \in Tasks,
                    Processing(w, t)
             PROVE  status[t] = "running" /\ grantee[t] = w /\ left[t] >= 0
  BY DEF HeldLeaseIsLive
<1>1. Guarded(w) /\ held[w] = t
  BY DEF Processing, Guarded
<1>2. Budget(w) \in Nat /\ left[t] >= Budget(w)
  BY <1>1, BudgetNat DEF QueueInv, LeasesOK, LeaseOK
<1>3. left[t] \in Int
  BY QueueAssumption DEF QueueInv, TypeOK
<1> QED BY <1>1, <1>2, <1>3 DEF QueueInv, LeasesOK, LeaseOK

\* With timely heartbeats, the slot that processes a task is its last claimant
\* and its lease has not passed, for every lease, cadence and delay that meet
\* Timely.
THEOREM LeaseBudgetSuffices == Spec => []HeldLeaseIsLive
<1>1. CASE Timely
  BY <1>1, QueueInvHolds, QueueInvLive, PTL
<1>2. CASE ~Timely
  <2>1. HeldLeaseIsLive
    BY <1>2 DEF HeldLeaseIsLive
  <2> QED BY <2>1, PTL
<1> QED BY <1>1, <1>2

-----------------------------------------------------------------------------
(* The queue implements TaskLease. *)

\* The abstract state of the queue.
Row == [t \in Tasks |-> IF status[t] = "absent" THEN "absent"
                        ELSE IF status[t] \in Settled THEN "settled"
                        ELSE "open"]
Busy == [t \in Tasks |-> {w \in Workers : Processing(w, t)}]

\* A slot that starts or stops processing t changes t's holders only.
LEMMA BusySteps ==
  ASSUME TypeOK, NEW x \in Workers, NEW t \in Tasks,
         \A w \in Workers \ {x} : pc'[w] = pc[w] /\ held'[w] = held[w],
         \A s \in Tasks \ {t} : Processing(x, s)' <=> Processing(x, s)
  PROVE  /\ Processing(x, t)' => Busy' = [Busy EXCEPT ![t] = @ \cup {x}]
         /\ ~Processing(x, t)' => Busy' = [Busy EXCEPT ![t] = @ \ {x}]
<1>1. \A w \in Workers \ {x}, s \in Tasks : Processing(w, s)' <=> Processing(w, s)
  BY DEF Processing
<1>2. \A s \in Tasks \ {t} : Busy'[s] = Busy[s]
  BY <1>1 DEF Busy
<1>3. Processing(x, t)' => Busy'[t] = Busy[t] \cup {x}
  BY <1>1 DEF Busy
<1>4. ~Processing(x, t)' => Busy'[t] = Busy[t] \ {x}
  BY <1>1 DEF Busy
<1>5. Busy = [s \in Tasks |-> Busy[s]] /\ Busy' = [s \in Tasks |-> Busy'[s]]
  BY DEF Busy
<1> HIDE DEF Busy
<1> QED BY <1>2, <1>3, <1>4, <1>5

\* A processed task has exactly one holder, and its row is open.
LEMMA SoleHolder ==
  ASSUME QueueInv, NEW x \in Workers, NEW t \in Tasks, Processing(x, t)
  PROVE  Busy[t] = {x} /\ Row[t] = "open"
<1>1. Guarded(x) /\ held[x] = t
  BY DEF Processing, Guarded
<1>2. \A w \in Workers : Processing(w, t) => w = x
  <2> SUFFICES ASSUME NEW w \in Workers, Processing(w, t) PROVE w = x
    OBVIOUS
  <2>1. Guarded(w) /\ held[w] = t
    BY DEF Processing, Guarded
  <2> QED BY <1>1, <2>1, GuardedUnique DEF QueueInv
<1>3. status[t] = "running"
  BY <1>1 DEF QueueInv, LeasesOK, LeaseOK
<1> QED BY <1>2, <1>3 DEF Busy, Row, Settled

\* A claimed task is open and nobody was processing it.
LEMMA ClaimIsGrant ==
  ASSUME QueueInv, NEW x \in Workers, NEW t \in Tasks, Claim(x, t)
  PROVE  Lease!Grant(x, t)
<1>1. Claimable(x, t) /\ pc[x] = "claiming"
  BY DEF Claim, FirstClaimable
<1>2. Busy[t] = {}
  <2> SUFFICES ASSUME NEW w \in Workers, Processing(w, t) PROVE FALSE
    BY DEF Busy
  <2>1. Guarded(w) /\ held[w] = t
    BY DEF Processing, Guarded
  <2> QED BY <1>1, <2>1, GuardedNotClaimable DEF QueueInv
<1>3. \A s \in Tasks : x \notin Busy[s]
  BY <1>1 DEF Busy, Processing
<1>4. Busy' = [Busy EXCEPT ![t] = {x}]
  <2>1. \A w \in Workers \ {x} : pc'[w] = pc[w] /\ held'[w] = held[w]
    BY DEF Claim, QueueInv, TypeOK
  <2>2. pc'[x] = "processing" /\ held'[x] = t
    BY DEF Claim, QueueInv, TypeOK
  <2>3. \A s \in Tasks \ {t} : Processing(x, s)' <=> Processing(x, s)
    BY <1>1, <2>2 DEF Processing
  <2>4. Processing(x, t)'
    BY <2>2 DEF Processing
  <2>5. Busy' = [Busy EXCEPT ![t] = @ \cup {x}]
    BY <2>1, <2>3, <2>4, BusySteps DEF QueueInv
  <2>6. t \in DOMAIN Busy
    BY DEF Busy
  <2> HIDE DEF Busy
  <2> QED BY <1>2, <2>5, <2>6
<1>5. status' = [status EXCEPT ![t] = "running"] /\ status[t] \in {"queued", "running"}
  BY <1>1 DEF Claim, Claimable
<1>6. Row[t] = "open" /\ Row' = Row
  BY <1>5 DEF Row, Settled, QueueInv, TypeOK
<1> QED BY <1>2, <1>3, <1>4, <1>6 DEF Lease!Grant, Row, Busy

\* A slot that leaves process_one, or dies in it, releases its task only.
LEMMA EndIsRelease ==
  ASSUME QueueInv, NEW x \in Workers, NEW t \in Tasks, Processing(x, t),
         \A w \in Workers \ {x} : pc'[w] = pc[w] /\ held'[w] = held[w],
         pc'[x] # "processing"
  PROVE  Busy[t] = {x} /\ Busy' = [Busy EXCEPT ![t] = {}]
<1>1. Busy[t] = {x}
  BY SoleHolder
<1>2. \A s \in Tasks \ {t} : Processing(x, s)' <=> Processing(x, s)
  BY DEF Processing
<1>3. ~Processing(x, t)'
  BY DEF Processing
<1>4. Busy' = [Busy EXCEPT ![t] = @ \ {x}]
  BY <1>2, <1>3, BusySteps DEF QueueInv
<1>5. t \in DOMAIN Busy
  BY DEF Busy
<1> HIDE DEF Busy
<1> QED BY <1>1, <1>4, <1>5

\* Every step of the queue is a step of TaskLease or leaves it unchanged.
LEMMA StepSimulation ==
  ASSUME QueueInv, [Next]_vars
  PROVE  [Lease!Next]_(Lease!vars)
<1>0. /\ UNCHANGED <<Row, Busy>> => UNCHANGED Lease!vars
      /\ \A t \in Tasks, x \in Workers :
           Lease!Grant(x, t) \/ Lease!Settle(x, t) \/ Lease!GiveUp(x, t)
             => Lease!Next
      /\ \A t \in Tasks : Lease!Submit(t) => Lease!Next
  BY DEF Lease!Next, Lease!vars, Row, Busy
<1>1. ASSUME NEW t \in Tasks, Enqueue(t) PROVE [Lease!Next]_(Lease!vars)
  <2>1. status[t] = "absent" /\ status' = [status EXCEPT ![t] = "queued"]
    BY <1>1 DEF Enqueue
  <2>2. Row[t] = "absent" /\ Row' = [Row EXCEPT ![t] = "open"]
    BY <2>1 DEF Row, Settled, QueueInv, TypeOK
  <2>3. Busy' = Busy
    BY <1>1 DEF Enqueue, slots, Busy, Processing
  <2> QED BY <1>0, <2>2, <2>3 DEF Lease!Submit, Row, Busy
<1>2. ASSUME NEW x \in Workers, NEW t \in Tasks, Claim(x, t)
      PROVE  [Lease!Next]_(Lease!vars)
  BY <1>0, <1>2, ClaimIsGrant
<1>3. ASSUME NEW x \in Workers, Finish(x) PROVE [Lease!Next]_(Lease!vars)
  <2>0. PICK t \in Tasks : t = held[x]
    BY <1>3 DEF Finish, QueueInv, SlotsOK, SlotOK
  <2>1. Processing(x, t)
    BY <1>3, <2>0 DEF Finish, Processing
  <2>2. /\ \A w \in Workers \ {x} : pc'[w] = pc[w] /\ held'[w] = held[w]
        /\ pc'[x] # "processing"
    BY <1>3 DEF Finish, Stop, QueueInv, TypeOK
  <2>3. Row[t] = "open"
    BY <2>1, SoleHolder
  <2>4. Row' = [Row EXCEPT ![t] = "settled"]
    <3>1. PICK s \in Settled : status' = [status EXCEPT ![t] = s]
      BY <1>3, <2>0 DEF Finish, Settled
    <3> QED BY <3>1 DEF Row, QueueInv, TypeOK, Settled
  <2>5. Busy[t] = {x} /\ Busy' = [Busy EXCEPT ![t] = {}]
    BY <2>1, <2>2, EndIsRelease
  <2>6. Lease!Settle(x, t)
    BY <2>3, <2>4, <2>5 DEF Lease!Settle, Row, Busy
  <2> QED BY <1>0, <2>1, <2>6
<1>4. ASSUME NEW x \in Workers, EscapeTask(x) \/ Crash(x), pc[x] = "processing"
      PROVE  [Lease!Next]_(Lease!vars)
  <2>0. PICK t \in Tasks : t = held[x]
    BY <1>4 DEF QueueInv, SlotsOK, SlotOK
  <2>1. Processing(x, t)
    BY <1>4, <2>0 DEF Processing
  <2>2. /\ \A w \in Workers \ {x} : pc'[w] = pc[w] /\ held'[w] = held[w]
        /\ pc'[x] # "processing"
    BY <1>4 DEF EscapeTask, Crash, Idle, Stop, QueueInv, TypeOK
  <2>3. Busy[t] = {x} /\ Busy' = [Busy EXCEPT ![t] = {}]
    BY <2>1, <2>2, EndIsRelease
  <2>4. Row' = Row
    BY <1>4 DEF EscapeTask, Crash, rows, Row
  <2>5. Lease!GiveUp(x, t)
    BY <2>3, <2>4 DEF Lease!GiveUp, Row, Busy
  <2> QED BY <1>0, <2>1, <2>5
<1>5. ASSUME NEW x \in Workers,
             \/ StartClaim(x) \/ ClaimNothing(x) \/ Return(x)
             \/ Crash(x) /\ pc[x] # "processing"
      PROVE  [Lease!Next]_(Lease!vars)
  <2>1. UNCHANGED rows /\ pc[x] # "processing" /\ pc'[x] # "processing"
    BY <1>5 DEF StartClaim, ClaimNothing, Return, Crash, Idle, QueueInv, TypeOK
  <2>2. \A w \in Workers \ {x} : pc'[w] = pc[w] /\ held'[w] = held[w]
    BY <1>5 DEF StartClaim, ClaimNothing, Return, Crash, Idle, QueueInv, TypeOK
  <2>3. \A w \in Workers, t \in Tasks : Processing(w, t)' <=> Processing(w, t)
    BY <2>1, <2>2 DEF Processing
  <2>4. Busy' = Busy
    BY <2>3 DEF Busy
  <2>5. Row' = Row
    BY <2>1 DEF Row, rows
  <2> QED BY <1>0, <2>4, <2>5
<1>6. ASSUME NEW x \in Workers, HeartbeatStep(x)
      PROVE  [Lease!Next]_(Lease!vars)
  <2>1. UNCHANGED <<status, pc, held>>
    BY <1>6 DEF HeartbeatStep, Wake, Renew, RenewFails, WaitAgain, rows
  <2> QED BY <1>0, <2>1 DEF Busy, Row, Processing
<1>7. ASSUME Tick \/ UNCHANGED vars PROVE [Lease!Next]_(Lease!vars)
  <2>1. UNCHANGED <<status, pc, held>>
    BY <1>7 DEF Tick, vars
  <2> QED BY <1>0, <2>1 DEF Busy, Row, Processing
<1> QED BY <1>1, <1>2, <1>3, <1>4, <1>5, <1>6, <1>7
        DEF Next, SlotStep, EscapeTask

\* With timely heartbeats the timed queue implements exclusive grants: a task
\* is claimed again only after its slot gave it up or died, and never once it
\* is settled.
THEOREM QueueImplementsTaskLease ==
  ASSUME Timely
  PROVE  Spec => ImplementsTaskLease
<1>1. Init => Lease!Init
  <2> SUFFICES ASSUME Init PROVE Row = [t \in Tasks |-> "absent"]
                                 /\ Busy = [t \in Tasks |-> {}]
    BY DEF Lease!Init, Row, Busy
  <2> QED BY DEF Init, Row, Busy, Processing
<1>2. QueueInv /\ [Next]_vars => [Lease!Next]_(Lease!vars)
  BY StepSimulation
<1> QED BY <1>1, <1>2, QueueInvHolds, PTL
        DEF Spec, ImplementsTaskLease, Lease!Spec
=============================================================================
