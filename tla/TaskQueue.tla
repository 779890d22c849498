------------------------------ MODULE TaskQueue -----------------------------
(***************************************************************************)
(* The durable task queue with its time-based leases: claim_task,          *)
(* refresh_lease, mark_succeeded and mark_failed of the queue repository,  *)
(* AnalysisWorker.process_one around them, and the LeaseHeartbeat thread   *)
(* of each claimed task.                                                   *)
(*                                                                         *)
(* Time is discrete.  A lease is kept as the ticks left until              *)
(* lease_expires_at.  A write reads the clock first and commits at most    *)
(* WriteDelay ticks later (the writer lock, BUSY retries); a heartbeat     *)
(* thread wakes at most WakeDelay ticks late; at most MaxMisses of its     *)
(* renewals fail in a row.                                                 *)
(***************************************************************************)
EXTENDS Integers, Sequences

CONSTANTS
  Workers,            \* the slots that call process_one
  Tasks,
  WorkerId,           \* [Workers -> the configured worker.worker_id]
  LeaseSeconds,       \* worker.lease_seconds
  LeaseRenewSeconds,  \* worker.lease_renew_seconds
  WakeDelay,
  WriteDelay,
  MaxMisses,
  MaxRetries,         \* Task.max_retries; retry_count is 0 in every row
  MaxGiveUps          \* bound on giveups and escaped exceptions

ASSUME QueueAssumption ==
  /\ LeaseSeconds \in Nat \ {0}
  /\ LeaseRenewSeconds \in Nat \ {0}
  /\ WakeDelay \in Nat
  /\ WriteDelay \in Nat
  /\ MaxMisses \in Nat
  /\ MaxRetries \in Nat
  /\ MaxGiveUps \in Nat

\* No worker_id and no task: lease_owner is NULL, nothing is held.
NoOne == "none"

ASSUME NoOneAssumption ==
  NoOne \notin Tasks /\ \A w \in Workers : WorkerId[w] # NoOne

\* LeaseHeartbeat.__init__: max(1, min(renew, lease - 1)).
RenewSeconds ==
  LET least == IF LeaseRenewSeconds < LeaseSeconds - 1
               THEN LeaseRenewSeconds ELSE LeaseSeconds - 1
  IN IF least < 1 THEN 1 ELSE least

VARIABLES
  status,   \* AnalysisTask.status, "absent" before enqueue_task
  owner,    \* AnalysisTask.lease_owner
  left,     \* ticks until lease_expires_at; negative once it has passed
  line,     \* the enqueued tasks by (priority desc, next_run_at)
  pc,       \* where each slot is in process_one
  due,      \* the tasks with next_run_at <= the clock its claim read
  held,     \* the task whose heartbeat runs for the slot
  hb,       \* its heartbeat thread
  clock,    \* ticks since a pending write read the clock, or until the
            \* heartbeat's wait ends (negative: it is late)
  misses,   \* renewals that failed in a row
  giveups,  \* how many tasks were left by a crash or an exception
  grantee   \* history: the slot that claimed the task last

rows == <<status, owner, left, line, grantee>>
slots == <<pc, due, held, hb, clock, misses>>
vars == <<status, owner, left, line, pc, due, held, hb, clock, misses, giveups,
          grantee>>

Init ==
  /\ status = [t \in Tasks |-> "absent"]
  /\ owner = [t \in Tasks |-> NoOne]
  /\ left = [t \in Tasks |-> 0]
  /\ line = << >>
  /\ pc = [w \in Workers |-> "idle"]
  /\ due = [w \in Workers |-> {}]
  /\ held = [w \in Workers |-> NoOne]
  /\ hb = [w \in Workers |-> "off"]
  /\ clock = [w \in Workers |-> 0]
  /\ misses = [w \in Workers |-> 0]
  /\ giveups = 0
  /\ grantee = [t \in Tasks |-> NoOne]

\* enqueue_task, called by IngestionService.submit with next_run_at = now.
Enqueue(t) ==
  /\ status[t] = "absent"
  /\ status' = [status EXCEPT ![t] = "queued"]
  /\ line' = Append(line, t)
  /\ UNCHANGED <<owner, left, grantee, slots, giveups>>

-----------------------------------------------------------------------------
(* process_one. *)

\* The slot is back outside process_one, without a heartbeat thread.
Idle(w) ==
  /\ pc' = [pc EXCEPT ![w] = "idle"]
  /\ due' = [due EXCEPT ![w] = {}]
  /\ held' = [held EXCEPT ![w] = NoOne]
  /\ hb' = [hb EXCEPT ![w] = "off"]
  /\ clock' = [clock EXCEPT ![w] = 0]
  /\ misses' = [misses EXCEPT ![w] = 0]

\* datetime.now(UTC) is read before the claim's transaction gets the lock.
StartClaim(w) ==
  /\ pc[w] = "idle"
  /\ pc' = [pc EXCEPT ![w] = "claiming"]
  /\ due' = [due EXCEPT ![w] = {t \in Tasks : status[t] # "absent"}]
  /\ clock' = [clock EXCEPT ![w] = 0]
  /\ UNCHANGED <<rows, held, hb, misses, giveups>>

\* Seeded fault: a lease that ends now counts as expired.
ClaimableAtExpiry(w, t) ==
  /\ t \in due[w]
  /\ \/ status[t] = "queued"
     \/ status[t] = "running" /\ left[t] + clock[w] <= 0

\* Seeded fault: only queued rows are claimable.
ClaimableQueued(w, t) == t \in due[w] /\ status[t] = "queued"

\* The WHERE clause of claim_task: due, and queued or running with
\* lease_expires_at < now, for the now that the claim read.
Claimable(w, t) ==
  /\ t \in due[w]
  /\ \/ status[t] = "queued"
     \/ status[t] = "running" /\ left[t] + clock[w] < 0

\* ORDER BY priority DESC, next_run_at LIMIT 1.
FirstClaimable(w, t) ==
  \E i \in 1..Len(line) :
    /\ line[i] = t
    /\ Claimable(w, t)
    /\ \A j \in 1..(i - 1) : ~Claimable(w, line[j])

\* claim_task finds a row: one write transaction.  The heartbeat starts.
Claim(w, t) ==
  /\ pc[w] = "claiming"
  /\ FirstClaimable(w, t)
  /\ status' = [status EXCEPT ![t] = "running"]
  /\ owner' = [owner EXCEPT ![t] = WorkerId[w]]
  /\ left' = [left EXCEPT ![t] = LeaseSeconds - clock[w]]
  /\ grantee' = [grantee EXCEPT ![t] = w]
  /\ pc' = [pc EXCEPT ![w] = "processing"]
  /\ held' = [held EXCEPT ![w] = t]
  /\ hb' = [hb EXCEPT ![w] = "waiting"]
  /\ clock' = [clock EXCEPT ![w] = RenewSeconds]
  /\ due' = [due EXCEPT ![w] = {}]
  /\ UNCHANGED <<line, misses, giveups>>

\* claim_task finds nothing, or its transaction exhausts its BUSY retries.
ClaimNothing(w) ==
  /\ pc[w] = "claiming"
  /\ Idle(w)
  /\ UNCHANGED <<rows, giveups>>

\* _process_claimed_task ends and the heartbeat is told to stop.
Stop(w) ==
  /\ pc' = [pc EXCEPT ![w] = "stopping"]
  /\ UNCHANGED <<due, held, hb, clock, misses>>

\* mark_succeeded, or mark_failed, on the slot's task, whoever owns it now.
Finish(w) ==
  /\ pc[w] = "processing"
  /\ \E s \in {"succeeded",
               IF 0 < MaxRetries THEN "retry_scheduled" ELSE "failed"} :
       status' = [status EXCEPT ![held[w]] = s]
  /\ owner' = [owner EXCEPT ![held[w]] = NoOne]
  /\ left' = [left EXCEPT ![held[w]] = 0]
  /\ Stop(w)
  /\ UNCHANGED <<line, grantee, giveups>>

\* An exception escapes _process_claimed_task: the row keeps its lease.
EscapeTask(w) ==
  /\ pc[w] = "processing"
  /\ giveups < MaxGiveUps
  /\ giveups' = giveups + 1
  /\ Stop(w)
  /\ UNCHANGED rows

\* __exit__ has joined the heartbeat thread.
Return(w) ==
  /\ pc[w] = "stopping"
  /\ hb[w] = "waiting"
  /\ Idle(w)
  /\ UNCHANGED <<rows, giveups>>

\* The process dies with its heartbeat thread.
Crash(w) ==
  /\ pc[w] # "idle"
  /\ giveups < MaxGiveUps
  /\ giveups' = giveups + 1
  /\ Idle(w)
  /\ UNCHANGED rows

-----------------------------------------------------------------------------
(* LeaseHeartbeat._loop. *)

\* The wait ends; lease_until is computed before the write session opens.
Wake(w) ==
  /\ pc[w] = "processing"
  /\ hb[w] = "waiting"
  /\ clock[w] <= 0
  /\ hb' = [hb EXCEPT ![w] = "writing"]
  /\ clock' = [clock EXCEPT ![w] = 0]
  /\ UNCHANGED <<rows, pc, due, held, misses, giveups>>

\* The loop goes back to its wait.
WaitAgain(w) ==
  /\ hb' = [hb EXCEPT ![w] = "waiting"]
  /\ clock' = [clock EXCEPT ![w] = RenewSeconds]
  /\ UNCHANGED <<status, owner, line, grantee, pc, due, held, giveups>>

\* Seeded fault: refresh_lease never writes.
RenewNothing(w) ==
  /\ hb[w] = "writing"
  /\ misses' = [misses EXCEPT ![w] = 0]
  /\ UNCHANGED left
  /\ WaitAgain(w)

\* refresh_lease: the row's owner only.
Renew(w) ==
  /\ hb[w] = "writing"
  /\ left' = IF owner[held[w]] = WorkerId[w]
             THEN [left EXCEPT ![held[w]] = LeaseSeconds - clock[w]]
             ELSE left
  /\ misses' = [misses EXCEPT ![w] = 0]
  /\ WaitAgain(w)

\* The write fails; the loop logs it and waits for the next turn.
RenewFails(w) ==
  /\ hb[w] = "writing"
  /\ misses[w] < MaxMisses
  /\ misses' = [misses EXCEPT ![w] = @ + 1]
  /\ UNCHANGED left
  /\ WaitAgain(w)

-----------------------------------------------------------------------------
(* Time. *)

\* A slot whose clock runs upwards, from the read of a pending write.
Writing(w) == pc[w] = "claiming" \/ hb[w] = "writing"
\* A slot whose heartbeat counts its wait down.
Waiting(w) == pc[w] = "processing" /\ hb[w] = "waiting"

\* No write or wake-up is overdue.  left is only compared with ages of at
\* most WriteDelay, so it stops at -(WriteDelay + 1).
Tick ==
  /\ \A w \in Workers : /\ Writing(w) => clock[w] < WriteDelay
                        /\ Waiting(w) => clock[w] > -WakeDelay
  /\ clock' = [w \in Workers |->
                 IF Writing(w) THEN clock[w] + 1
                 ELSE IF Waiting(w) THEN clock[w] - 1 ELSE clock[w]]
  /\ left' = [t \in Tasks |->
                IF status[t] = "running" /\ left[t] >= -WriteDelay
                THEN left[t] - 1 ELSE left[t]]
  /\ UNCHANGED <<status, owner, line, grantee, pc, due, held, hb, misses,
                 giveups>>

SlotStep(w) ==
  \/ StartClaim(w)
  \/ \E t \in Tasks : Claim(w, t)
  \/ ClaimNothing(w)
  \/ Finish(w)
  \/ EscapeTask(w)
  \/ Return(w)
  \/ Crash(w)

HeartbeatStep(w) ==
  \/ Wake(w)
  \/ Renew(w)
  \/ RenewFails(w)

Next ==
  \/ \E t \in Tasks : Enqueue(t)
  \/ \E w \in Workers : SlotStep(w) \/ HeartbeatStep(w)
  \/ Tick

Spec == Init /\ [][Next]_vars

\* Clocks advance, slots poll for ever, a processing pass ends, and the
\* heartbeat threads run.  A claim is not
\* refused by BUSY for ever, and no slot has to crash.
Fairness ==
  /\ WF_vars(Tick)
  /\ \A w \in Workers :
       /\ WF_vars(StartClaim(w))
       /\ SF_vars(\E t \in Tasks : Claim(w, t))
       /\ WF_vars(ClaimNothing(w))
       /\ WF_vars(Finish(w) \/ EscapeTask(w))
       /\ WF_vars(Return(w))
       /\ WF_vars(HeartbeatStep(w))

FairSpec == Spec /\ Fairness

-----------------------------------------------------------------------------
(* Properties. *)

Settled == {"succeeded", "failed", "retry_scheduled"}

\* Every variable holds a value of its type; clocks stay within the delays.
TypeOK ==
  /\ status \in [Tasks -> {"absent", "queued", "running"} \cup Settled]
  /\ owner \in [Tasks -> {NoOne} \cup {WorkerId[w] : w \in Workers}]
  /\ left \in [Tasks -> -(WriteDelay + 1)..LeaseSeconds]
  /\ line \in Seq(Tasks)
  /\ pc \in [Workers -> {"idle", "claiming", "processing", "stopping"}]
  /\ due \in [Workers -> SUBSET Tasks]
  /\ held \in [Workers -> Tasks \cup {NoOne}]
  /\ hb \in [Workers -> {"off", "waiting", "writing"}]
  /\ clock \in [Workers -> Int]
  /\ misses \in [Workers -> 0..MaxMisses]
  /\ giveups \in 0..MaxGiveUps
  /\ grantee \in [Tasks -> Workers \cup {NoOne}]

Processing(w, t) == pc[w] = "processing" /\ held[w] = t

\* The longest a renewal can take from one write to the next.
Cycle == RenewSeconds + WakeDelay + WriteDelay

\* Heartbeats are frequent enough for the lease: MaxMisses lost renewals and a
\* successful one fit in what a write that was WriteDelay late leaves of it.
Timely == (MaxMisses + 1) * Cycle + WriteDelay <= LeaseSeconds

\* A slot that processes a task is the last one that claimed it, and its lease
\* has not passed: no other slot can claim the task under it.
HeldLeaseIsLive ==
  Timely =>
    \A w \in Workers, t \in Tasks :
      Processing(w, t) =>
        status[t] = "running" /\ grantee[t] = w /\ left[t] >= 0

\* The queue implements exclusive grants.
Lease == INSTANCE TaskLease WITH
  row  <- [t \in Tasks |-> IF status[t] = "absent" THEN "absent"
                           ELSE IF status[t] \in Settled THEN "settled"
                           ELSE "open"],
  busy <- [t \in Tasks |-> {w \in Workers : Processing(w, t)}]

\* Under timely heartbeats every behaviour of the queue is one of TaskLease:
\* a running task is claimed again only after its slot gave it up or died, and
\* a settled task never runs again.
ImplementsTaskLease == Lease!Spec

\* A task whose slot died or let an exception escape is not lost: some slot
\* claims it again.
AbandonedTaskIsReclaimed ==
  \A t \in Tasks :
    (status[t] = "running" /\ \A w \in Workers : ~Processing(w, t))
      ~> (\E w \in Workers : Processing(w, t))

\* A slot that has lost its claim cannot extend the claim of another, as the
\* heartbeat's comment says.  The code does not meet this: see the README.
OnlyGranteeExtends ==
  [][\A w \in Workers : Renew(w) /\ left' # left => grantee[held[w]] = w]_vars
=============================================================================
