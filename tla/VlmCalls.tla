------------------------------- MODULE VlmCalls -----------------------------
(***************************************************************************)
(* The VLM calls of concurrently running units: the retry loop             *)
(* execute_vlm_with_retry, one per unit thread, with every attempt made    *)
(* through the one shared VlmScheduler, which caps the calls in flight and *)
(* spaces their starts.                                                    *)
(*                                                                         *)
(* Time is discrete; gap and callGap count the ticks since the last stamp  *)
(* and the last call, up to MinInterval, beyond which nothing compares     *)
(* them.                                                                   *)
(***************************************************************************)
EXTENDS Integers, FiniteSets

CONSTANTS
  Threads,           \* the unit threads that call the VLM
  MaxConcurrent,     \* vlm.max_concurrent_requests
  MinInterval,       \* vlm.min_request_interval_ms, in ticks
  MaxAttempts,       \* RetryPolicy.max_attempts
  SchemaRegenerate   \* RetryPolicy.schema_regenerate_max_attempts

ASSUME VlmAssumption ==
  /\ IsFiniteSet(Threads)
  /\ MaxConcurrent \in Nat \ {0}
  /\ MinInterval \in Nat
  /\ MaxAttempts \in Nat \ {0}
  /\ SchemaRegenerate \in Nat

\* Who holds the interval lock when nobody does.
Nobody == "nobody"

ASSUME NobodyAssumption == Nobody \notin Threads

VARIABLES
  pc,        \* where each thread is in the loop and in VlmScheduler.run
  permits,   \* the semaphore's counter
  lock,      \* the holder of _interval_lock
  gap,       \* ticks since _last_start_ns
  callGap,   \* ticks since unit_fn was last entered
  nap,       \* what is left of a thread's time.sleep under the lock
  attempt,   \* the loop variable
  provider,  \* provider_failures
  schema     \* schema_failures

vars == <<pc, permits, lock, gap, callGap, nap, attempt, provider, schema>>
scheduler == <<permits, lock, gap, callGap, nap>>
retries == <<attempt, provider, schema>>

\* _last_start_ns starts at 0, long before any monotonic clock reading.
Init ==
  /\ pc = [t \in Threads |-> "next_attempt"]
  /\ permits = MaxConcurrent
  /\ lock = Nobody
  /\ gap = MinInterval
  /\ callGap = MinInterval
  /\ nap = [t \in Threads |-> 0]
  /\ attempt = [t \in Threads |-> 0]
  /\ provider = [t \in Threads |-> 0]
  /\ schema = [t \in Threads |-> 0]

At(t, place) == pc[t] = place
GoTo(t, place) == pc' = [pc EXCEPT ![t] = place]

-----------------------------------------------------------------------------
(* VlmScheduler.run. *)

\* Without an interval the call is made at once.
AfterPermit == IF MinInterval > 0 THEN "admitted" ELSE "call"

\* with self._semaphore
Acquire(t) ==
  /\ At(t, "wait_permit")
  /\ permits > 0
  /\ permits' = permits - 1
  /\ GoTo(t, AfterPermit)
  /\ UNCHANGED <<lock, gap, callGap, nap, retries>>

\* What a thread does with the interval: nothing to wait for, or a sleep.
CheckGap(t) ==
  /\ IF gap >= MinInterval
     THEN GoTo(t, "stamp") /\ UNCHANGED nap
     ELSE GoTo(t, "sleep") /\ nap' = [nap EXCEPT ![t] = MinInterval - gap]
  /\ UNCHANGED <<permits, gap, callGap, retries>>

\* Seeded fault: the interval is checked without taking the lock.
LockIntervalNot(t) ==
  /\ At(t, "admitted")
  /\ UNCHANGED lock
  /\ CheckGap(t)

\* with self._interval_lock; the lock is held across the sleep.
LockInterval(t) ==
  /\ At(t, "admitted")
  /\ lock = Nobody
  /\ lock' = t
  /\ CheckGap(t)

WakeUp(t) ==
  /\ At(t, "sleep")
  /\ nap[t] = 0
  /\ GoTo(t, "stamp")
  /\ UNCHANGED <<scheduler, retries>>

\* _last_start_ns = now, and the lock is released.
Stamp(t) ==
  /\ At(t, "stamp")
  /\ gap' = 0
  /\ lock' = Nobody
  /\ GoTo(t, "call")
  /\ UNCHANGED <<permits, callGap, nap, retries>>

\* unit_fn() is entered, outside the interval lock.
StartCall(t) ==
  /\ At(t, "call")
  /\ callGap' = 0
  /\ GoTo(t, "in_flight")
  /\ UNCHANGED <<permits, lock, gap, nap, retries>>

-----------------------------------------------------------------------------
(* execute_vlm_with_retry. *)

\* range(1, max_total_attempts + 1): the next attempt, or the end of the loop.
NextAttempt(t) ==
  /\ At(t, "next_attempt")
  /\ IF attempt[t] < MaxAttempts + SchemaRegenerate
     THEN /\ attempt' = [attempt EXCEPT ![t] = @ + 1]
          /\ GoTo(t, "wait_permit")
     ELSE GoTo(t, "fell_through") /\ UNCHANGED attempt
  /\ UNCHANGED <<scheduler, provider, schema>>

\* The output is returned; leaving the with statement releases the permit.
CallSucceeds(t) ==
  /\ At(t, "in_flight")
  /\ permits' = permits + 1
  /\ GoTo(t, "output")
  /\ UNCHANGED <<lock, gap, callGap, nap, retries>>

\* provider_budget or schema_budget, after the failure was counted.
WillRetry(kind, p, s) ==
  \/ kind = "provider" /\ p < MaxAttempts
  \/ kind = "schema" /\ s <= SchemaRegenerate

\* Counting a failure of the kind and deciding on it.
Classify(t, kind) ==
  LET p == IF kind = "provider" THEN provider[t] + 1 ELSE provider[t]
      s == IF kind = "schema" THEN schema[t] + 1 ELSE schema[t]
  IN /\ provider' = [provider EXCEPT ![t] = p]
     /\ schema' = [schema EXCEPT ![t] = s]
     /\ GoTo(t, IF WillRetry(kind, p, s) THEN "next_attempt" ELSE "error")
     /\ UNCHANGED <<lock, gap, callGap, nap, attempt>>

\* Seeded fault: a failed call keeps its permit.
CallFailsLeaking(t, kind) ==
  /\ At(t, "in_flight")
  /\ UNCHANGED permits
  /\ Classify(t, kind)

\* The call raises a provider error, a schema error, or anything else; the
\* backoff before the next attempt holds no permit.
CallFails(t, kind) ==
  /\ At(t, "in_flight")
  /\ permits' = permits + 1
  /\ Classify(t, kind)

ErrorKinds == {"provider", "schema", "other"}

-----------------------------------------------------------------------------
Tick ==
  /\ gap' = IF gap < MinInterval THEN gap + 1 ELSE gap
  /\ callGap' = IF callGap < MinInterval THEN callGap + 1 ELSE callGap
  /\ nap' = [t \in Threads |-> IF nap[t] > 0 THEN nap[t] - 1 ELSE 0]
  /\ UNCHANGED <<pc, permits, lock, retries>>

Step(t) ==
  \/ NextAttempt(t)
  \/ Acquire(t)
  \/ LockInterval(t)
  \/ WakeUp(t)
  \/ Stamp(t)
  \/ StartCall(t)
  \/ CallSucceeds(t)
  \/ \E kind \in ErrorKinds : CallFails(t, kind)

Next == Tick \/ \E t \in Threads : Step(t)

Spec == Init /\ [][Next]_vars

\* Threads are scheduled, calls end (they have a timeout), and time passes.
FairSpec == Spec /\ WF_vars(Tick) /\ \A t \in Threads : WF_vars(Step(t))

-----------------------------------------------------------------------------
(* Properties. *)

Places ==
  {"next_attempt", "wait_permit", "admitted", "sleep", "stamp", "call",
   "in_flight", "output", "error", "fell_through"}

\* Every variable holds a value of its type.
TypeOK ==
  /\ pc \in [Threads -> Places]
  /\ permits \in 0..MaxConcurrent
  /\ lock \in Threads \cup {Nobody}
  /\ gap \in 0..MinInterval
  /\ callGap \in 0..MinInterval
  /\ nap \in [Threads -> 0..MinInterval]
  /\ attempt \in [Threads -> 0..(MaxAttempts + SchemaRegenerate)]
  /\ provider \in [Threads -> 0..MaxAttempts]
  /\ schema \in [Threads -> 0..(SchemaRegenerate + 1)]

\* The threads between entering and leaving the semaphore's with statement.
Admitted ==
  {t \in Threads : pc[t] \in {"admitted", "sleep", "stamp", "call", "in_flight"}}

\* The permits out and the permits left always add up: failures, retries and
\* waits neither leak a permit nor mint one, so the calls in flight never
\* exceed vlm.max_concurrent_requests however many jobs and units run.
PermitsAddUp == permits + Cardinality(Admitted) = MaxConcurrent

\* When a thread is about to stamp its start, the configured interval has
\* passed since the previous stamp, however the sleepers were interleaved.
StampsAreSpaced == \A t \in Threads : At(t, "stamp") => gap >= MinInterval

\* The retry loop always returns from inside: mixed provider and schema
\* failures never use up the range before a budget says stop.
NeverFallsThrough == \A t \in Threads : ~At(t, "fell_through")

\* Every call comes to an end with an output or an error.
CallsEnd == <>(\A t \in Threads : pc[t] \in {"output", "error"})

\* There is a minimum gap between successive call starts, as the scheduler's
\* comment says.  The code does not meet this: see the README.
CallsAreSpaced ==
  [][\A t \in Threads : StartCall(t) => callGap >= MinInterval]_vars
=============================================================================
