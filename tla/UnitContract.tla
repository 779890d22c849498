---------------------------- MODULE UnitContract ----------------------------
(***************************************************************************)
(* What executing an analysis unit promises, whoever executes it: a unit   *)
(* that succeeded or was skipped is not executed again, its row and its    *)
(* record become final in the same step in which the attempt gets its      *)
(* outcome, and an attempt without a terminal write is reported as failed  *)
(* or not at all.  Executions of a unit exclude each other as long as the  *)
(* lease does.                                                             *)
(***************************************************************************)
CONSTANT Executors

VARIABLES
  status,     \* the unit row's; "none" while there is no row
  published,  \* whether the window has a record
  attempt,    \* each executor's attempt: "none", "running" or its outcome
  exclusive,  \* the lease admits one executor at a time
  trusted     \* no recorder raises after the terminal write

vars == <<status, published, attempt, exclusive, trusted>>

Final == {"succeeded", "skipped"}
Outcome == Final \cup {"failed"}

Init ==
  /\ status \in {"none", "pending"}
  /\ published = FALSE
  /\ attempt = [x \in Executors |-> "none"]
  /\ exclusive \in BOOLEAN
  /\ trusted \in BOOLEAN

Turn(x, a) ==
  /\ attempt' = [attempt EXCEPT ![x] = a]
  /\ UNCHANGED <<exclusive, trusted>>

Begin(x) ==
  /\ attempt[x] = "none"
  /\ status \notin Final
  /\ exclusive => \A y \in Executors : attempt[y] # "running"
  /\ status' = "running"
  /\ Turn(x, "running")
  /\ UNCHANGED published

\* The unit is final already: its status is the outcome.
Decline(x) ==
  /\ attempt[x] = "none"
  /\ status \in Final
  /\ Turn(x, status)
  /\ UNCHANGED <<status, published>>

End(x, o) ==
  /\ attempt[x] = "running"
  /\ status' = o
  /\ published' = (published \/ o = "succeeded")
  /\ Turn(x, o)

\* No write of the attempt could be stored.
Lose(x) ==
  /\ attempt[x] \in {"none", "running"}
  /\ Turn(x, "failed")
  /\ UNCHANGED <<status, published>>

\* The executor died, or handed its outcomes over.
Forget(x) ==
  /\ attempt[x] # "none"
  /\ Turn(x, "none")
  /\ UNCHANGED <<status, published>>

\* An exception after the terminal write makes the attempt write again.
Reopen(x) ==
  /\ ~trusted
  /\ attempt[x] \in Outcome
  /\ exclusive => \A y \in Executors : attempt[y] # "running"
  /\ Turn(x, "running")
  /\ UNCHANGED <<status, published>>

\* Reconciliation or the sweep fails what is still running.
Recover ==
  /\ status = "running"
  /\ status' = "failed"
  /\ UNCHANGED <<published, attempt, exclusive, trusted>>

Next ==
  \/ Recover
  \/ \E x \in Executors :
       \/ Begin(x) \/ Decline(x) \/ Lose(x) \/ Forget(x) \/ Reopen(x)
       \/ \E o \in Outcome : End(x, o)

Spec == Init /\ [][Next]_vars
=============================================================================
