------------------------------ MODULE TaskLease -----------------------------
(***************************************************************************)
(* What the task queue promises its workers: a submitted task is granted   *)
(* to one worker at a time; it is granted again only after that worker     *)
(* gave it up, by an exception or by dying; and a settled task is never    *)
(* granted again.                                                          *)
(***************************************************************************)
CONSTANTS Workers, Tasks

VARIABLES
  row,   \* the task's progress: absent, open or settled
  busy   \* the workers processing the task

vars == <<row, busy>>

Init ==
  /\ row = [t \in Tasks |-> "absent"]
  /\ busy = [t \in Tasks |-> {}]

Submit(t) ==
  /\ row[t] = "absent"
  /\ row' = [row EXCEPT ![t] = "open"]
  /\ UNCHANGED busy

Grant(w, t) ==
  /\ row[t] = "open"
  /\ busy[t] = {}
  /\ \A s \in Tasks : w \notin busy[s]
  /\ busy' = [busy EXCEPT ![t] = {w}]
  /\ UNCHANGED row

Settle(w, t) ==
  /\ row[t] = "open"
  /\ busy[t] = {w}
  /\ row' = [row EXCEPT ![t] = "settled"]
  /\ busy' = [busy EXCEPT ![t] = {}]

GiveUp(w, t) ==
  /\ busy[t] = {w}
  /\ busy' = [busy EXCEPT ![t] = {}]
  /\ UNCHANGED row

Next ==
  \E t \in Tasks :
    \/ Submit(t)
    \/ \E w \in Workers : Grant(w, t) \/ Settle(w, t) \/ GiveUp(w, t)

Spec == Init /\ [][Next]_vars
=============================================================================
