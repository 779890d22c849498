----------------------------- MODULE MCTaskQueue ----------------------------
(***************************************************************************)
(* TaskQueue for TLC: slots of one process share its worker_id; slots of   *)
(* separately configured processes have one each.                          *)
(***************************************************************************)
EXTENDS TaskQueue

SharedWorkerId == [w \in Workers |-> "local-worker-1"]
=============================================================================
