----------------------------- MODULE MCVlmCalls -----------------------------
(***************************************************************************)
(* VlmCalls for TLC.  Threads are interchangeable.                         *)
(***************************************************************************)
EXTENDS VlmCalls, TLC

Symmetry == Permutations(Threads)
=============================================================================
