-------------------------- MODULE MCSearchContexts --------------------------
(***************************************************************************)
(* SearchContexts for TLC.  Request threads are interchangeable, and so    *)
(* are records.                                                            *)
(***************************************************************************)
EXTENDS SearchContexts, TLC

Symmetry == Permutations(Requests) \cup Permutations(Records)
=============================================================================
