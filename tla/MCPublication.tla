---------------------------- MODULE MCPublication ---------------------------
(***************************************************************************)
(* Publication for TLC.  Publishers, jobs, keys and records are each       *)
(* interchangeable.                                                        *)
(***************************************************************************)
EXTENDS Publication, TLC

Symmetry ==
  Permutations(Publishers) \cup Permutations(Jobs) \cup Permutations(Keys)
    \cup Permutations(Records)
=============================================================================
