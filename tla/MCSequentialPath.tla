-------------------------- MODULE MCSequentialPath --------------------------
(***************************************************************************)
(* SequentialPath for TLC.  The windows of one scale are interchangeable.  *)
(***************************************************************************)
EXTENDS SequentialPath, TLC

Symmetry == Permutations(DefaultUnits) \cup Permutations(HighFreqUnits)
=============================================================================
