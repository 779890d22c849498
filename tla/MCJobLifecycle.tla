--------------------------- MODULE MCJobLifecycle ---------------------------
(***************************************************************************)
(* JobLifecycle for TLC.  Windows of one scale are interchangeable, and so *)
(* are worker slots; neither symmetry is used where liveness is checked.   *)
(***************************************************************************)
EXTENDS JobLifecycle, TLC

Symmetry == Permutations(Workers) \cup Permutations(DefaultUnits)
=============================================================================
