--------------------------- MODULE MCUnitExecution --------------------------
(***************************************************************************)
(* UnitExecution for TLC.                                                  *)
(***************************************************************************)
EXTENDS UnitExecution
=============================================================================
