------------------------------ MODULE Backend -------------------------------
(***************************************************************************)
(* The database a deployment is configured with.  The modules about        *)
(* requests and administration share it: the two adapters differ in what   *)
(* blocks what and in what a unique key compares.                          *)
(***************************************************************************)

VARIABLE backend  \* database.backend, fixed for the life of a deployment

Backends == {"sqlite", "postgres"}
=============================================================================
