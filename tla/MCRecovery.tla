---------------------------- MODULE MCRecovery ----------------------------
(* The instance of Recovery that is checked. *)
EXTENDS Recovery
=============================================================================
