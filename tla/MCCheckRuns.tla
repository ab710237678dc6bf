---------------------------- MODULE MCCheckRuns ----------------------------
(* Constants of CheckRuns for TLC. *)
EXTENDS CheckRuns
=============================================================================
