---------------------------- MODULE MCQuarantine ----------------------------
(* Constants of Quarantine for TLC. *)
EXTENDS Quarantine
=============================================================================
