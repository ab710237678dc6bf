-------------------------- MODULE MCRootCauseHints --------------------------
(* Constants of RootCauseHints for TLC. *)
EXTENDS RootCauseHints
=============================================================================
