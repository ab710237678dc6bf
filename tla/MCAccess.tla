------------------------------ MODULE MCAccess ------------------------------
(* Constants of Access for TLC. *)
EXTENDS Access, TLC

Symmetry == Permutations(Requests) \cup Permutations(Browsers)
            \cup Permutations(Flows) \cup Permutations(Calls)
=============================================================================
