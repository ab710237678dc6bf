---------------------------- MODULE MCRunIntake ----------------------------
(* RunIntake for TLC: requests, keys, commits and ids are interchangeable. *)
EXTENDS RunIntake, TLC

Symmetry ==
    Permutations(Calls) \cup Permutations(Commits) \cup Permutations(Runs)
=============================================================================
