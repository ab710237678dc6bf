--------------------------- MODULE MCRunLifecycle ---------------------------
(* RunLifecycle for TLC: the runs and the replicas are interchangeable.    *)
EXTENDS RunLifecycle, TLC

Symmetry == Permutations(Runs) \cup Permutations(Managers)
=============================================================================
