-------------------------- MODULE MCShardExecution --------------------------
(* ShardExecution for TLC.  The assignment of the scheduler puts the       *)
(* longest test alone, as LPT does: with three tests and two shards it     *)
(* differs from the round robin, which gives {0, 2} and {1}.               *)
EXTENDS ShardExecution, TLC

LongestAlone ==
    [i \in Planned |->
        {t \in Tests : IF t = 0 THEN i = 0
                        ELSE (t - 1) % (NumShards - 1) = i - 1}]

Symmetry == Permutations(Workers) \cup Permutations(Managers)
=============================================================================
