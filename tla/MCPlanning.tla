----------------------------- MODULE MCPlanning -----------------------------
(* Planning for TLC: hashes that agree and disagree with the order of the  *)
(* input, no hash collisions, one to three shards by the target, and a     *)
(* maximum below the minimum; a repository with a full history, one with a *)
(* new test, and one where a test has not run for 30 days.                 *)
EXTENDS Planning

MCTests == 1 .. 5

MCTagLists == {<< >>, <<"needs-db", "exclusive-port">>}

MCOrders == {[t \in MCTests |-> t]}

MCLanes == {{}, {2, 4}}

MCHashes == {[t \in MCTests |-> t], [t \in MCTests |-> (5 * t) % 6]}

MCConstraints ==
    {[target |-> 4, min |-> 0, max |-> 3], [target |-> 0, min |-> 2, max |-> 1]}

MCHistories ==
    LET p50 == [t \in MCTests |-> t % 4] IN
    {[rows |-> MCTests, attempts |-> [t \in MCTests |-> 3], p50 |-> p50, gone |-> FALSE],
     [rows |-> MCTests \ {1}, attempts |-> [t \in MCTests |-> t], p50 |-> p50, gone |-> FALSE],
     [rows |-> MCTests, attempts |-> [t \in MCTests |-> t - 1], p50 |-> p50, gone |-> FALSE]}
=============================================================================
