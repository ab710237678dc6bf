SPECIFICATION ChecksFairSpec
CONSTANTS
    Replicas = {m1, m2}
    Shards = {s1, s2}
    FaultLimit = 2
INVARIANTS
    CompletedIsTrue
    FewCheckRuns
PROPERTY
    VerdictArrives
CHECK_DEADLOCK FALSE
