SPECIFICATION Spec
CONSTANTS
    Workers = {w1, w2}
    Managers = {m1}
    NoShard = NoShard
    NumTests = 3
    NumShards = 2
    Assignment <- LongestAlone
    MaxShards = 3
    UseNATS = TRUE
    Spot = TRUE
    Crashes = TRUE
    DbErrors = TRUE
    FaultLimit = 2
SYMMETRY Symmetry
INVARIANTS
    EveryTestOnce
    OneThreadPerShard
CHECK_DEADLOCK FALSE
