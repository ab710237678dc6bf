SPECIFICATION FairSpec
CONSTANTS
    Workers = {w1}
    Managers = {m1, m2}
    NoShard = NoShard
    NumTests = 3
    NumShards = 2
    Assignment <- LongestAlone
    MaxShards = 4
    UseNATS = FALSE
    Spot = TRUE
    Crashes = TRUE
    DbErrors = FALSE
    FaultLimit = 3
INVARIANT
    ReplayedOncePerReplica
PROPERTY
    PreemptedIsReplayed
CHECK_DEADLOCK FALSE
