SPECIFICATION FairSpec
CONSTANTS
    Runs = {r1}
    Managers = {m1, m2}
    Nobody = Nobody
    MaxShards = 1
    MaxRows = 3
    BatchLimit = 1
    SweepLimit = 1
    UseNATS = TRUE
    Finalizer = TRUE
    OldRuns = TRUE
    FaultLimit = 2
    NoticeLimit = 1
INVARIANTS
    ActiveIsPlanned
    RowsAreDense
    FailureIsNotOverlooked
PROPERTIES
    FollowsStateMachine
    PendingIsResolved
    BudgetIsEnforced
CHECK_DEADLOCK FALSE
