SPECIFICATION PlanningSpec
CONSTANTS
    Tests <- MCTests
    Durations = {0, 2, 3}
    TagLists <- MCTagLists
    Exclusive = {"exclusive-port"}
    NoTag = NoTag
    NoBin = NoBin
    NoPlan = NoPlan
    Orders <- MCOrders
    Lanes <- MCLanes
    Hashes <- MCHashes
    ConstraintSets <- MCConstraints
    Floor = 1
    DefaultTarget = 5
    DefaultMax = 3
    Histories <- MCHistories
    Cold = 2
    MinAttempts = 3
INVARIANTS
    EveryTestPlannedOnce
    NoEmptyShard
    GrahamBound
    ReplayAgrees
PROPERTY
    PlanArrives
CHECK_DEADLOCK FALSE
