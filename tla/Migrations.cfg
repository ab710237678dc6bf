SPECIFICATION FilesSpec
CONSTANTS
    Procs = {p1, p2}
    MaxVersion = 2
    Statements = 2
    StartLimit = 4
    FailureLimit = 2
    Texts <- MCTexts
INVARIANTS
    AppliedOnce
    UpMeansUp
    SplitAtTopLevel
CHECK_DEADLOCK FALSE
