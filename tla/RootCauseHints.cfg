SPECIFICATION FairHintsSpec
CONSTANTS
    Clusters = {c1, c2, c3}
    Refused = {c3}
    Hints = {"first", "second"}
    NoHint = NoHint
    Cron = cron
    Operators = {op}
    MaxClusters = 2
    BatchSize = 1
    MaxOccurrences = 2
    LossLimit = 1
PROPERTIES
    HintIsKept
    HintsArrive
CHECK_DEADLOCK FALSE
