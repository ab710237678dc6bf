SPECIFICATION FairSpec
CONSTANTS
    Subs = {s1, s2}
    NoSub = NoSub
    Outcomes = {"succeeded", "cancelled"}
    MaxVersion = 2
INVARIANTS
    FanoutIsServed
    EndMeansTerminal
PROPERTIES
    ChangesArrive
    EndCompletes
CHECK_DEADLOCK FALSE
