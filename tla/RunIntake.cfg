SPECIFICATION Spec
CONSTANTS
    Calls = {q1, q2}
    Keys = {k1}
    NoKey = NoKey
    Commits = {c1, c2}
    NoCommit = NoCommit
    Runs = {r1, r2, r3}
    NoRun = NoRun
    FaultLimit = 2
SYMMETRY Symmetry
INVARIANTS
    SameKeySameRun
    NoSpuriousError
CHECK_DEADLOCK FALSE
