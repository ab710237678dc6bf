SPECIFICATION Spec
CONSTANTS
    Requests = {q1, q2}
    CacheTTL = 2
    MaxFlight = 1
    MaxTime = 4
    Browsers = {b1, b2}
    Flows = {f1, f2}
    Calls = {c1, c2}
    Kids = 3
    FaultLimit = 1
SYMMETRY Symmetry
INVARIANTS
    GrantIsJustified
    SessionOfItsLogin
    RotationIsTransparent
CHECK_DEADLOCK FALSE
