SPECIFICATION Spec
CONSTANTS
    Execs = {1, 2}
    t1 = t1
    t2 = t2
    Traces = {t1, t2}
    NoTrace = NoTrace
    NoCluster = NoCluster
    Requests <- MCRequests
    Reports <- MCReports
    History <- MCHistory
    Flags <- MCFlags
    Passes = {p1, p2}
    PageSize = 1
    TailLines = 1
    MaxDeliveries = 2
    FaultLimit = 1
SYMMETRY Symmetry
INVARIANTS
    LinkIsOfItsTrace
    CompletePassLinks
    CountsDeliveries
PROPERTY
    LinkIsFinal
CHECK_DEADLOCK FALSE
