SPECIFICATION FairSpec
CONSTANTS
    Tests = {t1}
    NoTest = NoTest
    AutoEnabled = {t1}
    Sweeps = {s1, s2}
    Tokens = {k1}
    MaxClicks = 2
    Nobody = Nobody
    Outcomes = {"passed", "failed"}
    MinSamples = 2
    Window = 1
    SLA = 1
    ProposalGap = 1
    TokenTTL = 1
    MaxNow = 1
    FaultLimit = 1
INVARIANTS
    OneIssuePerTest
    LinkWorksOnce
    QuarantinedIsTracked
PROPERTY
    FlakyIsQuarantined
CHECK_DEADLOCK FALSE
