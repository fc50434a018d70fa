CONSTANTS
    Agents = {1, 2, 3}
    Parent <- TwoAAs
    TimeOuts = TRUE
    UserPhase = TRUE
    MaxRuns = 3
    MaxExp = 2
    NoCluster = TRUE
    Tuning = FALSE
    Rts = FALSE
    HasDelay = TRUE
    Autoinst = TRUE
    MaxReqs = 1
    MaxAnalysisRuns = 2
SPECIFICATION FairSpec
INVARIANTS
    NothingLostOrDoubled
PROPERTIES
    SearchEndsFinished
    OperationsEnd
CHECK_DEADLOCK FALSE
