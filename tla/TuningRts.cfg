CONSTANTS
    Agents = {1}
    Parent <- OneAA
    TimeOuts = FALSE
    UserPhase = FALSE
    MaxRuns = 3
    MaxExp = 2
    NoCluster = FALSE
    Tuning = TRUE
    Rts = TRUE
    HasDelay = FALSE
    Autoinst = TRUE
    MaxReqs = 3
    MaxAnalysisRuns = 1
SPECIFICATION FairSpec
PROPERTIES
    CalltreeArrived
    OperationsEnd
    AllQuit
