CONSTANTS
    Agents = {1, 2, 3}
    Parent <- TwoAAs
    TimeOuts = FALSE
    UserPhase = TRUE
    MaxRuns = 2
    MaxExp = 2
    NoCluster = FALSE
    Tuning = TRUE
    Rts = FALSE
    HasDelay = TRUE
    Autoinst = FALSE
    MaxReqs = 2
    MaxAnalysisRuns = 1
SPECIFICATION Spec
INVARIANTS
    TypeOK
    NothingLostOrDoubled
    RoundOver
    ExperimentsOnCurrentRun
PROPERTIES
    RestartOnlyWhenDown
    RestartOnlyAtEnd
    ImplementsRounds
