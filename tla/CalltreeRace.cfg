CONSTANTS
    Agents = {1, 2, 3}
    Parent <- TwoAAs
    TimeOuts = FALSE
    UserPhase = TRUE
    MaxRuns = 1
    MaxExp = 1
    NoCluster = FALSE
    Tuning = TRUE
    Rts = TRUE
    HasDelay = FALSE
    Autoinst = FALSE
    MaxReqs = 2
    MaxAnalysisRuns = 1
SPECIFICATION Spec
PROPERTIES
    ExecutedMeansFinished
