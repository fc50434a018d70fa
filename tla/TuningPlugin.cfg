CONSTANTS
    ApplUninstrumented = FALSE
    Modes = {TRUE}
    Analysis = "first"
    NumProcs = 2
    MaxScenarios = 5
    MaxRestarts = 3
SPECIFICATION FairSpec
INVARIANTS
    EveryScenarioMeasured
    ResultsUnderOwnStep
    NoInvalidEvent
PROPERTIES
    TuningEnds
