CONSTANTS
    ApplUninstrumented = TRUE
    Modes = {TRUE, FALSE}
    Analysis = "always"
    NumProcs = 2
    MaxScenarios = 4
    MaxRestarts = 2
SPECIFICATION Spec
INVARIANTS
    TypeOK
    EachInOnePool
    ReadyForExperiment
