SPECIFICATION Spec
CONSTANTS
    NumProcs = 1
    PapiSet <- Sets
    NoSet <- None
    Cases <- CutShort
    MaxRuns = 3
INVARIANTS
    EvaluatedMeansMeasured
CHECK_DEADLOCK FALSE
