SPECIFICATION FairSpec
CONSTANTS
    NumProcs = 3
    PapiSet <- Sets
    NoSet <- None
    Cases <- ManyCases
    MaxRuns = 3
INVARIANTS
    TypeOK
    NoCommandWhileRunning
    EvaluatedMeansMeasured
PROPERTIES
    OwnAnswers
    SearchEnds
CHECK_DEADLOCK FALSE
