SPECIFICATION FairSpec
CONSTANTS
    NodeOf <- Nodes
    Cases <- ManyCases
INVARIANTS
    TypeOK
    ReadyMeansComplete
CHECK_DEADLOCK FALSE
PROPERTIES
    HierarchySound
    StartupEnds
    RestartEnds
