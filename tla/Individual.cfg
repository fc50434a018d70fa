SPECIFICATION FairSpec
CONSTANTS
    Space <- MCSpace
    Ranges <- MCRanges
    Keep = 2
    Times = {1, 2, 3}
    Searches = 2
INVARIANTS TypeOK OptimumIsBest EveryValueTried BestIsKept
PROPERTIES SearchEnds
\* The plugin stops calling a search that is finished.
CHECK_DEADLOCK FALSE
