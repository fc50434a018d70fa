SPECIFICATION Spec
CONSTANTS
    Regions = {r1, r2}
    Phase = phase
    Threads = {master}
    Master = master
    Params = {p}
    Values = {v0, v1, v2}
    NoAction = none
    MapInside = FALSE
    MaxDepth = 4
INVARIANTS TypeOK NoUnderflow ResetBetweenPhases StackBounded
PROPERTY RestoredOnExit
