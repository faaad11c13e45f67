SPECIFICATION CheckSpec
CONSTANTS
    w1 = w1  w2 = w2  e1 = e1  e2 = e2  e3 = e3  e4 = e4
    Workers <- TwoWorkers
    Events <- ThreeEvents
    MaxPending = 3
    MaxStarts = 3
    MaxFaults = 1
    MaxCrashes = 0
    MaxAlterations = 1
    Items <- ThreeItems
    Lists <- ShortLists
SYMMETRY Symmetry
CHECK_DEADLOCK FALSE
INVARIANTS
    
    LastBlockCommits
    ProofsHold
    TreeIsBalanced
PROPERTIES
    AppendOnly
