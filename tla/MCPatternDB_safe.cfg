SPECIFICATION FairSpec
CONSTANTS
    p1 = p1  p2 = p2  c1 = c1  c2 = c2
    Patterns <- TwoPatterns
    Cycles <- OneCycle
    MaxFaults = 1
    MaxHalts = 1
INVARIANTS
    HashesUnique
    StoredAreActive
    LossNeedsOverlap
PROPERTIES
    
    TornIsTerminal
CHECK_DEADLOCK FALSE
