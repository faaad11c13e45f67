SPECIFICATION Spec
CONSTANTS
    BlockThreshold = 75
    QuarantineThreshold = 50
    Modes = {TRUE, FALSE}
    HitLists <- SomeHits
    Confidences = {0, 70, 95}
    FidelityScores = {75}
    Matches <- SomeMatches
CHECK_DEADLOCK FALSE
INVARIANTS
    StrongSignalBlocks
    ForbiddenNeverPasses
    
    NeverStuck
