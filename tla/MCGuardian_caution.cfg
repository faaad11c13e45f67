SPECIFICATION Spec
CONSTANTS
    BlockThreshold = 75
    QuarantineThreshold = 50
    Modes = {TRUE}
    HitLists <- FewHits
    Confidences = {90}
    FidelityScores = {90}
    Matches <- NoMatch
CHECK_DEADLOCK FALSE
INVARIANTS
    CautionApplied
