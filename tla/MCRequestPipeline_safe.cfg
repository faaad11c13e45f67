SPECIFICATION Spec
CONSTANTS
    BlockThreshold = 75
    QuarantineThreshold = 50
    p1 = p1
    p2 = p2
    k1 = k1
    k2 = k2
    Requests = {r1, r2}
    Prompts = {p1, p2}
    Patterns = {k1, k2}
    Matching <- SharedPattern
    Assessments <- EveryAssessment
    PeerIocs <- OnePeerIoc
    MaxAttempts = 3
SYMMETRY Interchangeable
CHECK_DEADLOCK FALSE
INVARIANTS
    ForwardedWasAudited
    ReplyMatchesAudit
    HeldIsLearned
PROPERTIES
    ImplementsGate
    KnownThreatIsNotForwarded
