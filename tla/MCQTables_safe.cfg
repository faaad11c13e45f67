SPECIFICATION Spec
CONSTANTS
    NumAgents = 4
    Vectors <- SomeVectors
    MaxOutcomes = 2
    MaxStarts = 3
    MaxFaults = 1
    MaxCrashes = 2
CHECK_DEADLOCK FALSE
\* HighRiskPrefersBlock is refuted by this instance too.
INVARIANTS
    TablesAgree
    LearningIsKept
