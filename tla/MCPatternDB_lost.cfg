SPECIFICATION Spec
CONSTANTS
    p1 = p1  p2 = p2  c1 = c1  c2 = c2
    Patterns <- TwoPatterns
    Cycles <- OneCycle
    MaxFaults = 0
    MaxHalts = 0
INVARIANTS
    ReportedIsStored
CHECK_DEADLOCK FALSE
