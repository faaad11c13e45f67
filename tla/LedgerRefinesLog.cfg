SPECIFICATION FairSpec
CONSTANTS
    w1 = w1  w2 = w2  e1 = e1  e2 = e2  e3 = e3  e4 = e4
    Workers <- OneWorker
    Events <- FourEvents
    MaxPending = 2
    MaxStarts = 3
    MaxFaults = 2
    MaxCrashes = 1
CHECK_DEADLOCK FALSE
INVARIANTS
    TypeOK
    ChainsLinked
    BlocksWithinLimit
    NoEventTwice
    Accounted
    SavedWhenIdle
    ReadableFileIsComplete
    StopSavesAll
PROPERTIES
    ImplementsAuditLog
    BufferReachesFile
