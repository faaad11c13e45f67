SPECIFICATION FairSpec
CONSTANTS
    n1 = n1  n2 = n2  n3 = n3  p1 = p1
    Nodes <- TwoNodes
    Peers <- PairPeers
    Patterns <- OnePattern
    MinHits = 3
    MaxMade = 2
    MaxDetections = 2
    MaxLost = 1
    MaxHalts = 1
    MaxAged = 1
INVARIANTS
    IndexIsInverse
    Remembered
PROPERTIES
    ExpiredVanish
CHECK_DEADLOCK FALSE
