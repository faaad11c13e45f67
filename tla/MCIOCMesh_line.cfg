SPECIFICATION FairSpec
CONSTANTS
    n1 = n1  n2 = n2  n3 = n3  p1 = p1
    Nodes <- ThreeNodes
    Peers <- LinePeers
    Patterns <- OnePattern
    MinHits = 3
    MaxMade = 1
    MaxDetections = 1
    MaxLost = 1
    MaxHalts = 0
    MaxAged = 0
PROPERTIES
    MeshConverges
CHECK_DEADLOCK FALSE
