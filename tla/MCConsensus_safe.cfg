SPECIFICATION FairSpec
CONSTANTS
    r1 = r1  r2 = r2  v1 = v1  v2 = v2  v3 = v3  v4 = v4  s1 = s1
    Rounds <- OneRound
    Voters <- ThreeVoters
    Subscribers <- OneOther
    Actions <- ThreeActions
    MinMajority = 2
    MaxForeign = 1
CHECK_DEADLOCK FALSE
INVARIANTS
    VetoBlocks
    VotersDecide
PROPERTIES
    RoundEnds
