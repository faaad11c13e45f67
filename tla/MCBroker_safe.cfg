SPECIFICATION BrokerSpec
CONSTANTS
    c1 = c1  c2 = c2  c3 = c3  n1 = n1  n2 = n2  t1 = t1  t2 = t2  t3 = t3
    Calls <- TwoCalls
    Names <- OneName
    AsyncTools <- OneAsync
    SyncTools <- OneSync
    Levels <- SomeLevels
    Risks <- SomeRisks
SYMMETRY Symmetry
\* RefusedByPolicy is refuted by this instance too.
INVARIANTS
    CountersAgree
    RanAsDeclared
