SPECIFICATION FairSpec
CONSTANTS
    r1 = r1
    r2 = r2
    r3 = r3
    s1 = s1
    s2 = s2
    Submits <- TwoSubmits
    Runs <- ThreeRuns
    MaxConcurrent = 3
    MaxQueue = 1
    RunReserve = 5
INVARIANTS
    TypeOK
    BoxExclusive
    TokensExact
PROPERTIES
    ReserveKept
    CallEnds
