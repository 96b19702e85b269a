SPECIFICATION FairSpec
CONSTANTS
    s1 = s1
    s2 = s2
    p1 = p1
    p2 = p2
    p3 = p3
    Places <- ThreePlaces
    Circles <- PairAndOther
    Servers = {s1, s2}
    Cap = 2
    Batch = 1
    SeedLimit = 1
    FailureLimit = 1
    MaxScope = 2
    MaxSteps = 2
    MaxFaults = 1
INVARIANTS
    TypeOK
    OnePlaceOnce
    PoolWithinCap
PROPERTIES
    FillInScope
    FillEnds
    EventuallyFilled
