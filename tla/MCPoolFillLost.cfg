SPECIFICATION Spec
CONSTANTS
    s1 = s1
    p1 = p1
    p2 = p2
    p3 = p3
    Places <- ThreePlaces
    Circles <- Overlapping
    Servers = {s1}
    Cap = 3
    Batch = 1
    SeedLimit = 1
    FailureLimit = 2
    MaxScope = 2
    MaxSteps = 1
    MaxFaults = 0
INVARIANTS
    NoChangeLost
