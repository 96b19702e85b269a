SPECIFICATION FairSpec
CONSTANTS
    r1 = r1
    r2 = r2
    Appliers <- TwoAppliers
    Steps = 3
    Needs = 2
    Invalid <- OneInvalid
    CommandBound = 1
    FailureBound = 1
INVARIANTS
    OneApplierPerStep
    NeedsLandOnTheirStep
    NothingForgotten
PROPERTIES
    OwedIsApplied
CHECK_DEADLOCK FALSE
