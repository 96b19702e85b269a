SPECIFICATION Spec
CONSTANTS
    r1 = r1
    r2 = r2
    None = None
    Requests <- TwoRequests
    Keys = {k1}
    MaxEvents = 2
    MaxRevision = 3
    MaxCommands = 2
    MaxWindows = 1
    MaxFaults = 1
SYMMETRY Symmetry
INVARIANTS
    AtMostOnce
    BuiltOnHead
    AnswersAreTrue
PROPERTIES
    RecordsStand
