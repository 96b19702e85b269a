SPECIFICATION Spec
CONSTANTS
    PageCap = 1
    Backlog = 2
    Found = 1
    FoundKinds = {"secret"}
    MaxRevision = 3
    MaxCommit = 2
    MaxFaults = 1
    PeerKinds = {"asks", "secret"}
    OwnKinds = {"plain"}
CHECK_DEADLOCK FALSE
INVARIANTS
    TypeOK
    QuietMapIsCurrent
PROPERTIES
    RefetchReaches
    DroppedIsOnTheMap
    KeepsPromise
    EventuallyCurrent
