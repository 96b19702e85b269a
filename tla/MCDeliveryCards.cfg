SPECIFICATION Spec
CONSTANTS
    PageCap = 1
    Backlog = 2
    Found = 0
    FoundKinds = {"secret"}
    MaxRevision = 3
    MaxCommit = 1
    PeerKinds = {"asks"}
    OwnKinds = {"plain"}
    MaxFaults = 0
CHECK_DEADLOCK FALSE
INVARIANT
    QuietPageShowsWhatAwaits
