SPECIFICATION Spec
CONSTANTS
    p1 = p1
    p2 = p2
    need = need
    word = word
    Places = {p1, p2}
    Criteria = {need, word}
    Answerable <- MCAnswerable
    Vocabulary = {word}
    NeedSets <- MCNeedSets
    ReadyCap = 1
    FetchSlots = 2
    JudgeSlots = 1
    Dispatches = 1
    MaxUpsets = 1
INVARIANTS
    ReplanComing
    NothingLeaks
PROPERTY
    EventuallyTried
CHECK_DEADLOCK FALSE
