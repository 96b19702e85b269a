SPECIFICATION Spec
CONSTANTS
    inn = inn
    bar = bar
    Places <- TwoPlaces
    Batch = 1
    MaxBatches = 2
    MaxTexts = 2
    MaxOutside = 2
    MaxFaults = 0
CHECK_DEADLOCK FALSE
INVARIANT
    VerdictsOfTheNewest
