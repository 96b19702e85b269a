SPECIFICATION Spec
CONSTANTS
    ann = ann
    bob = bob
    near = near
    dear = dear
    far = far
    People <- Both
    Candidates <- Two
    Distance <- HowFar
    Price <- HowMuch
    Kitchen <- Cuisine
    Founding <- JustOne
    RadiusMax = 1
    PriceMax = 2
    Enough = 2
    NeedLimit = 1
    OfferLimit = 2
    Steps = 2
    Owner <- OnlyAnn
    Statements <- Exclusions
INVARIANT
    NothingOpenOnSettledStep
