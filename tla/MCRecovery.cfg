SPECIFICATION BoundedSpec
CONSTANTS
    ann = ann
    bob = bob
    near = near
    dear = dear
    far = far
    People <- Both
    Candidates <- Three
    Distance <- HowFar
    Price <- HowMuch
    Kitchen <- Cuisine
    Founding <- JustOne
    RadiusMax = 2
    PriceMax = 2
    Enough = 2
    NeedLimit = 2
    OfferLimit = 3
    Steps = 2
    Owner <- AnnThenBob
    Statements <- Anything
INVARIANTS
    TypeOK
    IrreducibleConflict
    OneOpenOffer
    OpenMeansImpasse
    NothingOpenOnSetAside
PROPERTIES
    SettledOffersStand
