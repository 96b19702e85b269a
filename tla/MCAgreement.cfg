SPECIFICATION Spec
CONSTANTS
    org = org
    ann = ann
    bob = bob
    inn = inn
    bar = bar
    Participants <- Everyone
    Founders <- OrgAndAnn
    Organizer = org
    Places <- TwoPlaces
    NoPlace = NoPlace
    Steps = 2
    Openable <- EveryStep
    ProposalLimit = 2
    RoomLimit = 3
    Dispositions <- ThreeStances
SYMMETRY PlaceSymmetry
INVARIANTS
    VetoBlocksWhileItStands
    LiveOnlyInDeliberation
    CommittedByConsent
    PlanSettledInOrder
PROPERTIES
    DecisionsStand
    KeepsPromise
