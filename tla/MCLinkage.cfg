SPECIFICATION Spec
CONSTANTS
    Nets <- SmallNets
    Names <- NetNames
    Pcs <- NetPcs
    Rank <- LastOfTwo
    Slips <- NetSlips
    Brewed <- SomeBrewed
    None = None
    MaxBuilds = 3
    MaxEdits = 3
CHECK_DEADLOCK FALSE
INVARIANTS
    TypeOK
    ProperIsClean
    RebuiltChainLoads
    FarmStaysRight
PROPERTIES
    RelinkKeepsPromise
