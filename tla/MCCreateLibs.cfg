SPECIFICATION FairSpec
CONSTANTS
    Libs <- SmallLibs
    LibDir = "lib"
    Names <- SmallNames
    Star = "*"
    Ships <- SmallShips
    Rank <- SmallRank
    None = None
    Plain = Plain
INVARIANTS
    TypeOK
    Complete
    AtMostOneLost
    AbortIsHarmless
    NewLinksResolve
    OnlySharedNamesClash
    LossHeals
PROPERTIES
    ImplementsLinkFarm
    RunsShorten
    Terminates
