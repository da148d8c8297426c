SPECIFICATION Spec
CONSTANTS
    Libs <- SmallLibs
    LibDir = "lib"
    Names <- SmallNames
    Star = "*"
    Ships <- SmallShips
    Rank <- SmallRank
    None = None
    Plain = Plain
INVARIANTS
    NoNameConflict
