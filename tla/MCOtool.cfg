SPECIFICATION Spec
CONSTANTS
    Nets <- Fonts
    Names <- NetNames
    Pcs <- NetPcs
    Rank <- LastOfTwo
    Slips <- NetSlips
    Brewed <- SomeBrewed
    None = None
    MaxBuilds = 2
    MaxEdits = 2
CHECK_DEADLOCK FALSE
INVARIANTS
    DependentsShowIt
