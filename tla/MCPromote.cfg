SPECIFICATION Spec
CONSTANTS
    Flows <- OneBrotli
    Versions = {v1, v2}
    Files <- SmallFiles
    Ships <- SmallShips
    OwnTags = {"own"}
    SubTags = {}
    Branch = "master"
    None = None
    MaxRuns = 2
    MaxEdits = 3
CHECK_DEADLOCK FALSE
INVARIANTS
    PureLibrary
