SPECIFICATION Spec
CONSTANTS
    Flows <- OnePhp
    Versions = {v1, v2}
    Files <- SmallFiles
    Ships <- SmallShips
    OwnTags = {"own"}
    SubTags = {}
    Branch = "master"
    None = None
    MaxRuns = 2
    MaxEdits = 1
CHECK_DEADLOCK FALSE
INVARIANTS
    RetagReleasesAnew
