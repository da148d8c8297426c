SPECIFICATION Spec
CONSTANTS
    Flows <- OneNghttp
    Versions = {v1, v2}
    Files <- SmallFiles
    Ships <- SmallShips
    OwnTags = {"own"}
    SubTags = {}
    Branch = "master"
    None = None
    MaxRuns = 1
    MaxEdits = 1
CHECK_DEADLOCK FALSE
INVARIANTS
    NameTellsContents
