SPECIFICATION Spec
CONSTANTS
    Flows <- OneXml
    Versions = {v1, v2}
    Files <- SmallFiles
    Ships <- SmallShips
    OwnTags = {"own"}
    SubTags = {"sub"}
    Branch = "master"
    None = None
    MaxRuns = 1
    MaxEdits = 0
CHECK_DEADLOCK FALSE
INVARIANTS
    TagsStartTheirWorkflow
