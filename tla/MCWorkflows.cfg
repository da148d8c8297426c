SPECIFICATION Spec
CONSTANTS
    Flows <- AllWorkflows
    Versions = {v1, v2}
    Files <- SmallFiles
    Ships <- SmallShips
    OwnTags = {"own"}
    SubTags = {"sub"}
    Branch = "master"
    None = None
    MaxRuns = 2
    MaxEdits = 2
SYMMETRY VersionSymmetry
CHECK_DEADLOCK FALSE
INVARIANTS
    TypeOK
    AssetsFollowCommits
    NameTellsBuild
    FailedBuildsStayUnpublished
    UploadsStay
    NewestRunWins
    PureWithoutPrepare
    RightGlobsRelease
