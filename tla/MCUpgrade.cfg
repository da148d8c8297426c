SPECIFICATION FairSpec
CONSTANTS
    ScriptSet <- Upgraded
    Versions = {"v1", "v2"}
    Pinned = "v2"
    Places = {"home"}
    Home = "home"
    Files <- SmallFiles
    Kind <- SmallKind
    Ships <- TwoShips
INVARIANTS
    SuccessIsComplete
PROPERTIES
    ImplementsInstaller
    Terminates
