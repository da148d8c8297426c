SPECIFICATION Spec
CONSTANTS
    ScriptSet <- Programs
    Versions = {"v2"}
    Pinned = "v2"
    Places = {"home"}
    Home = "home"
    Files <- FewFiles
    Kind <- FewKind
    Ships <- OneShips
INVARIANTS
    ProgramsKeepAll
