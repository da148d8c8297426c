SPECIFICATION Spec
CONSTANTS
    ScriptSet <- AllScripts
    Versions = {"v2"}
    Pinned = "v2"
    Places = {"home", "away"}
    Home = "home"
    Files <- FewFiles
    Kind <- FewKind
    Ships <- OneShips
INVARIANTS
    TypeOK
    InstallsThisBuild
    DamageIsBounded
    SuccessIsComplete
    AbortsExplained
PROPERTIES
    BadTarballStays
    ImplementsInstaller
    RunsShorten
