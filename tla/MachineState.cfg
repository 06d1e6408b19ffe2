SPECIFICATION MachineSpec
CONSTANTS
    \* volumes: two commands, a project on each side
    Job = {c1, c2}
    WinProject = {w}
    WslProject = {x}
    MaxMoves = 1
    \* image lock
    LockJob = {c1, c2}
    MaxDigest = 2
    MaxCommands = 2
    \* image trust
    TrustJob = {c1, c2}
    PolicyFile <- MCPolicyFiles
    MaxChanges = 1
    MaxClock = 1
    \* overlays
    OverlayJob = {c1, c2}
    Directory = {"inner", "outer", "home"}
    Parent <- MCParent
    Enclosing = {"home"}
    MaxEdits = 1
    MaxOverlayCommands = 2
    \* tool session
    MaxFrames = 2
    MaxSignals = 2
    Buffer = 1
    \* installation
    InstallJob = {c1, c2}
    MaxInstalls = 2
    MaxMeddling = 2
SYMMETRY MCSymmetry
CHECK_DEADLOCK FALSE
INVARIANTS
    ArchivesTrue
    RunsLocked
    RunsVerified
    RefreshAuthorizes
    ActsOnSignedRegistry
    RunsApproved
    ResultTrue
    RacesAreNotFailures
    NoStrandedTool
    NeverWaitsOnHost
    LinksReachWholeBinary
PROPERTIES
    OrphansJudgedInTime
    ProvedOrReplaced
    ImportsIntoEmpty
    RefreshKeepsOthers
    LockNeverLost
    RestoresTogether
    OthersKept
    ForeignUntouched
    ImplementsToolRun
