SPECIFICATION Spec
CONSTANTS
    Within <- MCWithin
    PlatformOf <- MCPlatformOf
    Ifaces = {0, 3}
    MaxPort = 101
    Setups <- MCSetups
    ArgLists <- MCArgLists
    GoneTime = 1
    BackTime = 1
    AdbTime = 1
    MaxTalks = 2
    MaxMoves = 1
CHECK_DEADLOCK FALSE
INVARIANT
    CheckedBeforeUse
    SuccessIsWhole
    ChildTakesTheModule
PROPERTY
    OpensTheModule
    DriverEnds
