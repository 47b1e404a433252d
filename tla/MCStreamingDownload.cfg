CONSTANTS
    UfileCount = 3
    Mibib <- MCMibib
    Stage <- MCStage
    Chunks <- MCChunks
    ReplyTries = 2
    WriteTries = 3
    MaxLogs = 1
SPECIFICATION Spec
INVARIANTS
    CleanImagesComplete
    HolesCostResends
    OwnPartition
    ResetComesLast
PROPERTIES
    ImplementsPackageFlash
    Terminates
CHECK_DEADLOCK FALSE
