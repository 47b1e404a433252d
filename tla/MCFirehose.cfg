CONSTANTS
    SelfPath = TRUE
    NumLines = 6
    Tag <- MCTag
    Filename <- MCFilename
    NoName = ""
    Sectored <- MCSectored
    MaxSectors = 2
    PerSize = 2
    MaxBulk = 2
    Payloads = {1, 2}
    MaxLogs = 2
SPECIFICATION Spec
INVARIANTS
    SuccessIsProgrammed
    RawIsOwnImage
PROPERTIES
    ImplementsPackageFlash
    Ends
CHECK_DEADLOCK FALSE
