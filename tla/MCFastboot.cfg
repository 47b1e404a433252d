CONSTANTS
    UfileCount = 5
    Mibib <- MCMibib
    Stage <- MCStage
    MaxInfos = 2
    MaxLeaves = 3
SPECIFICATION Spec
INVARIANTS
    CountMeansDone
    OwnImage
PROPERTIES
    ImplementsPackageFlash
    LossEnds
CHECK_DEADLOCK FALSE
