SPECIFICATION Spec
CONSTANTS
    ImageIds <- MCImageIds
    Pieces = 3
    Regions = 2
    Chunks = 2
INVARIANTS
    TrueIsLoadedOrReset
    AcceptedIsWhole
    DumpIsWhole
PROPERTY
    Ends
CHECK_DEADLOCK FALSE
