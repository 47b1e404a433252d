CONSTANTS
    MaxCuts = 2
    MaxRounds = 2
    MaxRuns = 3
SPECIFICATION FlowSpec
INVARIANTS
    BricksOnlyIfMissed
    SuccessStarts
    WaitsAsServed
PROPERTIES
    RunEnds
CHECK_DEADLOCK FALSE
