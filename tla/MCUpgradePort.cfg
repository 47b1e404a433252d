CONSTANTS
    MaxCuts = 0
    MaxRounds = 0
    MaxRuns = 1
SPECIFICATION FlowSpec
INVARIANTS
    PortIsOpen
CHECK_DEADLOCK FALSE
