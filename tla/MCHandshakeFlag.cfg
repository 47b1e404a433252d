CONSTANTS
    Tries = 2
    Refuses = FALSE
    MaxLogs = 0
SPECIFICATION Spec
INVARIANTS
    OverrideIsFlagged
CHECK_DEADLOCK FALSE
