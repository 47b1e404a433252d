CONSTANTS
    Tries = 2
    Refuses = TRUE
    MaxLogs = 2
SPECIFICATION Spec
INVARIANTS
    FlashIsAccepted
    PromptFlashIsFlagged
PROPERTIES
    Ends
CHECK_DEADLOCK FALSE
