CONSTANTS
    Infos = 2
    MaxUrcs = 2
SPECIFICATION Spec
INVARIANTS
    WritesToOpenPort
    OwnAnswer
    AnswerInOrder
PROPERTIES
    HangUpEndsWait
CHECK_DEADLOCK FALSE
