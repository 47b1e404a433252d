CONSTANTS
    Infos = 1
    MaxUrcs = 1
SPECIFICATION Spec
PROPERTIES
    CommandReturns
CHECK_DEADLOCK FALSE
