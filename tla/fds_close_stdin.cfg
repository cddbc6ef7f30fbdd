SPECIFICATION FilterSpec
CONSTANTS
    N = 2
    Sequential = TRUE
PROPERTY CloseStdinGivesEof
CHECK_DEADLOCK FALSE
