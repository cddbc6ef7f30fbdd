SPECIFICATION FairSpec
CONSTANTS
    N = 2
    Sequential = FALSE
PROPERTY NoOrphans
CHECK_DEADLOCK FALSE
