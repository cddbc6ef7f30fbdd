SPECIFICATION FairSpec
CONSTANTS
    N = 3
    Sequential = TRUE
INVARIANTS
    
    LeaksPointBack
    TargetsAreClean
PROPERTIES
    NoOrphans
    CallsReturn
CHECK_DEADLOCK FALSE
