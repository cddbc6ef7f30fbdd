SPECIFICATION FairSpec
CONSTANTS
    Half   = 512
    Codes  <- MCCodes
    Modes  <- MCModes
    Faults <- AllFaults
INVARIANTS
    TypeOK
    NoHandleLeak
    TreeDies
    FullPipesAreRead
PROPERTIES
    TimeoutReturns
    DetachReturns
    KeepsContract
