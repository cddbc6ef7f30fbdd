SPECIFICATION FairSpec
CONSTANTS
    Callers   = {main, other}
    Main      = main
    Sizes     = {2}
    StdinCap  = 1
    StdoutCap = 1
    MaxCalls  = 1
    MaxOutput = 2
    Blank    <- MCBlank
    Modes    <- MCModes
INVARIANTS
    TypeOK
    Contiguous
    OkMeansDelivered
    NeverOnClosedFd
    CallerSurvives
    OutputComplete
PROPERTIES
    WriteReturns
    EofArrives
    TeardownReturns
CHECK_DEADLOCK FALSE
