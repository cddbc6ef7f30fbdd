SPECIFICATION FairSpec
CONSTANTS
    Callers   = {main}
    Main      = main
    Sizes     = {2}
    StdinCap  = 1
    StdoutCap = 1
    MaxCalls  = 1
    MaxOutput = 3
    Blank    <- MCBlank
    Modes    <- CallbackModes
PROPERTY CallbackWriteReturns
CHECK_DEADLOCK FALSE
