SPECIFICATION Spec
CONSTANTS
    Keys       = {"A", "B"}
    Values     = {"1", "2"}
    NotAscii   = {"B", "2"}
    Parent    <- MCParent
    Dotenv    <- MCDotenv
    Path      <- MCPath
    Home       = "home"
    Dirs       = {"work"}
    ArgLists  <- MCArgLists
    Extensions <- MCExtensions
    MaxFiles   = 2
    MaxCalls   = 2
    MaxChanges = 1
INVARIANTS
    TypeOK
    ChildAsAsked
    ErrorsHaveCauses
CHECK_DEADLOCK FALSE
