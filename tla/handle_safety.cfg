SPECIFICATION Spec
CONSTANTS
    Codes   <- MCCodes
    Sigs    <- MCSigs
    Sigpipe = {"default", "ignored"}
    Faults  <- AllFaults
INVARIANTS
    TypeOK
    ExitCodeTruth
    ReleaseWins
    HandleOwnsSupervisor
    PidPinned
    NothingLeftRunning
    KillTakesTheTree
    FailedSpawnLeavesNothing
    HandleAfterExec
    InfoFraming
PROPERTY KeepsContract
