SPECIFICATION FairSpec
CONSTANTS
    Codes   = {0}
    Sigs    = {}
    Sigpipe = {"default", "ignored"}
    Faults  <- LivenessFaults
PROPERTIES
    LibraryDeathKillsTarget
    TargetIsReaped
    WaitReturns
    KillReturns
    DetachReturns
