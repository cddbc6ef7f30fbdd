SPECIFICATION FairSpec
CONSTANTS
    Codes   = {0}
    Sigs    = {}
    Sigpipe = {"default"}
    Faults  = {}
PROPERTY EarlyDeathKillsTarget
