SPECIFICATION Spec
CONSTANTS
    Codes   = {0}
    Sigs    = {}
    Sigpipe = {"default"}
    Faults  = {"pid_reused"}
INVARIANT SignalsActOnTheTarget
