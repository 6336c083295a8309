SPECIFICATION Spec
CONSTANTS
    Procs = {p1}
    NoProc = NoProc
    MaxDeployments = 5
    Retention = 2
    MaxCrashes = 0
    Handoff = TRUE
    PostCommands = 1
    Cancels = FALSE
    NginxFaults = FALSE
    UnitFaults = FALSE
INVARIANT NoDowntime
CHECK_DEADLOCK FALSE
