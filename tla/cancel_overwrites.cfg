SPECIFICATION Spec
CONSTANTS
    Procs = {p1, p2}
    NoProc = NoProc
    MaxDeployments = 2
    Retention = 1
    MaxCrashes = 0
    Handoff = FALSE
    PostCommands = 0
    Cancels = TRUE
    NginxFaults = FALSE
    UnitFaults = FALSE
SYMMETRY ProcSymmetry
PROPERTY CompletedIsFinal
CHECK_DEADLOCK FALSE
