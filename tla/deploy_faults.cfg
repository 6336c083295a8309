SPECIFICATION Spec
CONSTANTS
    Procs = {p1, p2}
    NoProc = NoProc
    MaxDeployments = 3
    Retention = 1
    MaxCrashes = 1
    Handoff = TRUE
    PostCommands = 1
    Cancels = TRUE
    NginxFaults = TRUE
    UnitFaults = TRUE
CONSTRAINT CancelsEarly
SYMMETRY ProcSymmetry
INVARIANT MutualExclusion
INVARIANT CurrentNeverDangles
INVARIANT CancelHonoured
CHECK_DEADLOCK FALSE
