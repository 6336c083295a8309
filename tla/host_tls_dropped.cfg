SPECIFICATION Spec
CONSTANTS
    Procs = {p1}
    NoProc = NoProc
    Ports = {1, 2}
    MaxFaults = 0
    MaxCrashes = 0
INVARIANT BoundCertificateIsServed
CHECK_DEADLOCK FALSE
