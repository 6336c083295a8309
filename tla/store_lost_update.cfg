SPECIFICATION Spec
CONSTANTS
    Procs = {p1, p2}
    NoProc = NoProc
    Apps = {a1}
    Domains = {d1}
    Names = {n1}
    References <- Pairs
    NoRef = NoRef
    OwnedReferences <- DistinctNames
    Requests <- UpdateRequests
    MaxDeployments = 0
    MaxCrashes = 0
PROPERTY UpdatesAreAtomic
CHECK_DEADLOCK FALSE
