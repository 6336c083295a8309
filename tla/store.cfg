SPECIFICATION StoreSpec
CONSTANTS
    Procs = {p1, p2}
    OneProc = p1
    OneApp = a1
    OneDomain = d1
    NoProc = NoProc
    Apps = {a1, a2}
    Domains = {d1, d2}
    Names = {n1}
    References <- Pairs
    NoRef = NoRef
    OwnedReferences <- DistinctNames
    Requests <- Both
    MaxDeployments = 1
    MaxCrashes = 1
INVARIANT TypeOK
INVARIANT UpsertsExclusive
INVARIANT UniqueIdentity
INVARIANT RecordsResolveAlone
PROPERTY EveryRequestReturns
CHECK_DEADLOCK FALSE
