SPECIFICATION HostSpec
CONSTANTS
    Procs = {p1, p2}
    NoProc = NoProc
    Repos = {r1, r2}
    Remotes = {"origin"}
    Ports = {1, 2}
    MaxFaults = 1
    MaxCrashes = 1
    Operators = {o1}
    db = db
    cache = cache
    search = search
    other = other
    Services = {db, cache, search, other}
    Kind <- KindOf
    MaxConfig = 2
CONSTRAINT Few
CONSTRAINT FewWeb
CONSTRAINT OneAtATime
SYMMETRY Alike
INVARIANT RegistryKeepsUpdates
INVARIANT SitesConsistent
INVARIANT ServicesKept
PROPERTY StorageIsKept
PROPERTY FailedChangeIsUndone
CHECK_DEADLOCK FALSE
