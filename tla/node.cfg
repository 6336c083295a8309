SPECIFICATION NodeSpec
CONSTANTS
    Procs = {p1, p2}
    Refs = {r1}
    Legacy = {r1}
    NoKey = NoKey
    Empty = Empty
    MaxValues = 4
    MaxKilled = 1
    t1 = t1
    t2 = t2
    t3 = t3
    Threads = {t1, t2, t3}
    Processes = {t1, t2}
    ProcessOf <- OfThread
    Contents = {c1, c2}
    Inodes = {1, 2, 3, 4, 5, 6, 7, 8}
    None = None
    Limit = 2
    MaxRecords = 4
    MaxCuts = 2
    Releases = {1, 2, 3}
    Broken = {3}
    Nothing = Nothing
    Torn = Torn
    MaxFaults = 2
    NoProc = NoProc
    Workers = {w1, w2}
    MaxEdits = 1
CONSTRAINT Claimed
CONSTRAINT Few
SYMMETRY Alike
INVARIANT SecretsKept
INVARIANT JournalIsRead
INVARIANT FailuresAreUndone
PROPERTY FilesAreWhole
CHECK_DEADLOCK FALSE
