SPECIFICATION ControlSpec
CONSTANTS
    Browsers = {b1, b2}
    Tabs = {t1, t2}
    MaxSessions = 1
    SessionTime = 1
    LoginWindow = 2
    LoginFailures = 2
    UiTime = 3
    MaxTokens = 2
    MaxLogins = 2
    MaxReviews = 2
    Policies <- FewGrants
    Followed = 0
    Procs = {p1, p2}
    MaxCrashes = 1
    Peers = {n1}
    Local = here
    Secrets = {s1}
    MaxRequests = 2
    MaxTime = 2
    Ttl = 1
    CacheSize = 1
CONSTRAINT LastOnly
CONSTRAINT ThrottleFirst
CONSTRAINT OneAtATime
SYMMETRY Alike
INVARIANT UiLimitsHold
INVARIANT ExecutedAtMostOnce
INVARIANT RecordedExists
PROPERTY CoordinationStops
 
CHECK_DEADLOCK FALSE
