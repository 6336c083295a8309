SPECIFICATION FairSpec
CONSTANTS
    r1 = r1
    r2 = r2
    d1 = d1
    d2 = d2
    Runners = {r1, r2}
    NoRunner = NoRunner
    Dests = {d1, d2}
    MaxHistory = 2
    MaxAttempts = 2
    RuleAttempts = 2
    MaxSignals = 2
    Scenarios <- AllScenarios
    NoConfig = NoConfig
    Torn = Torn
INVARIANT DeliveriesAccountable
INVARIANT ActedOnOnce
INVARIANT RollbackGoesBack
PROPERTY SettledIsFinal
PROPERTY OperationsProgress
CHECK_DEADLOCK FALSE
