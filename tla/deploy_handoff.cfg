SPECIFICATION FairSpec
CONSTANTS
    Procs = {p1, p2}
    NoProc = NoProc
    MaxDeployments = 5
    Retention = 2
    MaxCrashes = 0
    Handoff = TRUE
    PostCommands = 2
    Cancels = FALSE
    NginxFaults = FALSE
    UnitFaults = FALSE
INVARIANT TypeOK
INVARIANT KnownGoodServed
INVARIANT HealthNotOverstated
INVARIANT TrafficIsServed
INVARIANT ReadinessIsTheCandidates
INVARIANT RetentionKept
PROPERTY GateImplemented
PROPERTY EveryDeploymentSettles
CHECK_DEADLOCK FALSE
