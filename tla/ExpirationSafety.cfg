SPECIFICATION Spec
CONSTANTS
    None = None
    Worker = Worker
    l1 = l1
    l2 = l2
    c1 = c1
    c2 = c2
    Lease = {l1}
    Client = {c1, c2}
    Configs <- MCTwoConfigs
    IssueTtls = {2}
    RenewTtls = {2}
    Prefixes <- MCPrefixes
    RetryTimeout = 1
    MaxRetries = 2
    Batch = 1
    FaultKinds = {"storage", "cancel", "crash"}
    MaxFaults = 1
    LastRequest = 1
    MaxTime = 2
    InstantScan = FALSE
SYMMETRY MCSymmetry
CHECK_DEADLOCK FALSE
INVARIANTS
    TypeOK
    AbandonedOnlyAfterMaxRetries
    LifetimeIsBounded
PROPERTY ImplementsLifecycle
