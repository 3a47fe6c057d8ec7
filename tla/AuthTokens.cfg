SPECIFICATION Spec
CONSTANTS
    None = None
    r1 = r1
    r2 = r2
    t1 = t1
    t2 = t2
    root = root
    user = user
    Request = {r1, r2}
    Token = {t1, t2}
    Entity = {root}
    Policy = {root}
    Alias = {user}
    RootEntity = root
    RootPolicy = root
    Config <- MCConfig
    Configs <- MCConfigs
    RenewTtls = {3}
    RequestTime = 1
    MaxTime = 3
    MaxFaults = 1
SYMMETRY MCSymmetry
INVARIANTS
    RevokedIsFinal
    GivenHasLease
    DisableEndsSessions
    TokenLifetimeBounded
    RootTokenWorks
CHECK_DEADLOCK FALSE
