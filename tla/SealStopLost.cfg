SPECIFICATION Spec
CONSTANTS
    None = None
    r1 = r1
    r2 = r2
    s1 = s1
    s2 = s2
    s3 = s3
    root = root
    child = child
    Request = {r1}
    Share = {s1}
    InitParams <- MCOneOfOne
    RootMount = {root}
    ChildMount = {}
    MaxCancels = 0
    SealAlone = TRUE
    InstantScan = FALSE
INVARIANT UnsealedServerRevokes
