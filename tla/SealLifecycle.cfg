SPECIFICATION FairSpec
CONSTANTS
    None = None
    r1 = r1
    r2 = r2
    s1 = s1
    s2 = s2
    s3 = s3
    root = root
    child = child
    Request = {r1, r2}
    Share = {s1, s2, s3}
    InitParams <- MCInitParams
    RootMount = {root}
    ChildMount = {}
    MaxCancels = 2
    SealAlone = TRUE
    InstantScan = TRUE
INVARIANTS
    ConfigMatchesDeal
    UnsealNeedsThreshold
    
    
 
