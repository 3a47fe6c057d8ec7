SPECIFICATION Spec
CONSTANTS
    None = None
    r1 = r1
    r2 = r2
    r3 = r3
    k1 = k1
    d1 = d1
    d2 = d2
    d3 = d3
    d4 = d4
    Request = {r1, r2}
    Key = {k1}
    Data = {d1, d2, d3, d4}
    Limits = {1, 3}
    DefaultLimit = 2
    MaxVersion = 2
    MaxFaults = 1
SYMMETRY MCSymmetry
INVARIANTS
    VersionsBounded
    
    LatestFound
PROPERTY DestroyedIsFinal
