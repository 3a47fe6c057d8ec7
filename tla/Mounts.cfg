SPECIFICATION Spec
CONSTANTS
    None = None
    r1 = r1
    r2 = r2
    n0 = n0
    n1 = n1
    n2 = n2
    m1 = m1
    m2 = m2
    s1 = s1
    p = p
    pc = pc
    Request = {r1, r2}
    Namespace = {n0, n1, n2}
    Root = n0
    MountId = {m1, m2}
    Path = {p, pc}
    Covers <- MCCovers
    Secret = {s1}
    FaultKinds = {"cancel", "reopen"}
    MaxFaults = 1
SYMMETRY MCSymmetry
INVARIANTS
    LeasesRevokedFirst
    StoredHasTables
    StoredIsRouted
PROPERTY DisableHitsItsMount
