SPECIFICATION Spec
CONSTANTS
    root = root
    a = a
    ab = ab
    ab2 = ab2
    c = c
    ta = ta
    tb = tb
    tb2 = tb2
    tr = tr
    tc = tc
    pa = pa
    pb = pb
    pb2 = pb2
    pr = pr
    pk = pk
    pc = pc
    ma = ma
    mr = mr
    ml = ml
    None = None
    Star = "*"
    Slash = "/"
    SysPath <- Sys
    Request = {r1}
    Input <- MCInput
    Namespace <- MCNamespace
    Root = root
    NameOf <- MCNameOf
    ParentOf <- MCParentOf
    Token = {ta, tb, tb2, tr, tc}
    TokenSpace <- MCTokenSpace
    Policy = {pa, pb, pb2, pr, pk, pc}
    RulesOf <- MCRulesOf
    PolicySpace <- MCPolicySpace
    Attached <- MCAttached
    Mount = {ma, mr, ml}
    MountSpace <- MCMountSpace
    MountPath <- MCMountPath
    Initially <- MCInitially
    MaxChanges = 4
INVARIANTS
    TypeOK
    HandledOnlyIfAllowed
    RefusedOnlyIfNotAllowed
