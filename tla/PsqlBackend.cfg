SPECIFICATION Spec
CONSTANTS
    None = None
    r1 = r1
    r2 = r2
    m = m
    d1 = d1
    d2 = d2
    foo = foo
    u1 = u1
    Request = {r1, r2}
    Mounter = m
    Db = {d1, d2}
    Secret = {u1}
    Role = {foo}
    RoleOf <- MCRoleOf
    Lenient = {}
    MaxFaults = 2
INVARIANTS
    NoPoolClosedInUse
    SomeoneCanGoOn
    AgreeWhenUndisturbed
PROPERTIES
    ImplementsPromise
    EveryRequestEnds
