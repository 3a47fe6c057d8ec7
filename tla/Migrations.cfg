SPECIFICATION Spec
CONSTANTS
    System = System
    None = None
    kv = kv
    psql = psql
    userpass = userpass
    Mount = {kv, userpass}
    Releases = {1, 2, 3}
    Request = {r1, r2}
    Scripts <- MCScripts
    Statements <- MCStatements
    MaxFaults = 2
INVARIANTS
    MigratedInWhole
    NoTablesLeft
    BackendsFindTheirTables
CHECK_DEADLOCK FALSE
