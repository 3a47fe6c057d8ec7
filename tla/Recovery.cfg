SPECIFICATION RecoverySpec
CONSTANTS
    None = None
    Request = {r1, r2}
    MaxKeys = 2
    MaxRows = 2
INVARIANTS
    BackupIsKept
    OneReplication
PROPERTY LocalStorageWins
