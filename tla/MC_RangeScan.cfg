CONSTANTS
    MaxKey = 3
    Limit = 2
    MaxWrites = 2
    Scanners <- MCScanners
SPECIFICATION Spec
INVARIANTS
    ScanInOrder
    ScanIsSnapshotPrefix
CHECK_DEADLOCK FALSE
