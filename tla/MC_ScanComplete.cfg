CONSTANTS
    MaxKey = 3
    Limit = 2
    MaxWrites = 2
    Scanners <- MCScanners
SPECIFICATION Spec
INVARIANT
    ScanComplete
CHECK_DEADLOCK FALSE
