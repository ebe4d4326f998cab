CONSTANTS
    Endpoints = 2
    BatchSize = 2
    MaxSessions = 3
    MaxLag = 1
    Funds = 1
    Withdrawals = {c1}
SPECIFICATION Spec
INVARIANTS TypeOK ScanNeverOverstates QuietScanIsExact WithdrawnOnce
CHECK_DEADLOCK FALSE
