CONSTANTS
    MaxTransfer = 2
    MaxRecord = 2
    MaxConcurrent = 1
    Pump = {p1, p2}
    Rejects = TRUE
SPECIFICATION Spec
PROPERTY NothingToCancel
CHECK_DEADLOCK FALSE
