CONSTANTS
    MaxTransfer = 3
    MaxRecord = 3
    MaxConcurrent = 1
    Pump = {p1, p2}
    Rejects = TRUE
SYMMETRY PumpSymmetry
SPECIFICATION Spec
INVARIANTS
    NoIdleSlot
    RunningIsLive
CHECK_DEADLOCK FALSE
