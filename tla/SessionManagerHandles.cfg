CONSTANTS
    MaxConn = 3
    MaxChan = 2
    MaxOpen = 2
    MaxTab = 1
    MaxQueue = 1
    Size = {80}
    Delays = 2
    Stops = FALSE
    Call = {k1}
SPECIFICATION Spec
INVARIANT OnlyLiveHandleMaps
CHECK_DEADLOCK FALSE
