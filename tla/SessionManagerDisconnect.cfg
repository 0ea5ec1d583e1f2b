CONSTANTS
    MaxConn = 2
    MaxChan = 1
    MaxOpen = 2
    MaxTab = 1
    MaxQueue = 1
    Size = {80}
    Delays = 2
    Stops = FALSE
    Call = {k1}
SPECIFICATION Spec
PROPERTY NoHandleAfterDisconnect
CHECK_DEADLOCK FALSE
