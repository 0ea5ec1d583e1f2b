CONSTANTS
    MaxConn = 2
    MaxChan = 2
    MaxOpen = 1
    MaxTab = 2
    MaxQueue = 1
    Size = {80}
    Delays = 2
    Stops = TRUE
    Call = {k1}
SPECIFICATION FairSpec
PROPERTY ReconnectSettles
CHECK_DEADLOCK FALSE
