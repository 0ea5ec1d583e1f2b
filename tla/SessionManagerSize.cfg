CONSTANTS
    MaxConn = 2
    MaxChan = 2
    MaxOpen = 2
    MaxTab = 1
    MaxQueue = 1
    Size = {80, 120}
    Delays = 2
    Stops = FALSE
    Call = {k1}
SPECIFICATION Spec
INVARIANT ChannelGetsTabSize
CHECK_DEADLOCK FALSE
