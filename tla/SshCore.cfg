CONSTANTS
    MaxConn = 1
    MaxChan = 1
    MaxQueue = 3
    Size = {80, 100}
    Opener = {o1, o2}
SPECIFICATION FairSpec
INVARIANTS
    TypeOK
    NoSleepWithEvents
PROPERTIES
    EventsDelivered
    DisconnectEnds
    ImplementsBridge
CHECK_DEADLOCK FALSE
