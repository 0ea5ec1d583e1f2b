CONSTANTS
    MaxConn = 1
    MaxChan = 1
    MaxQueue = 3
    Size = {80}
    Opener = {o1}
SPECIFICATION Spec
PROPERTY SingleEmission
CHECK_DEADLOCK FALSE
