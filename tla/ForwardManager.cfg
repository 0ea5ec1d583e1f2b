CONSTANTS
    MaxForward = 2
    MaxAccepted = 1
    Session = {h1, h2}
    Port = {p1, p2}
    AnyPort = any
    Ask = {p1, p2}
    MaxRecord = 2
    Call = {k1, k2}
    Rebuilder = {b1}
SPECIFICATION FairSpec
INVARIANTS
    TypeOK
    RowIndexed
    NoOrphan
    RemoteRowReached
PROPERTIES
    ConnectionShown
CHECK_DEADLOCK FALSE
