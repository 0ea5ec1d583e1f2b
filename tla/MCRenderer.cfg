\* Two sessions with three tabs; one entry, two calls at a time, two of the user's making;
\* a handle above what a double holds exactly, two events; two hosts with two fingerprints
\* and two attempts.
CONSTANTS
    Session = {s1, s2}
    Tab = {t1, t2, t3}
    Name = {e1}
    Call = {k1, k2}
    MaxCalls = 2
    Id = {0, 17}
    Payload = {0, 1}
    Precision = 16
    Slot = {l1}
    MaxEvents = 2
    Host = {h1, h2}
    Fingerprint = {f1, f2}
    Attempt = {a1, a2}
    MaxAttempts = 2
SPECIFICATION MCSpec
INVARIANTS
    BarMirrors
    PanelsOnOpenSessions
    SettledListing
    CrossesIntact
    HostKeyAsked
CHECK_DEADLOCK FALSE
