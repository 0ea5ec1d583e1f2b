\* Two hosts with two fingerprints and two attempts.
CONSTANTS
    Host = {h1, h2}
    Fingerprint = {f1, f2}
    Attempt = {a1, a2}
    MaxAttempts = 2
SPECIFICATION FlowSpec
INVARIANT ErrorCodeKept
CHECK_DEADLOCK FALSE
