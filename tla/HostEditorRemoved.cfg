\* Two hosts with two credentials, three operations of which two overlap.
CONSTANTS
    Host = {1, 2}
    Cred = {c1, c2}
    Op = {o1, o2}
    MaxReplies = 2
    MaxStarts = 3
SPECIFICATION EditorSpec
INVARIANT SecretGone
CHECK_DEADLOCK FALSE
