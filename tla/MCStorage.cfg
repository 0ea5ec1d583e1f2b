\* Two names with two fingerprints and three trusts; two pulls and an upsert; two hosts with
\* two credentials and three operations; one path with two transfers of two chunks; three
\* snippets; three widths and two writes.
CONSTANTS
    Name = {n1, n2}
    Key = {f1, f2}
    NoKey = NoKey
    Call = {k1, k2, k3}
    Pull = {p1, p2}
    Upsert = {u1}
    Host = {1, 2}
    Cred = {c1, c2}
    Op = {o1, o2}
    MaxReplies = 2
    MaxStarts = 3
    Path = {d1}
    Transfer = {t1, t2}
    Chunks = 2
    Snippet = {1, 2, 3}
    MaxRequests = 2
    Width = {190, 300, 410}
    MaxWrites = 2
SPECIFICATION MCSpec
SYMMETRY Alike
INVARIANTS
    FileIsCache
    TrustKept
    RetryAccepted
    SchemaWhenReady
    OnlyOpenTxnRefuses
    OpenTxnCarriesUpgrade
    BatchHasOwner
    AllOrNothing
    AckedOrOwnerTold
    RefsSound
    ViewSettles
    PublishedWhole
    SentWhole
    NoStrayPart
    HighlightOnRow
    SettledSaved
PROPERTIES
    SecretsKept
CHECK_DEADLOCK FALSE
