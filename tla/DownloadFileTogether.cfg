\* Two downloads to one path.
CONSTANTS
    Path = {d1}
    Transfer = {t1, t2}
    Chunks = 2
SPECIFICATION DownloadSpec
INVARIANT NeverTruncated
CHECK_DEADLOCK FALSE
