SPECIFICATION Spec
CONSTANTS
    Streams <- LateSync
    Seekable <- LateSync
    SubstreamCounts = {0, 1, 2}
    MinAuLen = 2
    MaxAuLen = 5
    AuAlign = 1
    MsiPeek = 3
    MsiEnd = 3
    ScanKeep = 1
    MaxRetained = 4
    DefaultAuLen = 3
    CompactAt = 4
    MaxPending = 10
    MaxResets = 0
INVARIANTS
    NeverBothRefuse
CHECK_DEADLOCK FALSE
