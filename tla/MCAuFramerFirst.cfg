SPECIFICATION Spec
CONSTANTS
    Streams <- FirstDamaged
    Seekable <- FirstDamaged
    SubstreamCounts = {0, 1, 2}
    MinAuLen = 2
    MaxAuLen = 5
    AuAlign = 1
    MsiPeek = 3
    MsiEnd = 3
    ScanKeep = 1
    MaxRetained = 6
    DefaultAuLen = 3
    CompactAt = 4
    MaxPending = 40
    MaxResets = 0
INVARIANTS
    OrdinalsExact
CHECK_DEADLOCK FALSE
