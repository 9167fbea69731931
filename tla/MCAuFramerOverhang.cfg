SPECIFICATION SpecChunks
CONSTANTS
    Streams <- Overhanging
    Seekable <- Overhanging
    SubstreamCounts = {0, 1, 2}
    MinAuLen = 2
    MaxAuLen = 5
    AuAlign = 1
    MsiPeek = 3
    MsiEnd = 3
    ScanKeep = 1
    MaxRetained = 30
    DefaultAuLen = 3
    CompactAt = 4
    MaxPending = 40
    MaxResets = 0
INVARIANTS
    ChunkingIrrelevant
CHECK_DEADLOCK FALSE
