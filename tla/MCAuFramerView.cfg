SPECIFICATION FairViewedSpec
CONSTANTS
    Streams <- AllStreams
    Seekable <- SeekTargets
    SubstreamCounts = {0, 1, 2}
    MinAuLen = 2
    MaxAuLen = 5
    AuAlign = 1
    MsiPeek = 3
    MsiEnd = 3
    ScanKeep = 1
    MaxRetained = 6
    DefaultAuLen = 3
    CompactAt = 4
    MaxPending = 21
    MaxResets = 1
INVARIANTS
    TypeOK
    InBounds
    SearchKnowsDamage
    SkipsLeadToSync
    OrdinalsExact
    NeverBothRefuse
PROPERTIES
    ImplementsLog
    MeetsContract
    EventuallyCaughtUp
CHECK_DEADLOCK FALSE
