SPECIFICATION Spec
CONSTANTS
    Channels = 2
    Layouts <- SmallLayouts
    Values = {0, 1}
    Empty = 0
    Unknown = 2
    WarpModes = {1}
    NotSignalled = 0
    Payloads <- SmallPayloads
    FrameCounts = {1, 2}
    MaxPending = 3
    MaxUpdatesPerBlock = 2
    MaxPosition = 4
    MaxArrivals = 4
INVARIANTS
    TypeOK
    DeliveredOnTime
    SnapshotInForce
    FollowingChangedIsEnough
PROPERTIES
    MeetsContract
CHECK_DEADLOCK FALSE
