SPECIFICATION Spec
CONSTANTS
    Configs <- SmallConfigs
    NoConfig = NoConfig
    Speakers <- SmallSpeakers
    Selections <- SmallSelections
    MaxAus = 3
    MaxSerial = 1
    MaxCalls = 1
INVARIANTS
    TypeOK
    DiscontinuityExact
    ParsesCleanly
    SelectionHonoured
    CountsAddUp
    LayoutIdentity
    RolesFollowStream
    MetadataMatchesBlock
