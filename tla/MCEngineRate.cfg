SPECIFICATION OffsetsSpec
CONSTANTS
    Configs <- SmallConfigs
    NoConfig = NoConfig
    Speakers <- SmallSpeakers
    Selections <- SmallSelections
    MaxAus = 3
    MaxSerial = 2
    MaxCalls = 1
INVARIANTS
    InputOffsetTrue
