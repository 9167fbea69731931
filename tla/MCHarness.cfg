SPECIFICATION Spec
CHECK_DEADLOCK FALSE
CONSTANTS
    Options <- MCOptions
    ChunkLengths = {1, 4}
    MaxAus = 2
    Objects <- MCObjects
    BedCount = 1
    Positions <- MCPositions
    Nowhere = Nowhere
INVARIANTS
    TypeOK
    MapTrue
    NoFalseAlarm
    PassMeansResetKept
    CursorMissesNothing
    RendererInStep
PROPERTIES
    Terminates
