SPECIFICATION Spec
CONSTANTS
    Timestamps = {none, p, q}
    NoPts = none
    MaxPendingInput = 4
    MaxPendingChunks = 2
    MaxBytes = 5
    MaxResets = 1
INVARIANTS
    TypeOK
    NeverWrongPts
    AttributionExact
CHECK_DEADLOCK FALSE
