SPECIFICATION Spec
CONSTANTS
    Readers = {r1, r2}
    Writers = {w1, w2}
    PIPESIZE = 2
    UintMax = 3
    MaxCount = 2
    Bytes = {x, y}
    Nobody = Nobody
SYMMETRY EndSymmetry
INVARIANTS NoMissedWakeup EndsHonoured
PROPERTIES IsFifo
CHECK_DEADLOCK FALSE
