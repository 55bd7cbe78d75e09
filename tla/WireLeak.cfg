SPECIFICATION Spec
CONSTANTS
    Calls = {k1}
    Procedure <- AllAdd
    Partial = {}
    Standard = {}
    Streaming = {"count"}
    Yields = 2
    MaxOngoing = 3
    Buffers = {b1}
    SerialFirst = TRUE
    MaySignal = {}
    MayCrash = {}
    None = None
INVARIANTS
    BuffersFreed
CHECK_DEADLOCK FALSE
