SPECIFICATION Spec
CONSTANTS
    Calls = {k1, k2}
    Procedure <- AllAdd
    Partial = {}
    Standard = {"add"}
    Streaming = {"count"}
    Yields = 2
    MaxOngoing = 3
    Buffers = {b1, b2}
    SerialFirst = TRUE
    MaySignal = {}
    MayCrash = {}
    None = None
INVARIANTS
    NoCallLost
CHECK_DEADLOCK FALSE
