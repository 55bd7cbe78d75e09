SPECIFICATION FairSpec
CONSTANTS
    Calls = {k1, k2}
    Procedure <- AllAdd
    Partial = {}
    Standard = {"add"}
    Streaming = {"count"}
    Yields = 2
    MaxOngoing = 3
    Buffers = {b1}
    SerialFirst = TRUE
    MaySignal = {}
    MayCrash = {"module"}
    None = None
PROPERTIES
    EarlyHandlesResolve
CHECK_DEADLOCK FALSE
