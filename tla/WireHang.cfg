SPECIFICATION FairSpec
CONSTANTS
    Calls = {k1}
    Procedure <- AllAdd
    Partial = {}
    Standard = {"add"}
    Streaming = {"count"}
    Yields = 2
    MaxOngoing = 3
    Buffers = {b1}
    SerialFirst = TRUE
    MaySignal = {"module"}
    MayCrash = {}
    None = None
PROPERTIES
    HandlesResolve
CHECK_DEADLOCK FALSE
