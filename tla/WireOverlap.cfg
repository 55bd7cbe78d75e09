SPECIFICATION Spec
CONSTANTS
    Calls = {k1, k2}
    Procedure <- AllAdd
    Partial = {}
    Standard = {"add"}
    Streaming = {"count"}
    Yields = 2
    MaxOngoing = 3
    Buffers = {b1, b2}
    SerialFirst = FALSE
    MaySignal = {}
    MayCrash = {}
    None = None
INVARIANTS
    AnswersIntact
CHECK_DEADLOCK FALSE
