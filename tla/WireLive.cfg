SPECIFICATION FairSpec
CONSTANTS
    Calls = {k1, k2}
    Procedure <- AllAdd
    Partial = {k1}
    Standard = {"add"}
    Streaming = {"count"}
    Yields = 2
    MaxOngoing = 3
    Buffers = {b1, b2}
    SerialFirst = TRUE
    MaySignal = {}
    MayCrash = {"module"}
    None = None
INVARIANTS
    RunsIntact
    AnswersIntact
PROPERTIES
    HandlesReturn
    RegisteredHandlesResolve
CHECK_DEADLOCK FALSE
