SPECIFICATION Spec
CONSTANTS
    Calls = {k1, k2}
    Procedure <- AllAdd
    Partial = {k1, k2}
    Standard = {"add"}
    Streaming = {"count"}
    Yields = 2
    MaxOngoing = 1
    Buffers = {b1, b2}
    SerialFirst = TRUE
    MaySignal = {}
    MayCrash = {}
    None = None
SYMMETRY Symmetry
INVARIANTS
    RunsIntact
CHECK_DEADLOCK FALSE
