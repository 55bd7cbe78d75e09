SPECIFICATION Spec
CONSTANTS
    Calls = {k1, k2}
    Procedure <- CountAndAbsent
    Partial = {}
    Standard = {"add"}
    Streaming = {"count"}
    Yields = 2
    MaxOngoing = 1
    Buffers = {b1, b2}
    SerialFirst = TRUE
    MaySignal = {"module", "host"}
    MayCrash = {}
    None = None
SYMMETRY Symmetry
INVARIANTS
    RunsIntact
    AnswersIntact
    NoHandlePanic
PROPERTIES
    RefinesCalls
CHECK_DEADLOCK FALSE
