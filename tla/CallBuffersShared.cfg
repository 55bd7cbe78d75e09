SPECIFICATION Spec
CONSTANTS
    Wires = {w1, w2, w3}
    Started = {w3}
    Apart = FALSE
    Calls = {c1, c2, c3}
    Standard = {c1}
    Streaming = {c2}
    Asked <- MoreOfStarted
    Pieces = 2
    MaxOngoing = 2
    Buffers = {b1, b2, b3}
    None = None
SYMMETRY Symmetry
INVARIANT UniqueWires
CHECK_DEADLOCK FALSE
