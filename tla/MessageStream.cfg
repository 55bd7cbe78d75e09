SPECIFICATION FairSpec
CONSTANTS
    Receivers = {r1, r2}
    MaxBytes = 2
    MaxChunks = 2
    None = None
INVARIANTS
    TypeOK
    InOrder
    NothingLost
    EndIsComplete
PROPERTIES
    FailsDrained
    StreamsReturn
CHECK_DEADLOCK FALSE
