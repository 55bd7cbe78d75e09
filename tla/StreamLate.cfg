SPECIFICATION FairSpec
CONSTANTS
    Receivers = {r1, r2}
    MaxBytes = 2
    MaxChunks = 2
    None = None
PROPERTY AllStreamsReturn
CHECK_DEADLOCK FALSE
