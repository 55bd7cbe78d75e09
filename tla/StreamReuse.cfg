SPECIFICATION FairSpec
CONSTANTS
    Receivers = {r1, r2}
    MaxBytes = 2
    MaxChunks = 2
    None = None
PROPERTY OthersKeepTheirEntry
CHECK_DEADLOCK FALSE
