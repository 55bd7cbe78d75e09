SPECIFICATION FairSpec
CONSTANTS
    Waiters = {w1, w2, w3}
    Completers = {c1, c2}
    Poisoners = {p1}
    None = None
PROPERTY WaitersReturn
CHECK_DEADLOCK FALSE
