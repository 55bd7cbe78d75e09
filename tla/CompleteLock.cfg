SPECIFICATION FairSpec
CONSTANTS
    Waiters = {w1, w2, w3}
    Completers = {c1, c2}
    Poisoners = {p1}
    None = None
INVARIANTS TypeOK NoLostWakeup
PROPERTIES RefinesSignal WaitersReturn
CHECK_DEADLOCK FALSE
