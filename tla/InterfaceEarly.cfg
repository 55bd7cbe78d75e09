SPECIFICATION FairSpec
CONSTANTS
    Ids = {i1}
    Sources = {s1}
    Getters = {g1}
    MaxMessages = 1
    g1 = g1
    g2 = g2
    Asks <- AnyKind
    Discipline = "sole"
    None = None
PROPERTY EarlyGettersReturn
CHECK_DEADLOCK FALSE
