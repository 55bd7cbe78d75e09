SPECIFICATION FairSpec
CONSTANTS
    Ids = {i1, i2}
    Sources = {s1, s2}
    Getters = {g1, g2}
    MaxMessages = 3
    g1 = g1
    g2 = g2
    Asks <- SomeKinds
    Discipline = "mixed"
    None = None
INVARIANTS
    TypeOK
    NoPanic
    OwnMessage
    DeliveredComplete
PROPERTIES
    GettersReturn
CHECK_DEADLOCK FALSE
