SPECIFICATION Spec
CONSTANTS
    Ids = {i1, i2}
    Sources = {s1, s2}
    Getters = {g1, g2}
    MaxMessages = 3
    g1 = g1
    g2 = g2
    Asks <- AnyKind
    Discipline = "free"
    None = None
SYMMETRY Symmetry
INVARIANT DeliveredComplete
CHECK_DEADLOCK FALSE
