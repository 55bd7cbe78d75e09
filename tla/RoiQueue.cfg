SPECIFICATION Spec
CONSTANTS
    Users = {u1, u2, u3, u4}
    Modulus = 5
    None = None
SYMMETRY Symmetry
INVARIANTS TypeOK UniqueIds Accounted CounterWithinDemand
PROPERTY RefinesAllocator
