SPECIFICATION Spec
CONSTANTS
    Users = {u1, u2, u3, u4}
    Modulus = 3
    None = None
INVARIANT UniqueIds
