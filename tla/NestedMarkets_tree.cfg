SPECIFICATION Spec
CONSTANTS
    r = r
    a = a
    b = b
    c = c
    i1 = i1
    i2 = i2
    Root = r
    Nested = {a, b, c}
    Parent <- MCParent
    Ids = {i1, i2}
    MaxVolume = 1
SYMMETRY Symmetry
CHECK_DEADLOCK FALSE
INVARIANTS
    TreeInv
    CancellableByOrigin
