SPECIFICATION Spec
CONSTANTS
    a = a
    b = b
    c = c
    Objects = {a, b, c}
    MaxId = 5
    MaxPublications = 2
SYMMETRY Symmetry
CHECK_DEADLOCK FALSE
INVARIANTS
    LinksInv
    CalledOnceInOrder
PROPERTIES
    StaysSubscribed
