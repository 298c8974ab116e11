SPECIFICATION Spec
CONSTANTS
    b1 = b1
    b2 = b2
    s1 = s1
    s2 = s2
    Buys = {b1, b2}
    Sells = {s1, s2}
    Tries = 1
    MaxOrders = 2
    MaxCuts = 1
CHECK_DEADLOCK FALSE
INVARIANTS
    OrderInv
    FlatWhenClosed
PROPERTIES
    ClosingEnds
