SPECIFICATION LogSpec
CONSTANTS
    i1 = i1
    i2 = i2
    i3 = i3
    Ids = {i1, i2, i3}
    Prices = {1, 2}
    MaxSize = 3
    MaxEvents = 5
SYMMETRY Symmetry
CHECK_DEADLOCK FALSE
INVARIANTS
    PositionInv
    ClosingOrderCloses
    MoneyAccounted
    OpenOrdersExact
