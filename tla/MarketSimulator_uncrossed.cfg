SPECIFICATION Spec
CONSTANTS
    i1 = i1
    i2 = i2
    i3 = i3
    none = none
    NoOrder = none
    Ids = {i1, i2}
    Prices = {1, 2, 3}
    Types = {"Limit"}
    MaxVolume = 2
    MaxQuote = 1
    MaxTick = 3
SYMMETRY Symmetry
INVARIANTS
    OwnOrdersUncrossed
