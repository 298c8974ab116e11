SPECIFICATION Spec
CONSTANTS
    w1 = w1
    w2 = w2
    Waiters = {w1, w2}
    MaxVolume = 3
    MaxWaits = 2
SYMMETRY Symmetry
CHECK_DEADLOCK FALSE
INVARIANTS
    FillsInv
    NobodyWaitsInVain
