SPECIFICATION Spec
CONSTANTS
    i1 = i1
    i2 = i2
    i3 = i3
    o1 = o1
    o2 = o2
    o3 = o3
    none = none
    NoId = none
    Ids = {i1, i2}
    Ops = {o1, o2}
    MaxVolume = 2
CHECK_DEADLOCK FALSE
PROPERTIES
    ViewImplementsExchange
    OperationsEnd
