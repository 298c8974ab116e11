SPECIFICATION Spec
CONSTANTS
    o1 = o1
    o2 = o2
    none = none
    unlimited = unlimited
    NoOp = none
    Unlimited = unlimited
    Ops = {o1, o2}
    Sources = {1, 2}
    Delay = 1
    Waits = {1, 3}
    Recordings <- TwoRecordings
    Gaps = {0, 3}
    MaxReach = 2
    MaxPush = 1
    MaxTasks = 2
INVARIANTS
    EverythingDueDone
    IInv
    NoSpuriousTimeout
PROPERTIES
    BacktestEnds
    ImplementsVirtualTime
    RoundTripLatency
    NoEarlyTimeout
