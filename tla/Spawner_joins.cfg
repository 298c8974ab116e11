SPECIFICATION Spec
CONSTANTS
    t1 = t1
    t2 = t2
    o = o
    Tasks = {t1, t2}
    Owner = o
    MaxResets = 3
CHECK_DEADLOCK FALSE
INVARIANTS
    JoinInv
    ResumedOnce
    FrameOutlivesUse
PROPERTIES
    ImplementsTaskGroup
    ClosingComesThrough
