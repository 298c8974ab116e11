SPECIFICATION FeedSpec
CONSTANTS
    Prices <- Levels
    Depth = 1
    Interval = 1
    MaxVolume = 2
    MaxLevel = 1
    MaxGap = 2
    MaxTime = 2
    MaxDeals = 2
CHECK_DEADLOCK FALSE
INVARIANTS
    BookInv
    DealsOnce
    ShownLag
