SPECIFICATION FairSpec
CONSTANTS
    t1 = t1  t2 = t2
    Threads = {t1, t2}
    Lane <- LaneOf
    NumPages = 2
    AccessBlocks = 2
    RegionSize = 2
    PageSize = 5
    MaskBits = 2
    MaskBytes = 1
    MinChunkSize = 1
    WasteFactor = 2
    Sizes = {1, 2}
    MaxRequests = 4
INVARIANTS CountExact MasksExact
PROPERTIES Implements CallsEnd
CHECK_DEADLOCK FALSE
