SPECIFICATION FairSpec
CONSTANTS
    Threads = {t1, t2}
    Objects = {o1, o2}
    CacheLines = 1
    Needed = 2
    TimeLimit = 0
    MaxPictures = 5
    MaxTime = 1
INVARIANTS
    CacheInv
PROPERTIES
    LossExplained
    ReadyIsShown
