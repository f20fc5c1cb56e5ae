SPECIFICATION FairSpec
CONSTANTS
    Threads = {t1, t2}
    Objects = {o1}
    CacheLines = 1
    Needed = 1
    TimeLimit = 0
    MaxPictures = 5
    MaxTime = 1
    Clients = {c1}
    CacheLimit = 2
    ReturnLimit = 2
    MaxPreviews = 5
INVARIANTS
    NextIsNews
PROPERTIES
    ImplementsFeed
    ReadyIsSeen
