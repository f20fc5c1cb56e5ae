SPECIFICATION Spec
CONSTANTS
    Threads = {t1}
    Objects = {o1, o2}
    CacheLines = 2
    Needed = 2
    TimeLimit = 0
    MaxPictures = 7
    MaxTime = 0
INVARIANTS
    PreviewsWellFormed
    PreviewOfOneObject
SYMMETRY Symmetry
