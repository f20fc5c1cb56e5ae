SPECIFICATION FairSpec
CONSTANTS
    Creators = {t1, t2}
    Clients = {c1}
    CacheLimit = 3
    ReturnLimit = 2
    MaxPreviews = 4
INVARIANTS
    PicturesMatchIds
    NextListingIsNew
    NothingMissed
    PreviewInv
PROPERTIES
    ClientsCatchUp
