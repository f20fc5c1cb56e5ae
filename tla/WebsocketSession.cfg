SPECIFICATION FairSpec
CONSTANTS
    Timeout = 2
    MaxFrames = 4
INVARIANTS
    PopsOnlyMessages
    SessionInv
PROPERTIES
    NoEarlyClose
    StrandReleased
    MessagesTaken
    ErrorEndsWorker
