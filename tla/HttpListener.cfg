SPECIFICATION FairSpec
CONSTANTS
    Concurrency = {0, 1, 2, 3}
    MaxReady = 3
    MaxArrivals = 3
    MaxErrors = 2
INVARIANTS
    OneChain
    ReturnsAlone
PROPERTIES
    SignalEnds
    ConnectionsTaken
CHECK_DEADLOCK FALSE
