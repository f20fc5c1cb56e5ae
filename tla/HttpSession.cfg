SPECIFICATION FairSpec
CONSTANTS
    Limit = 3
    Timeout = 2
    MaxRequests = 7
INVARIANTS
    NoLostWakeup
    SessionInv
PROPERTIES
    NoEarlyTimeout
    ImplementsPipeline
    EventuallyLetGo
