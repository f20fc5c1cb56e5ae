SPECIFICATION FairSpec
CONSTANTS
    Handlers = {h1, h2}
    Timeouts = {3}
    SnapCounts = {1, 3}
    SnapsKept = 2
    MaxSamplings = 2
    MaxSnaps = 6
INVARIANTS
    SamplingInv
    SecondNeedsRival
    SnapsInOrder
    LimitsRespected
    StopIsPrompt
PROPERTIES
    FinishedIsFinal
    RequestsAnswered
