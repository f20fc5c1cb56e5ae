SPECIFICATION Spec
CONSTANTS
    Handlers = {h1, h2}
    Timeouts = {2}
    SnapCounts = {0}
    SnapsKept = 2
    MaxSamplings = 2
    MaxSnaps = 4
INVARIANTS
    OneRunning
