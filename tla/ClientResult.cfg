SPECIFICATION Spec
CONSTANTS
    SnapsLen = 5
    Previews <- MCPreviews
    Files <- MCFiles
    Unreadable <- MCUnreadable
    Targets <- MCTargets
    Bytes = {181}
    MaxSize = 1
    CameraIds = {3, 4}
    CacheLines = 4
    CacheLimit = 2
    ReturnLimit = 1
    MaxPreviews = 0
    MaxPosts = 1
INVARIANTS
    ZeroMeansSuccess
