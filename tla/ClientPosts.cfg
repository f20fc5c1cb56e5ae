SPECIFICATION Spec
CONSTANTS
    SnapsLen = 5
    Previews <- MCPreviews
    Files <- MCFiles
    Unreadable <- MCUnreadable
    Targets <- MCTargets
    Bytes = {0, 181}
    MaxSize = 3
    CameraIds = {3, 4}
    CacheLines = 4
    CacheLimit = 2
    ReturnLimit = 1
    MaxPreviews = 0
    MaxPosts = 2
INVARIANTS
    PostedAsSent
    LostOnlyIfRefused
