SPECIFICATION Spec
CONSTANTS
    SnapsLen = 5
    Previews <- MCPreviews
    Files <- MCFiles
    Unreadable <- MCUnreadable
    Targets <- MCTargets
    Bytes = {0}
    MaxSize = 0
    CameraIds = {3, 4}
    CacheLines = 4
    CacheLimit = 2
    ReturnLimit = 1
    MaxPreviews = 4
    MaxPosts = 0
INVARIANTS
    ListedUrlsServed
    MaskTellsData
    RoutesApart
