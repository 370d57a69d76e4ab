SPECIFICATION Spec
CONSTANTS
    Keys = {"v", "p"}
    VideoKeys = {"v"}
    Users = {"u1", "u2"}
    Requests <- FavoriteRequests
    Kind <- KindOf
    Target <- TargetOf
    Client <- ClientOf
    Worker = Worker
    Collector = Collector
    QueueCap = 1
    DiskCap = 0
    Truncated = {"v"}
    MaxCrashes = 0
    NoKey = NoKey
    NoEntry = NoEntry
CHECK_DEADLOCK FALSE
INVARIANTS TypeOK QueuedOnce 
