SPECIFICATION FairSpec
CONSTANTS
    Keys = {"v", "p"}
    VideoKeys = {"v"}
    Users = {"u1", "u2"}
    Requests <- PlayRequests
    Kind <- KindOf
    Target <- TargetOf
    Client <- ClientOf
    Worker = Worker
    Collector = Collector
    QueueCap = 1
    DiskCap = 1
    Truncated = {"v"}
    MaxCrashes = 1
    NoKey = NoKey
    NoEntry = NoEntry
CHECK_DEADLOCK FALSE
 
PROPERTIES  Reconciles UnderCapAgain
