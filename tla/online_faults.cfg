CONSTANTS
    Users = {u1}
    Fields = {f1, f2, f3}
    Windows = {0}
    TTL = 3
    RefreshTTL = 2
    StaleBelow = 2
    RefreshThreshold = 2
    Period = 3
    DagSample = 1
    RefreshSample = 1
    Attempts = 3
    FnFields = {f1, f2}
    BulkFields = {f1, f2, f3}
    RowHasGet = TRUE
    Deployed = {"streaming", "refresher", "bulk", "lru", "rdb"}
    MaxPending = 0
    MaxTime = 3
SPECIFICATION FairSpec
INVARIANTS ServedWhole
PROPERTIES ImplementsTTLCache BatchLands
