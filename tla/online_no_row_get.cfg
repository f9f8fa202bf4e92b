CONSTANTS
    Users = {u1}
    Fields = {f1, f2}
    Windows = {0}
    TTL = 3
    RefreshTTL = 3
    StaleBelow = 2
    RefreshThreshold = 2
    Period = 3
    DagSample = 1
    RefreshSample = 1
    Attempts = 2
    FnFields = {}
    BulkFields = {f1, f2}
    RowHasGet = FALSE
    Deployed = {"streaming"}
    MaxPending = 1
    MaxTime = 2
SPECIFICATION FairSpec
PROPERTIES BatchLands
