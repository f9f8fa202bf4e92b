CONSTANTS
    Users = {u1, u2}
    Fields = {f1, f2}
    Windows = {0, 1}
    TTL = 3
    RefreshTTL = 3
    StaleBelow = 2
    RefreshThreshold = 2
    Period = 3
    DagSample = 2
    RefreshSample = 2
    Attempts = 3
    FnFields = {}
    BulkFields = {f1, f2}
    RowHasGet = TRUE
    Deployed = {"streaming", "airflow", "api", "failures"}
    MaxPending = 1
    MaxTime = 4
SPECIFICATION Spec
INVARIANTS TypeOK EveryKeyExpires IndexCoversKeys
PROPERTIES  DeadlineNeverMovesBack ComputedAtNeverRegresses ImplementsTTLCache
SYMMETRY UserSymmetry
