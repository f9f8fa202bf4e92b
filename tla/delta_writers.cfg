SPECIFICATION FairSpec
CONSTANTS
    Users = {u1}
    Windows = {0, 1}
    DayLen = 2
    Preexisting = FALSE
    Range = {0}
    Attempts = 1
    WithBackfill = TRUE
    WithFailures = TRUE
    MaxCrashes = 1
    MaxTime = 2
INVARIANTS TypeOK WrittenIsStored OneBatchPerDay
PROPERTIES RowsGoOnlyForABatch ReplayChangesNothing Settles
