SPECIFICATION FairSpec
CONSTANTS
    Users = {u1}
    Windows = {0, 1}
    DayLen = 2
    Preexisting = FALSE
    Range = {}
    Attempts = 1
    WithBackfill = FALSE
    WithFailures = FALSE
    MaxCrashes = 0
    MaxTime = 3
INVARIANT RowsAreMerged
