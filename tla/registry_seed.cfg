SPECIFICATION FairSpec
CONSTANTS
    Workers = {w1, w2, w3}
    Seeds <- SeedList
    Steps = 2
    MaxCrashes = 2
INVARIANTS TypeOK SeededOnce ServingIsSeeded
PROPERTIES EveryWorkerServes ImplementsCatalog
