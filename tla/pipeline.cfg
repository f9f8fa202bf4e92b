SPECIFICATION FairSpec
CONSTANTS
    MaxEvents = 2
    BatchSize = 1
    Capacity = 1
    Calls = 2
    Sends = 2
    MaxTopic = 2
    Queries = {redis, delta}
    MaxPerTrigger = 2
    MaxRetired = 1
INVARIANTS TypeOK NothingVanishes CopiesAreSends StoresFollowTopic
PROPERTIES StopsWhenTold QueriesCatchUp ImplementsLog
