\* No deadlock check: after MaxLoads calls the threads stop.
SPECIFICATION Spec
CONSTANTS
    t1 = t1
    t2 = t2
    t3 = t3
    r1 = r1
    r2 = r2
    r3 = r3
    Threads <- MCThreads
    Resources <- MCResources
    concurrent_limit = 2
    MaxLoads = 2
    None = None
INVARIANTS
    TypeOK
    MemoryBounded
    UsersKeepResources
PROPERTIES
    EveryLoadReturns
CHECK_DEADLOCK FALSE
