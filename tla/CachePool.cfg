\* Three threads, any number of calls.
SPECIFICATION Spec
CONSTANTS
    t1 = t1
    t2 = t2
    t3 = t3
    None = None
    Threads <- MCThreads
INVARIANTS
    TypeOK
    CacheExclusive
    NoCacheLost
    PoolBounded
PROPERTIES
    LockReleased
    ImplementsPool
