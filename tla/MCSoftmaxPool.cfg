SPECIFICATION Spec
CONSTANTS
    PoolLimit = 4
    MinRows = 6
    MaxRows = 6
    MaxThreads = 6
    MaxCalls = 2
    MaxSpurious = 1
INVARIANTS TypeOK ContextIsLive EachRowOnce
PROPERTIES CallsReturn IsForkJoin
