CONSTANTS
    Tasks = {t1, t2, t3}
    Stuck = {t1}
    IoThreads = 2
    PoolMayAbandon = TRUE
    SinkMayFail = TRUE
SPECIFICATION FairSpec
INVARIANTS
    UsedOnlyIfAbandoned
    LogComplete
PROPERTIES
    StopsWhenTold
    FailureEnds
