CONSTANTS
    Messages = {m1, m2, m3, m4}
    Loggers = {l1, l2, l3}
    SinkMayFail = TRUE
SPECIFICATION FairSpec
INVARIANTS
    HeldInOrder
    NoLostWakeup
    FlushedOnReturn
PROPERTIES
    ImplementsLogService
    ShutdownReturns
    EventuallyWritten
