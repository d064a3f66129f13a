\* Three workers, two submitters, four tasks, a queue of three.
CONSTANTS
    Tasks = {t1, t2, t3, t4}
    Priorities <- MCPriorities
    IntMax <- MCIntMax
    MaxQueueSize = 3
    NumThreads = 3
    Submitters = {s1, s2}
    Stuck = {}
    NoTask = NoTask
SYMMETRY MCSymmetry
SPECIFICATION Spec
INVARIANTS
    TypeOK
    HeldExactlyOnce
    NoLostWakeup
    NoSleeperAfterShutdown
    GracefulShutdownExecutesAll
    NoJoinableThreadLeft
PROPERTIES
    DispatchOrder
    AbandonedTakesNoTask
    ImplementsTaskService
