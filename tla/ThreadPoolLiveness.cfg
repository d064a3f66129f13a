\* Two workers of which a stuck task may hold one, one submitter.
CONSTANTS
    Tasks = {t1, t2, t3}
    Priorities <- MCPriorities
    IntMax <- MCIntMax
    MaxQueueSize = 2
    NumThreads = 2
    Submitters = {s1}
    Stuck = {t1}
    NoTask = NoTask
SPECIFICATION FairSpec
PROPERTIES
    NoStarvation
    TimedShutdownReturns
    PlainShutdownReturns
