CONSTANTS
    Conns = {c1, c2}
    RequestKinds = {"fast", "compute", "tooLarge"}
    MaxKeepaliveRequests = 2
    EnableKeepalive = TRUE
    MaxConnections = 1
    IoThreads = 1
    MaxQueueSize = 1
    PoolMayAbandon = TRUE
    Stuck = {}
SYMMETRY MCSymmetry
SPECIFICATION Spec
INVARIANTS
    CountExact
    AcceptorArmed
    OneOperation
    DrainNoticed
    TimerOnlyWhileReading
    ReadsTimed
PROPERTIES
    ImplementsExchange
