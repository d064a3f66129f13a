CONSTANTS
    Conns = {c1, c2}
    RequestKinds = {"fast"}
    MaxKeepaliveRequests = 1
    EnableKeepalive = TRUE
    MaxConnections = 1
    IoThreads = 1
    MaxQueueSize = 1
    PoolMayAbandon = TRUE
    Stuck = {}
SYMMETRY MCSymmetry
SPECIFICATION Spec
INVARIANTS
    ActiveWithinLimit
