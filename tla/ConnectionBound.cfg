CONSTANTS
    Conns = {c1, c2, c3, c4}
    RequestKinds = {}
    MaxKeepaliveRequests = 2
    EnableKeepalive = FALSE
    MaxConnections = 1
    IoThreads = 1
    MaxQueueSize = 0
    PoolMayAbandon = TRUE
    Stuck = {}
SYMMETRY MCSymmetry
SPECIFICATION Spec
INVARIANTS
    ConnectionBound
