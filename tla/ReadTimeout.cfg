CONSTANTS
    Conns = {c1}
    RequestKinds = {"fast"}
    MaxKeepaliveRequests = 2
    EnableKeepalive = TRUE
    MaxConnections = 1
    IoThreads = 1
    MaxQueueSize = 1
    PoolMayAbandon = TRUE
    Stuck = {}
SPECIFICATION Spec
INVARIANTS
    EndedSessionIsNotRead
