CONSTANTS
    Conns = {c1, c2}
    RequestKinds = {"fast"}
    MaxKeepaliveRequests = 1
    EnableKeepalive = FALSE
    MaxConnections = 1
    IoThreads = 1
    MaxQueueSize = 1
    PoolMayAbandon = TRUE
    Stuck = {}
SPECIFICATION FairSpec
PROPERTIES
    DrainAlwaysCompletes
