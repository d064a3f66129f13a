CONSTANTS
    Conns = {c1, c2}
    RequestKinds = {"compute"}
    MaxKeepaliveRequests = 1
    EnableKeepalive = FALSE
    MaxConnections = 1
    IoThreads = 1
    MaxQueueSize = 1
    PoolMayAbandon = TRUE
    Stuck = {c1}
SPECIFICATION FairSpec
PROPERTIES
    DrainCompletes
    RequestsAreAnswered
    SilentConnectionUncounted
