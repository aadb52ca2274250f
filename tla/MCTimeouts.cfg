\* Receive timeouts racing late replies, connect timeouts and failed connects, up to two of them over three connections, with reads that cut replies in two: every reply reaches its own request, and no late one a request of the next connection.
SPECIFICATION Spec
CONSTANTS
    Ids = {1, 2}
    Values = {0, 1, 2}
    Rejected = {1}
    Decoders = {"d1"}
    MaxConnections = 3
    FailCommandOnConnecting = FALSE
    ReceiveTimeoutDefined = TRUE
    InitialSettings <- WithDatabase
    MaxWriteBatchSize = 2
    FaultKinds = {"receive", "connect"}
    MaxFaults = 2
    SplitReplies = TRUE
    Threads = {"t1"}
    Workload <- Refusing
    Blocking = FALSE
INVARIANTS
    RepliesReachTheirRequests
\* The system stops when all work is done.
CHECK_DEADLOCK FALSE
