\* A receive timeout that crosses the loss of the connection leaves the IOActor waiting for the end of a connection that has already ended.
SPECIFICATION FairSpec
CONSTANTS
    Ids = {1, 2}
    Values = {0, 1, 2}
    Rejected = {}
    Decoders = {"d1"}
    MaxConnections = 3
    FailCommandOnConnecting = FALSE
    ReceiveTimeoutDefined = TRUE
    InitialSettings <- WithDatabase
    MaxWriteBatchSize = 2
    FaultKinds = {"drop", "receive"}
    MaxFaults = 2
    SplitReplies = FALSE
    Threads = {"t1"}
    Workload <- Pair
    Blocking = FALSE
PROPERTIES
    ReconnectingEnds
\* The system stops when all work is done.
CHECK_DEADLOCK FALSE
