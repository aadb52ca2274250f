\* A connection lost between a transaction and a request the IOActor rejects: the wrong request is removed, and the executed transaction is never completed.
SPECIFICATION FairSpec
CONSTANTS
    Ids = {1, 2, 3, 4}
    Values = {0, 1, 2}
    Rejected = {}
    Decoders = {"d1"}
    MaxConnections = 2
    FailCommandOnConnecting = FALSE
    ReceiveTimeoutDefined = TRUE
    InitialSettings <- WithDatabase
    MaxWriteBatchSize = 2
    FaultKinds = {"drop"}
    MaxFaults = 1
    SplitReplies = FALSE
    Threads = {"t1", "t2"}
    Workload <- Transacting
    Blocking = FALSE
PROPERTIES
    TransactionsAreCompletedOnceExecuted
\* The system stops when all work is done.
CHECK_DEADLOCK FALSE
