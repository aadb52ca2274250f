\* A thread that waits for every result before its next request, and then quits, over connections that fail once: every command is completed, reconnecting ends, and after QUIT the listener, its IOActor and its decoders end.
SPECIFICATION FairSpec
CONSTANTS
    Ids = {1, 2, 3}
    Values = {0, 1, 2}
    Rejected = {}
    Decoders = {"d1"}
    MaxConnections = 2
    FailCommandOnConnecting = FALSE
    ReceiveTimeoutDefined = TRUE
    InitialSettings <- WithDatabase
    MaxWriteBatchSize = 2
    FaultKinds = {"drop", "connect"}
    MaxFaults = 1
    SplitReplies = FALSE
    Threads = {"t1"}
    Workload <- OneThread
    Blocking = TRUE
PROPERTIES
    EverythingIsCompleted
    ReconnectingEnds
    QuitStopsTheListener
\* The system stops when all work is done.
CHECK_DEADLOCK FALSE
