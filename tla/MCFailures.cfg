\* One write is refused, or the IOActor dies of an exception, at every point, with fail-command-on-connecting: no request handed over is forgotten by the listener and the decoders.
SPECIFICATION Spec
CONSTANTS
    Ids = {1, 2, 3}
    Values = {0, 1, 2}
    Rejected = {}
    Decoders = {"d1", "d2"}
    MaxConnections = 2
    FailCommandOnConnecting = TRUE
    ReceiveTimeoutDefined = TRUE
    InitialSettings <- WithDatabase
    MaxWriteBatchSize = 2
    FaultKinds = {"write", "crash"}
    MaxFaults = 1
    SplitReplies = FALSE
    Threads = {"t1", "t2"}
    Workload <- TwoThreads
    Blocking = FALSE
INVARIANTS
    NothingForgotten
\* The system stops when all work is done.
CHECK_DEADLOCK FALSE
