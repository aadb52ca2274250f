\* A transaction of one thread against CLIENT SETNAME and QUIT of another, over a connection that is lost once: replies stay paired with their requests before and after the reconnection, the transaction is executed as a whole and nothing twice, the server ends up with the settings the listener would restore, the threads are refused before the listener shuts down, nothing is opened after a QUIT that was handed to an IOActor, and the connection implements RequestService.
SPECIFICATION Spec
CONSTANTS
    Ids = {1, 2, 3, 4}
    Values = {0, 1, 2}
    Rejected = {}
    Decoders = {"d1"}
    MaxConnections = 2
    FailCommandOnConnecting = FALSE
    ReceiveTimeoutDefined = TRUE
    InitialSettings <- WithName
    MaxWriteBatchSize = 2
    FaultKinds = {"drop"}
    MaxFaults = 1
    SplitReplies = FALSE
    Threads = {"t1", "t2"}
    Workload <- Quitting
    Blocking = FALSE
INVARIANTS
    TypeOK
    PipelineInOrder
    RemoveFindsARequest
    RefusesBeforeShuttingDown
    TransactionsAreAtomic
    ExecutedAtMostOnce
    SessionIsRestorable
PROPERTIES
    NoReconnectionAfterQuit
    ImplementsService
\* The system stops when all work is done.
CHECK_DEADLOCK FALSE
