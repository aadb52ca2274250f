\* What all clients share: two threads at the pool of buffers, four calls (two transactions, one of them too large, and two on a blocking connection) at a limit of three permits, replies of every kind cut into reads at every byte, and three calls on a Redis and its inner clients: no buffer is shared, no permit is lost or made but for those listed, whoever waits gets its permits, every request is completed with its own reply, and the clients of a Redis stay in sync and are reached by quit but for the cases listed.
SPECIFICATION FairSpec
CONSTANTS
    IOActors = {"i1", "i2"}
    Buffers = {"x1", "x2", "x3", "x4"}
    Large = {"x4"}
    NoBuffer = "null"
    MaxCapacity = 2
    MaxHeld = 2
    Calls = {"c1", "c2", "b1", "b2"}
    Size <- TransactionsAndOthers
    Blocking = {"b1", "b2"}
    Limit = 3
    MaxInternal = 1
    Streams <- SomeStreams
    Ops = {"o1", "o2", "o3"}
    Plans <- SomePlans
    Values = {"v0", "v1", "v2"}
    Users = {"none", "u"}
    InitialValue = "v0"
    NoUser = "none"
    OwnsSystem = TRUE
    Nobody = "nobody"
INVARIANTS
    TypeOK
    NoBufferIsShared
    PermitsAreAccountedFor
    WholeRepliesAreHandedOver
    ResultsAreTheirOwn
    SkipsWholeReplies
    ClientsInSync
    QuitReachesClients
PROPERTIES
    LockIsReleased
    AcquireReturns
    BlockedConnectionIsFreed
    OperationsEnd
\* The system stops when all work is done.
CHECK_DEADLOCK FALSE
