\* A request, updates of the cache and quit over two servers, one of them the seed, with one change of the slot's owner, three retries and two faults (connections lost or timed out, servers dead, ASK, TRYAGAIN, CLUSTERDOWN): attempts are bounded and end unless quit strands them, only an assignment of the cache loses an open connection, and quit completes when its QUITs are answered and no update brings a closed connection back.
SPECIFICATION FairSpec
CONSTANTS
    Servers = {"s1", "s2"}
    NoServer = "none"
    Slots = {"k"}
    MaxMoves = 1
    MaxFaults = 2
    Requests = {"r1"}
    Nodes = {"s1"}
    Kind <- AllKeys
    SlotOf <- OneSlot
    Updates = {"u1", "u2"}
    FirstUpdate = "u1"
    MaxRetries = 3
    MaxHashMisses = 1
    MaxConnectionMisses = 1
    ConnectTimeout = 2
    TryAgainWait = 1
    ClusterDownWait = 1
INVARIANTS
    TypeOK
    UsableUntilQuit
    AttemptsAreBounded
    NoFailureWithoutACause
PROPERTIES
    OnlyAnUpdateLosesConnections
    
    QuitCompletes
\* The system stops when all work is done.
CHECK_DEADLOCK FALSE
