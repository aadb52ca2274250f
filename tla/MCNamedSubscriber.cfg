\* A subscriber that was configured with a name: the OK to its initial CLIENT SETNAME leaves that request in requestOpt, where it takes the confirmation of the user's SUBSCRIBE, which never completes and keeps the lock.
SPECIFICATION FairSpec
CONSTANTS
    Channels = {"a", "b"}
    Patterns = {"p"}
    None = None
    Rejected = {"bad"}
    MaxDrops = 0
    Ids <- AllIds
    Decoders = {"d1", "d2"}
    Overtaking = FALSE
    InitialSettings <- WithName
    Threads = {"t1"}
    Workload <- JustSubscribe
    QuietDrops = TRUE
    Unhurried = TRUE
PROPERTIES
    OperationsComplete
\* The system stops when all work is done.
CHECK_DEADLOCK FALSE
