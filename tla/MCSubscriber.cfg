\* Two threads subscribe, unsubscribe, authenticate (once with a password the server refuses) and quit over a connection without a client name, lost up to twice, with replies read in any portions and decoded in their order: the listener's counters and the server's subscriptions agree, no regular command reaches a subscribed session, and every operation completes and gives the lock back.
SPECIFICATION FairSpec
CONSTANTS
    Channels = {"a", "b"}
    Patterns = {"p"}
    None = None
    Rejected = {"bad"}
    MaxDrops = 2
    Ids <- AllIds
    Decoders = {"d1", "d2"}
    Overtaking = FALSE
    InitialSettings <- Anonymous
    Threads = {"t1", "t2"}
    Workload <- TwoThreads
    QuietDrops = TRUE
    Unhurried = TRUE
INVARIANTS
    TypeOK
    TracksTheServer
    RegularWhenUnsubscribed
PROPERTIES
    OperationsComplete
\* The system stops when all work is done.
CHECK_DEADLOCK FALSE
