\* AUTH between a reconnection and the confirmations of the re-subscriptions: the listener saves what it is subscribed to when it is subscribed to nothing yet, and the subscription is lost.
SPECIFICATION Spec
CONSTANTS
    Channels = {"a", "b"}
    Patterns = {"p"}
    None = None
    Rejected = {"bad"}
    MaxDrops = 1
    Ids <- AllIds
    Decoders = {"d1", "d2"}
    Overtaking = FALSE
    InitialSettings <- Anonymous
    Threads = {"t1"}
    Workload <- SubscribeThenAuth
    QuietDrops = TRUE
    Unhurried = FALSE
INVARIANTS
    Resubscribed
\* The system stops when all work is done.
CHECK_DEADLOCK FALSE
