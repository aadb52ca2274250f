\* The first reply of a transaction is an array whose decoder throws at its first element: the rest of the array is read as the replies of the next requests.
SPECIFICATION Spec
CONSTANTS
    IOActors = {"i1", "i2"}
    Buffers = {"x1", "x2", "x3", "x4"}
    Large = {"x4"}
    NoBuffer = "null"
    MaxCapacity = 2
    MaxHeld = 2
    Calls = {"c1", "c2", "b1", "b2"}
    Size <- TransactionsAndOthers
    Blocking = {"b1", "b2"}
    Limit = 3
    MaxInternal = 1
    Streams <- Unreadable
    Ops = {"o1", "o2", "o3"}
    Plans <- SomePlans
    Values = {"v0", "v1", "v2"}
    Users = {"none", "u"}
    InitialValue = "v0"
    NoUser = "none"
    OwnsSystem = TRUE
    Nobody = "nobody"
INVARIANTS
    ResultsAreTheirOwn
\* The system stops when all work is done.
CHECK_DEADLOCK FALSE
