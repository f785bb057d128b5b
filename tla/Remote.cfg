\* Iterations and retrievals whose messages fit the queues: the socket and the
\* iterator's queue are short.  Or two clients, one of which is refused, and a
\* server with three data ports, one of them a service's, that may be restarted.
CONSTANTS
    MaxRequests = 3
    MaxCalls = 1
    Elements = 2
    Chunks = 1
    QueueCap = 1
    IterCap = 1
    RetrieveCap = 4
    DataCap = 1
    Kinds = {"inspect", "move", "archive"}
    AnyDrop = FALSE
    ReadsAgain = FALSE
    LateErrors = FALSE
    MayFail = TRUE
    Modes = {"off", "forked", "threaded"}
    Clients = {"c1", "c2"}
    Unsupported = {"c2"}
    Pids = {11, 12, 13}
    PortCount = 3
    Services = {1}
    LateServices = {3}
    ReapAfter = 1
    MaxTime = 2
    MaxStarts = 2
    MaxFaults = 1
SPECIFICATION RSpec
CHECK_DEADLOCK FALSE
INVARIANTS
    HandleGetsItsField
    IteratorIsComplete
    SessionsPaired
PROPERTY
    CallsReturn
