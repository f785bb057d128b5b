\* A session of four fields, one of which may be refused; what is sent fits into the sockets.
CONSTANTS
    MaxFields = 4
    QueueCap = 1
    MaxBatch = 2
    SocketCap = 3
    ServerQueueCap = 1
    MaxRefused = 1
    NoQueue = NoQueue
SPECIFICATION FairSpec
INVARIANTS
    FlushedOnServer
    ArchivedInOrder
PROPERTIES
    CallsReturn
