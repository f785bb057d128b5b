\* Calls on a selector over a distributor whose stores fail now and then, and
\* a C program that lists what was archived.
SPECIFICATION PSpec
CONSTANTS
    Fdbs = {"top", "dist", "old", "a", "b", "b1", "b2", "c"}
    Root = "top"
    Configs <- Tree
    Keys <- AllKeys
    Requests <- AllRequests
    Streams <- AllStreams
    Order <- HashOrder
    Failures <- SomeFailures
    Levels <- KeyLevels
    MaxCalls = 5
    Programs <- SomePrograms
    Files <- SomeFiles
    Expand <- MarsDefaults
    Awkward = {2}
    MaxPrograms = 2
    MaxFaults = 2
INVARIANTS UnflushedIsKnown CloseLosesNothing ReaderFinds MetadataInOrder MessagesFiled
CHECK_DEADLOCK FALSE
