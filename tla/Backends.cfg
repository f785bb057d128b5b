\* Two writers, one of which may die, and a reader that opens the database
\* while it is created, written and rolled over to new data pools; or a toc
\* with an index of either type, written by two processes and purged.
SPECIFICATION BSpec
CONSTANTS
    Inline <- NoGroups
    PoolsFile <- Poolfile
    PoolGroupsFile <- Groupfile
    Writers = {"w1", "w2"}
    Reader = "r"
    Fields <- TwoFields
    Lengths = {1}
    PoolSize = 1
    MaxArchives = 2
    MaxCrashes = 1
    MaxReads = 1
    Keys <- ThreeKeys
    IndexTypes = {"BTreeIndex", "LSMIndex", "PMemIndex"}
    MaxFields = 3
    MaxProcesses = 2
INVARIANTS TreeSound RetrieveFinds ListFinds IndexFinds
PROPERTY ArchiveReturns
CHECK_DEADLOCK FALSE
