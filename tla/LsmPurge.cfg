\* Purge of a database whose indexes are in Parallax.
SPECIFICATION BSpec
CONSTANTS
    Inline <- NoGroups
    PoolsFile <- Poolfile
    PoolGroupsFile <- Groupfile
    Writers = {"w1", "w2"}
    Reader = "r"
    Fields <- TwoFields
    Lengths = {1}
    PoolSize = 1
    MaxArchives = 2
    MaxCrashes = 1
    MaxReads = 1
    Keys <- ThreeKeys
    IndexTypes = {"LSMIndex"}
    MaxFields = 3
    MaxProcesses = 2
PROPERTY PurgeKeepsFields
CHECK_DEADLOCK FALSE
