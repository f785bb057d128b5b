\* Every tool after and beside a plain writer and one with a sub-toc.
CONSTANTS
    w1 = w1
    w2 = w2
    k1 = k1
    k2 = k2
    Own = Own
    Writers = {w1, w2}
    SubWriters = {w2}
    IndexKeys = {k1, k2}
    Tools = {"wipe", "purge", "move", "hide", "overlay", "reconsolidate", "lock"}
    MaxArchives = 2
    MaxTools = 2
    MayArchive <- KeysOf
    LivePurges = FALSE
    UnsafeWipes = {FALSE}
    NoField = NoField
    Error = Error
    Crashes = TRUE
SPECIFICATION Spec
CHECK_DEADLOCK FALSE
INVARIANTS
    NothingOrphaned
    WipeKeepsOthers
    PlainPurgeIsInvisible
    MoveKeepsFields
    HiddenStaysHidden
    ReconsolidateKeepsFields
