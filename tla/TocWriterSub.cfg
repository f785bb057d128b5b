\* Two processes with sub-tocs, each with fields of its own.
CONSTANTS
    p1 = p1
    p2 = p2
    k1 = k1
    k2 = k2
    f1 = f1
    f2 = f2
    Procs = {p1, p2}
    SubTocProcs = {p1, p2}
    IndexKeys = {k1}
    FieldKeys = {f1, f2}
    MayArchive <- Disjoint
    Master = Master
    NoField = NoField
    MaxArchives = 3
    Crashes = TRUE
    IOErrors = FALSE
SPECIFICATION FairSpec
INVARIANTS
    IndexedIsDurable
    FlushedIsRetrievable
PROPERTIES
    ImplementsFieldStore
    ClosedIsCompacted
