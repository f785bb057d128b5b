\* Write errors and crashes, over two indexes.
CONSTANTS
    p1 = p1
    p2 = p2
    k1 = k1
    k2 = k2
    f1 = f1
    f2 = f2
    Procs = {p1, p2}
    SubTocProcs = {p1}
    IndexKeys = {k1, k2}
    FieldKeys = {f1}
    MayArchive <- Mixed
    Master = Master
    NoField = NoField
    MaxArchives = 3
    Crashes = TRUE
    IOErrors = TRUE
SPECIFICATION Spec
INVARIANTS
    WriteOrder
    TocsWellFormed
