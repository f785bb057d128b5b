\* A reader beside two processes with sub-tocs, with and without fdbCacheTocsOnRead.
CONSTANTS
    p1 = p1
    p2 = p2
    k1 = k1
    f1 = f1
    f2 = f2
    Procs = {p1, p2}
    SubTocProcs = {p1, p2}
    IndexKeys = {k1}
    FieldKeys = {f1, f2}
    MayArchive <- Disjoint
    Master = Master
    NoField = NoField
    MaxArchives = 2
    Crashes = TRUE
    IOErrors = FALSE
SPECIFICATION RSpec
INVARIANTS
    ReaderNeverDangles
    ReaderSeesFlushed
