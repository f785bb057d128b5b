\* Two of three databases may be open; fields are refused, and databases get locked or flushes throw.
CONSTANTS
    NumDBs = 3
    IndexKeys = {k1, k2}
    None = None
    MaxNbDBsOpen = 2
    Lockable = {3}
    Failures = TRUE
    MaxArchives = 2
    MaxTime = 1
SYMMETRY IndexKeySymmetry
SPECIFICATION MCSpec
INVARIANTS
    FiledUnderItsKeys
    FlushIsExact
    ExitLosesNothing
