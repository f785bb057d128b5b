\* Two processes look for databases of one experiment and of a class that is
\* placed in the first root, while one is moved or wiped and a reader visits.
SPECIFICATION Spec
CONSTANTS
    Procs = {"p1", "p2"}
    Keys <- FourKeys
    Requests <- SomeRequests
    RootsFile <- Rootfile
    SpacesFile <- Spacefile
    NamesFile <- Namefile
    EnginesFile <- Enginefile
    Registered = {"toc"}
    ExplicitEngine = ""
    FixedRoot = ""
    Override <- Overrides
    Mounted = {"r1", "r2", "r3"}
    ValidExpvers = {"e1", "e2"}
    MaxJobs = 3
INVARIANTS OneRoot ExpverInOneRoot FollowsExisting ReaderFinds
CHECK_DEADLOCK FALSE
