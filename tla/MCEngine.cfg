CONSTANTS
    Passphrase = FALSE
    Kinds = {"ModuleList", "ProcessTable", "KernelModules", "Introspection"}
    MaxThreads = 2
    MaxRanges = 2
    MayFailIO = TRUE
SPECIFICATION FairSpec
INVARIANTS FileKeepsPromises ResultIsTrue AbortIsHeeded
PROPERTIES ImplementsWriter Ends
CHECK_DEADLOCK FALSE
