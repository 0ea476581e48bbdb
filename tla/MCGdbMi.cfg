CONSTANTS
    MaxReads = 2
    MaxAsync = 1
    MayTimeout = TRUE
    MayDie = TRUE
SPECIFICATION FairSessionSpec
INVARIANTS LagIsTimeouts
PROPERTIES NothingHangs
CHECK_DEADLOCK FALSE
