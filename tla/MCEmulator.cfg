CONSTANTS
    MaxAddr = 2
    Mapped = {0, 1}
    Image = {1}
    Values = {0, 1}
    Captured <- OneMemory
    Cpus <- SomeCpus
    Threads <- TwoThreads
    MaxBack = 2
    MaxWrites = 2
    MaxSteps = 3
SPECIFICATION Spec
INVARIANTS JournalDepth
PROPERTIES BackRestores NoUnpackMissed
