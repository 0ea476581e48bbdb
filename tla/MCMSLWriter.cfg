CONSTANTS
    BlockTypes = {"ProcessIdentity", "MemoryRegion"}
    MaxBlocks = 4
SPECIFICATION Spec
INVARIANTS TypeOK ReaderSeesPrefix SealedIsComplete ClearIsCurrent
PROPERTIES ImplementsSealedLog
CHECK_DEADLOCK FALSE
