CONSTANTS
    NumPages = 3
    MaxChunk = 3
    FirstBlockOnly = TRUE
    MayGlitch = FALSE
SPECIFICATION MCSpec
INVARIANTS CapturedFaithful
CHECK_DEADLOCK FALSE
