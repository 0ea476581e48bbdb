CONSTANTS
    NumPages = 5
    MaxChunk = 2
    FirstBlockOnly = FALSE
    MayGlitch = TRUE
SPECIFICATION MCSpec
INVARIANTS CapturedFaithful NeverRefused NothingMissed
PROPERTIES AbortStopsReading Terminates
CHECK_DEADLOCK FALSE
