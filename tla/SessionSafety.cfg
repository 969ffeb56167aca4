SPECIFICATION Spec
CONSTANTS
    Stoppers = {"admin_disconnect"}
    IdleTimeout = TRUE
    MaxChunks = 2
INVARIANTS
    TypeOK
    EndingHasAReason
    NaturalEndIsComplete
    RecordCountsWhatPassed
PROPERTIES
    NothingMovesAfterRecord
    ImplementsContract
CHECK_DEADLOCK FALSE
