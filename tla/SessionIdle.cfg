SPECIFICATION FairSpec
CONSTANTS
    Stoppers = {}
    IdleTimeout = TRUE
    MaxChunks = 0
PROPERTIES
    IdleSessionEnds
CHECK_DEADLOCK FALSE
