SPECIFICATION FairSpec
CONSTANTS
    Stoppers = {"admin_disconnect"}
    IdleTimeout = FALSE
    MaxChunks = 1
PROPERTIES
    StopEndsSession
    SshExitEndsSession
CHECK_DEADLOCK FALSE
