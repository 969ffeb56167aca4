SPECIFICATION FairSpec
CONSTANTS
    Handlers = {h1}
    Clicks = {k1}
    MaxWorkers = 1
PROPERTIES
    ClickEndsSession
    ListCatchesUp
CHECK_DEADLOCK FALSE
