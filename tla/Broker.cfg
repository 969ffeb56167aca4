SPECIFICATION FairSpec
CONSTANTS
    Publishers = {p1, p2}
    Streams = {s1}
    QueueSize = 2
    MaxEvents = 3
INVARIANTS
    TypeOK
    OrderIsKept
    NoGapUnlessFull
PROPERTIES
    NewestSurvives
    PublishReturns
CHECK_DEADLOCK FALSE
