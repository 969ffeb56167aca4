SPECIFICATION Spec
CONSTANTS
    Handlers = {h1, h2}
    Clicks = {k1, k2}
    MaxWorkers = 2
CONSTRAINT InTurn
SYMMETRY Symmetry
INVARIANTS
    TypeOK
    PublishedIsWhole
    LastWordIsFinal
    AimIsTrue
CHECK_DEADLOCK FALSE
