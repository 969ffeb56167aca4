SPECIFICATION FairSpec
CONSTANTS
    Endpoints = {e1, e2}
    Tokens = {t1}
    Retention = 1
    MaxBytes = 2
INVARIANTS
    TypeOK
    NoInventedTraffic
    OverallWithinParts
    SamplesHaveEndpoints
PROPERTIES
    ExpiredAreForgotten
