SPECIFICATION FairSpec
CONSTANTS
    Requests = {r1, r2}
    Boot = boot
INVARIANTS
    TypeOK
    DisabledMeansDown
    DeletedMeansGone
PROPERTIES
    RequestsEnd
