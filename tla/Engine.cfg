SPECIFICATION FairSpec
CONSTANTS
    Clients = {c1, c2}
    MaxClients = 1
    CallbackMayFail = TRUE
INVARIANTS
    TypeOK
    RegistryIsExact
    NoOrphanSsh
    MaxClientsRespected
PROPERTIES
    StopEndsSession
    ShutdownEndsAccept
    KeepsContracts
CHECK_DEADLOCK FALSE
