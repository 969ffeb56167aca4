SPECIFICATION Spec
CONSTANTS
    Clients = {c1, c2}
    MaxClients = 1
    CallbackMayFail = FALSE
INVARIANTS
    NoGhostSession
CHECK_DEADLOCK FALSE
