\* Two sessions in one slot release and register again each other's
\* application; pause and stop.
SPECIFICATION FairSpec
CONSTANTS
    c1 = c1
    c2 = c2
    c3 = c3
    Conns = {c1, c2}
    INVALID_SOCKET = INVALID_SOCKET
    MAX_SESSIONS = 1
    CAPI_MAXAPPL = 1
    ReqTypes <- CapiOnly
    PutShapes = {}
    OldIds <- FirstSlot
    MaxReq = 3
    MaxTotal = 3
    MaxPipeline = 1
    Controls = {"PAUSE", "STOP"}
    Coalesce = FALSE
    AuthRequired = FALSE
    AuthTypesOn <- UserPass
INVARIANTS Accounted
PROPERTIES StopEndsSessions
CHECK_DEADLOCK FALSE
