\* The end of a session, with the loop of getfirst_app.
SPECIFICATION FairSpec
CONSTANTS
    c1 = c1
    c2 = c2
    c3 = c3
    Conns = {c1}
    INVALID_SOCKET = INVALID_SOCKET
    MAX_SESSIONS = 1
    CAPI_MAXAPPL = 2
    ReqTypes <- SessionTypes
    PutShapes = {}
    OldIds = {}
    MaxReq = 3
    MaxTotal = 3
    MaxPipeline = 1
    Controls = {}
    Coalesce = FALSE
    AuthRequired = FALSE
    AuthTypesOn <- UserPass
PROPERTY AutoRelease
CHECK_DEADLOCK FALSE
