\* More connections than session slots, every request type.
SPECIFICATION Spec
CONSTANTS
    c1 = c1
    c2 = c2
    c3 = c3
    Conns = {c1, c2, c3}
    INVALID_SOCKET = INVALID_SOCKET
    MAX_SESSIONS = 2
    CAPI_MAXAPPL = 1
    ReqTypes <- AllTypes
    PutShapes <- AllPuts
    OldIds = {}
    MaxReq = 2
    MaxTotal = 2
    MaxPipeline = 2
    Controls = {}
    Coalesce = TRUE
    AuthRequired = FALSE
    AuthTypesOn <- UserPass
INVARIANTS TypeOK SlotsShared AnsweredOnce
SYMMETRY ConnSymmetry
CHECK_DEADLOCK FALSE
