\* One connection, every request type and every shape of a put message.
SPECIFICATION Spec
CONSTANTS
    c1 = c1
    c2 = c2
    Conns = {c1}
    None = None
    CAPI_MAXAPPL = 1
    ReqTypes <- AllTypes
    PutShapes <- AllPuts
    IndShapes <- AllInds
    MaxReq = 3
    MaxTotal = 3
    MaxPipeline = 1
    MaxInbox = 1
    MaxFds = 1
INVARIANTS TypeOK AnswersRouted
CHECK_DEADLOCK FALSE
