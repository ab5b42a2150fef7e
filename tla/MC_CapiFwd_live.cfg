\* Waiting children and a connection that ends: requests are served once,
\* a disconnect releases.
SPECIFICATION FairSpec
CONSTANTS
    c1 = c1
    c2 = c2
    Conns = {c1}
    None = None
    CAPI_MAXAPPL = 2
    ReqTypes <- LiveTypes
    PutShapes = {}
    IndShapes <- OneInd
    MaxReq = 4
    MaxTotal = 4
    MaxPipeline = 2
    MaxInbox = 1
    MaxFds = 1
INVARIANTS AnsweredOnce
PROPERTIES DisconnectReleases RequestsServed
CHECK_DEADLOCK FALSE
