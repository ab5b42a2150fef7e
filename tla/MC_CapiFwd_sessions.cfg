\* Two connections that compete for one application number.
SPECIFICATION Spec
CONSTANTS
    c1 = c1
    c2 = c2
    Conns = {c1, c2}
    None = None
    CAPI_MAXAPPL = 1
    ReqTypes <- SessionTypes
    PutShapes = {}
    IndShapes = {}
    MaxReq = 3
    MaxTotal = 4
    MaxPipeline = 1
    MaxInbox = 0
    MaxFds = 2
INVARIANTS SessionsDistinct AppsAccounted
PROPERTIES TakenOnlyByOwner RegistrySpec
SYMMETRY ConnSymmetry
CHECK_DEADLOCK FALSE
