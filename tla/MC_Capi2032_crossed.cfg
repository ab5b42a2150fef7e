\* Two threads, one call each: whose answer does a call return with?
SPECIFICATION Spec
CONSTANTS
    t1 = t1
    t2 = t2
    Threads = {t1, t2}
    NULL = NULL
    CAPI_MAXAPPL = 1
    CallTypes <- AppCalls
    MaxCalls = 1
    MaxTotal = 2
    AuthRequired = FALSE
    Coalesce = FALSE
    OutOfMemory = FALSE
INVARIANT OwnAnswer
CHECK_DEADLOCK FALSE
