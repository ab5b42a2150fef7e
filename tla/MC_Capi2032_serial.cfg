\* One thread that makes every kind of call; a server that answers.
SPECIFICATION FairSpec
CONSTANTS
    t1 = t1
    t2 = t2
    Threads = {t1}
    NULL = NULL
    CAPI_MAXAPPL = 2
    CallTypes <- AllCalls
    MaxCalls = 4
    MaxTotal = 4
    AuthRequired = TRUE
    Coalesce = TRUE
    OutOfMemory = FALSE
INVARIANTS TypeOK MemorySafe AppsAgree MessageReadable
PROPERTIES CallsReturn DetachWakes
CHECK_DEADLOCK FALSE
