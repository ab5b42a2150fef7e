\* Two threads whose calls race each other and the receiver.
SPECIFICATION Spec
CONSTANTS
    t1 = t1
    t2 = t2
    Threads = {t1, t2}
    NULL = NULL
    CAPI_MAXAPPL = 1
    CallTypes <- AppCalls
    MaxCalls = 2
    MaxTotal = 3
    AuthRequired = FALSE
    Coalesce = TRUE
    OutOfMemory = TRUE
INVARIANTS HashSound  SuccessIsAnswered
SYMMETRY ThreadSymmetry
CHECK_DEADLOCK FALSE
