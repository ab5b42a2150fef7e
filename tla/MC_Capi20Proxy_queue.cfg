\* Two threads of kernelcapi, two processes that open the device in turn.
SPECIFICATION Spec
CONSTANTS
    f1 = f1
    f2 = f2
    t1 = t1
    t2 = t2
    CAPIPROXY_MAXCONTR = 1
    CAPI_MAXAPPL = 1
    MAX_SK_PENDING = 0
    Files = {f1, f2}
    Blocking = {f1, f2}
    Threads = {t1, t2}
    NoCard = NoCard
    Payloads = {"MESSAGE", "RUNT"}
    Admin = {"remove", "reset"}
    AllocFails = TRUE
    MaxCalls = 3
INVARIANTS TypeOK CardsOwned PendingBounded
PROPERTIES CounterKept
SYMMETRY Symmetry
CHECK_DEADLOCK FALSE
