\* One card, one thread of kernelcapi, two applications that use one number
\* at the server in turn.
SPECIFICATION ClientFairSpec
CONSTANTS
    node = node
    t1 = t1
    CAPIPROXY_MAXCONTR = 1
    CAPI_MAXAPPL = 2
    MAX_SK_PENDING = 10
    Files = {node}
    Blocking = {}
    Threads = {t1}
    NoCard = NoCard
    Payloads = {"MESSAGE"}
    Admin = {"remove"}
    AllocFails = FALSE
    MaxCalls = 3
    Coalesce = TRUE
    Remotes = {2}
    Older = {2}
    MaxIn = 1
INVARIANTS DaemonTypeOK MapsAgree PollsKept DeliveredOnce
PROPERTIES RevivedOnlyLate RegisterAnswered
CHECK_DEADLOCK FALSE
