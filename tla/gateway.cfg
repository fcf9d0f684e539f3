\* The parts of the api-gateway around a submission, one at a time.
CONSTANTS
    Attempts = {a1, a2}
    Readers = {r1}
    MaxSubFailures = 1
    SubFaults = {"redis", "db", "publish", "crash"}
    Listeners = {l1}
    Callers = {c1}
    MaxWaitFailures = 2
    Ids = {1, 2, 3, 4}
    Sweeps = {w1}
    PageSize = 2
    Concurrency = 1
    MaxSweepFailures = 2
    Admins = {g1}
    LangReaders = {q1}
    Lookups = {j1}
    MaxVersion = 2
    MaxLangFailures = 2
    Classes = {"read", "auth"}
    Clients = {k1, k2}
    TrustedClients = {k2}
    TierLimit <- Tiers
    DefaultLimit = 1
    MaxRequests = 3
    MaxStoreFailures = 1
    Calls = {i1, i2, i3}
    WindowLimit = 1
    Window = 3
    MaxDelay = 1
    MaxClock = 5
SPECIFICATION GatewaySpec
INVARIANTS
    GatewayTypeOK
    ResultIsRecorded
    SweepMissesNone
    SweepVisitsOnce
    ChangeIsSeen
    WorkerIsFresh
    BudgetsAreSeparate
    AdmitsAtMostLimit
PROPERTIES
    ReadsNeverGoBack
    CacheConverges
    WaiterIsAnswered
    PollerEnds
    SweepEnds
    LanguagesConverge
CHECK_DEADLOCK FALSE
