\* The parts of a worker node, one at a time.
CONSTANTS
    Copies = {m1, m2}
    PublishRetries = 2
    MaxDeliver = 2
    MaxConcurrent = 1
    DeadMaxDeliver = 2
    MaxNatsFailures = 2
    MaxWorkers = 2
    JobSlots = 1
    MaxJobs = 2
    MaxDockerFailures = 2
    Pullers = {p1, p2}
    MaxImageFailures = 2
    Limit = 4
    Chunk = 3
    MaxOutput = 9
    Kilo = 16
    Half = 33554432
    AskedTimes <- Times
    AskedWalls <- Walls
    AskedKB <- Sizes
SPECIFICATION NodeSpec
INVARIANTS
    NodeTypeOK
    JobIsAccountedFor
    QueuedHasAJob
    StopWaitsForJobs
    NothingIsLeft
    VerdictIsEarned
    ScriptVerdictIsEarned
    EnsuredIsLocal
    OutputIsKept
    LimitsAreGranted
    BudgetCoversRetries
PROPERTIES
    QueueDrains
    PoolEnds
    ExecutionEnds
CHECK_DEADLOCK FALSE
