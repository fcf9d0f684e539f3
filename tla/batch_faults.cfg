\* Any two failures, of any kind and at any point; two START requests and two
\* fan-outs, two deliveries of each message.
CONSTANTS
    Subs = {s1, s2}
    StartEvents = {e1, e2}
    Slots = 2
    ChunkSize = 1
    MaxReceive = 2
    MaxStarts = 2
    MaxClaims = 2
    MaxFailures = 2
    SequentialSet = TRUE
    Faults = {"exec", "publish", "ack", "crash", "db", "slow", "erase"}
SPECIFICATION Spec
INVARIANTS TypeOK SingleClaimant CompleteIsReconcilable
PROPERTY CompletedIsFinal
SYMMETRY Symmetry
\* The pipeline rests once its queues are empty.
CHECK_DEADLOCK FALSE
