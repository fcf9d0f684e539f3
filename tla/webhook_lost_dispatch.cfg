\* One worker's dispatch and the reconciler; one crash.
CONSTANTS
    Total = 2
    Recounts = 0
    Launches = {l1}
    Requests = {}
    Reconciler = reconciler
    MaxRetries = 1
    Delay = 1
    Backoff = 2
    MaxDelay = 3
    Timeout = 0
    Margin = 1
    SequentialSet = TRUE
    MaxFailures = 1
    Faults = {"crash"}
SPECIFICATION Spec
INVARIANT LostDispatchIsRetried
CHECK_DEADLOCK FALSE
