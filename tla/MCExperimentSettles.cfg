SPECIFICATION FairSpec
CONSTANTS
    j1 = j1
    Jobs = {j1}
    Slots = {w1}
    Requests = {r1, r2}
    Cancels = {}
    JobOf <- OneExperiment
    JOB_RETRIES = 1
    Faults = {"api_crash", "dispatch_error", "worker_crash", "lost_worker", "timeout", "lost_answer", "unscheduled", "store_error"}
    MaxFaults = 1
    ModelIds = {m1}
    Bytes = {b1}
    None = None
CHECK_DEADLOCK FALSE
INVARIANTS
    FailedOnlyBetweenAttempts
    QueuedIsLive
    SettledRowsAgree
PROPERTIES
    EventuallySettled
    EventuallyDispatched
    EventuallyReported
