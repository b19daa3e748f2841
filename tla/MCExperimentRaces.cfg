SPECIFICATION Spec
CONSTANTS
    j1 = j1
    Jobs = {j1}
    Slots = {w1, w2}
    Requests = {r1}
    Cancels = {c1}
    JobOf <- OneExperiment
    JOB_RETRIES = 1
    Faults = {"worker_crash", "timeout", "store_error", "lost_answer", "unscheduled"}
    MaxFaults = 1
    ModelIds = {m1, m2}
    Bytes = {b1, b2}
    None = None
SYMMETRY Symmetry
CHECK_DEADLOCK FALSE
INVARIANTS
    TypeOK
    OneModelPerExperiment
    LineageIntact
    SuccessHasModel
PROPERTIES
    ArtifactMatchesAtBirth
