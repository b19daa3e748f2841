SPECIFICATION Spec
CONSTANTS
    j1 = j1
    Jobs = {j1}
    Slots = {w1}
    Requests = {r1}
    Cancels = {}
    JobOf <- OneExperiment
    JOB_RETRIES = 1
    Faults = {}
    MaxFaults = 1
    ModelIds = {m1}
    Bytes = {b1}
    None = None
CHECK_DEADLOCK FALSE
PROPERTIES
    TerminalIsFinal
