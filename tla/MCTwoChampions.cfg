SPECIFICATION Spec
CONSTANTS
    j1 = j1
    m1 = m1
    m2 = m2
    p1 = p1
    p2 = p2
    t1 = t1
    Jobs = {j1}
    Slots = {}
    Requests = {}
    Cancels = {}
    JobOf <- OneForecast
    JOB_RETRIES = 0
    Faults = {}
    MaxFaults = 1
    None = None
    Models = {m1, m2}
    Promotions = {p1, p2}
    Retirements = {}
    Target <- TargetOf
    BeatenSets <- AllBeaten
    Forced = {}
    NoModel = NoModel
    ModelOf <- ModelOfForecast
    Contents = {c1}
CHECK_DEADLOCK FALSE
INVARIANTS
    AtMostOneChampion
