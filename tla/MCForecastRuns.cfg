SPECIFICATION ApartSpec
CONSTANTS
    j1 = j1
    m1 = m1
    m2 = m2
    p1 = p1
    p2 = p2
    t1 = t1
    Jobs = {j1}
    Slots = {w1, w2}
    Requests = {r1, r2}
    Cancels = {}
    JobOf <- OneForecast
    JOB_RETRIES = 1
    Faults = {"api_crash", "worker_crash", "store_error", "timeout"}
    MaxFaults = 1
    None = None
    Models = {m1, m2}
    Promotions = {p1, p2}
    Retirements = {t1}
    Target <- TargetOf
    BeatenSets <- SomeBeaten
    Forced = {p2}
    NoModel = NoModel
    ModelOf <- ModelOfForecast
    Contents = {c1, c2}
SYMMETRY Symmetry
CHECK_DEADLOCK FALSE
INVARIANTS
    TypeOK
    ChampionsRaced
    ChampionRemains
    StrandedOnlyByRetirement
    SucceededIsReadable
