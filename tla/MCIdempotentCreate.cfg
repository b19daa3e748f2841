SPECIFICATION FairSpec
CONSTANTS
    Calls = {c1, c2, c3}
    Keys = {k1, k2}
    Payloads = {p1, p2}
    NoKey = NoKey
    None = None
    PoolMax = 2
CHECK_DEADLOCK FALSE
INVARIANTS
    TypeOK
PROPERTIES
    Refines
    EveryCallAnswered
