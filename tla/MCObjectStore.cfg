SPECIFICATION Spec
CONSTANTS
    x1 = x1
    x2 = x2
    x3 = x3
    Threads = {t1, t2}
    Keys = {k1, k2}
    Contents = {x1, x2, x3}
    Size <- SizeOfContent
    MaxCacheBytes = 2
    Backends = {"local", "r2"}
    MaxUpsets = 3
    None = None
    Empty = Empty
    Failed = Failed
SYMMETRY Symmetry
CHECK_DEADLOCK FALSE
INVARIANTS
    TypeOK
    CalmReadsSucceed
    CacheBounded
PROPERTIES
    Refines
