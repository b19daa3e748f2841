SPECIFICATION CanonicalSpec
CONSTANTS
    Tables <- SmallTables
    Attributes = {"a", "b"}
    Single = 0
    Null = Null
    NaN = NaN
CHECK_DEADLOCK FALSE
INVARIANTS
    MissingTargetsKept
