SPECIFICATION Spec
CONSTANTS
    Calls = {c1, c2, c3}
    Formats = {csv}
    Contents = {x1}
    Manifests = {m1, m2}
    Backends = {"r2"}
    None = None
CHECK_DEADLOCK FALSE
PROPERTIES
    VersionsImmutable
