SPECIFICATION Spec
CONSTANTS
    Calls = {c1, c2, c3, c4}
    Formats = {csv, parquet}
    Contents = {x1, x2}
    Manifests = {m1, m2}
    Backends = {"local", "r2"}
    None = None
SYMMETRY Symmetry
CHECK_DEADLOCK FALSE
INVARIANTS
    TypeOK
    VersionDataIntact
    HashesHonest
    UploadIntact
    ProfileFresh
PROPERTIES
    VersionsStand
