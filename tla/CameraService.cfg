SPECIFICATION FairSpec
CONSTANTS
    Cameras = {c1, c2}
    Pids = {p1, p2}
    Requests = {r1, r2}
    None = None
    MaxActive = 1
    DatabaseMayFail = TRUE
INVARIANTS
    TypeOK
    NoStrayWorker
    CapacityRespected
    StatusTellsTruth
PROPERTIES
    RequestsEnd
