SPECIFICATION Spec
CONSTANTS
    Cameras = {c1}
    Pids = {p1, p2}
    Requests = {r1, r2}
    None = None
    MaxActive = 1
    DatabaseMayFail = FALSE
INVARIANTS
    LiveWorkerHasCamera
