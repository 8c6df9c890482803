SPECIFICATION Spec
CONSTANTS
    Tabs = {t1, t2}
    Cameras = {c1, c2}
    None = None
    Unborn = Unborn
    Deleted = Deleted
    CallsMayFail = TRUE
    MaxClicks = 2
INVARIANTS
    TypeOK
    OwnWritesShown
    ModeReachesWorker
SYMMETRY Symmetry
\* The operator has done all that the bound allows.
CHECK_DEADLOCK FALSE
