SPECIFICATION Spec
CONSTANTS
    c1 = c1
    Cameras = {c1}
    Zones = {z1}
    CameraOf <- ZonesOfOne
    Clients = {k1}
    None = None
    QueueSize = 2
    PipeSize = 1
    MaxEvents = 3
    DatabaseMayFail = TRUE
INVARIANTS
    TypeOK
    NoGap
    InboxInOrder
PROPERTIES
    DeliverySpec
