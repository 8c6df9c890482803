SPECIFICATION FairSpec
CONSTANTS
    c1 = c1
    Cameras = {c1, c2}
    Zones = {}
    CameraOf <- ZonesOfOne
    Clients = {}
    None = None
    QueueSize = 2
    PipeSize = 1
    MaxEvents = 1
    DatabaseMayFail = TRUE
PROPERTIES
    QueueDrains
    StopsEnd
