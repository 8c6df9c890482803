SPECIFICATION FairSpec
CONSTANTS
    Persons = {p1}
    Cooldown = 2
    RedBuzz = 1
    HelmetCooldown = 4
    BootTimes <- LateBoot
    MaxClock = 10
    MaxReadFailures = 2
    FrameSkip = 2
INVARIANTS
    TypeOK
    AlarmTellsOccupancy
PROPERTIES
    EntryAlerts
    AlertSpacing
    StopEnds
    DeadFileEnds
\* The process ends, and the clock stops at its bound.
CHECK_DEADLOCK FALSE
