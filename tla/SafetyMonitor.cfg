SPECIFICATION Spec
CONSTANTS
    Persons = {p1, p2}
    Batch = 2
    FrameSkips = {1, 2}
    MaxFrames = 4
    MaxStrays = 1
SYMMETRY AnyPerson
INVARIANTS
    TypeOK
    AlarmMatchesFrame
    LogTellsOccupancy
    AudioMatchesVideo
    VideoKept
\* The process ends.
CHECK_DEADLOCK FALSE
