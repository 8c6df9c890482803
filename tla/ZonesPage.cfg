CONSTANTS
    Zones = {z1, z2}
    Closed = Closed
    New = New
    Unborn = Unborn
    Deleted = Deleted
    None = None
    Points <- MCPoints
    Row <- MCRows
    MaxSteps = 5
    MaxWrites = 1
SPECIFICATION Spec
INVARIANT TypeOK
PROPERTY SaveKeepsRest
SYMMETRY MCSymmetry
CHECK_DEADLOCK FALSE
