SPECIFICATION Spec
CONSTANTS
    Workers = {w1}
    Zones = {z1, z2}
    Shapes <- MCShapes
    Boxes <- MCBoxes
    Sights <- MCSights
    Candidates <- MCCandidates
    MaxEdits = 2
    None = None
INVARIANTS
    TypeOK
    NamedZoneIsEntered
    BandsByHeight
    NoGhostCrossing
    HelmetIsOnesOwn
SYMMETRY Symmetry
