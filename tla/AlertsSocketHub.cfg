SPECIFICATION Spec
CONSTANTS
    Chains = {a, b}
    None = None
    FirstRetry = 1
    MaxRetry = 3
    BuzzLength = 2
    Handles = {h, i}
    MaxAlerts = 2
SYMMETRY Symmetry
INVARIANTS
    TypeOK
    ReconnectsInTime
    NoAlertMissed
    HeardOnce
    BuzzEnds
