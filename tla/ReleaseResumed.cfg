SPECIFICATION Spec
CONSTANTS
    a = a
    b = b
    NoSource = NoSource
    Publishers = {p, q}
    Bundles <- TwoBuilds
    MaxMaster = 3
    MaxKills = 1
INVARIANTS
    WheelMatchesRelease
CHECK_DEADLOCK FALSE
