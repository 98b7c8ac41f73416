SPECIFICATION FairSpec
CONSTANTS
    a = a
    b = b
    NoSource = NoSource
    Publishers = {p, q}
    Bundles <- TwoBuilds
    MaxMaster = 3
    MaxKills = 1
INVARIANTS
    TagCarriesItsRelease
PROPERTIES
    TaggedVersionIsClosed
    FinalIsFinished
CHECK_DEADLOCK FALSE
