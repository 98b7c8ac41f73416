SPECIFICATION FairSpec
CONSTANTS
    Sessions = {a, b}
    StaleHours = 1
    MaxClock = 1
    MaxSurveys = 2
    MaxUpsets = 1
INVARIANTS
    LaterClaimIsJustified
PROPERTIES
    ChangesLostOnlyToReturn
    CleanupFinishes
CHECK_DEADLOCK FALSE
