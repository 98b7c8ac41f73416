\* Two capped loops one after the other under a fair host; a hook killed once, a gate or a
\* latch, any cancel.
SPECIFICATION FairSpec
CONSTANTS
    Caps = {2}
    Formats = {"plain"}
    DiskFails = FALSE
    MaxLoops = 2
    MaxIteration = 3
    MaxNonces = 3
    MaxUpsets = 1
    MaxKills = 1
INVARIANTS
    NoLoopLost
    CapHolds
PROPERTIES
    ReceiptIsCurrent
    LoopEnds
CHECK_DEADLOCK FALSE
