\* Two processes, three commands; one kill or failed write at any step.
SPECIFICATION FairSpec
CONSTANTS
    Writers = {w1, w2}
    Nobody = Nobody
    NoSpindle = NoSpindle
    MaxHandoffs = 2
    MaxCommands = 3
    MaxKills = 1
INVARIANTS
    TailFollowsHead
    LatchHolds
PROPERTIES
    EveryAppendReturns
CHECK_DEADLOCK FALSE
