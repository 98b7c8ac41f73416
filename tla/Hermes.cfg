\* Two threads, two requests of one session and three attempts at them.
SPECIFICATION FairSpec
CONSTANTS
    Threads = {t1, t2}
    Nobody = Nobody
    Nothing = Nothing
    r1 = r1
    r2 = r2
    s1 = s1
    Requests = {r1, r2}
    Sessions = {s1}
    Subjects <- MCSubjects
    SessionOf <- MCSessionOf
    TurnOf <- MCTurnOf
    Middleware = TRUE
    MaxUpsets = 1
    MaxPrepared = 2
    MaxTracked = 1
    MaxReceipts = 2
    MaxHooks = 4
INVARIANTS
    OwnAnswer
    CountedOnceInWindow
PROPERTIES
    MiscreditOnlyWhenForgotten
    EveryHookReturns
CHECK_DEADLOCK FALSE
