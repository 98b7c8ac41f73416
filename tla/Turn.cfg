\* Two processes that overlap and die, two goals, a criterion that moves when one is put
\* before it or typed twice, a vague one, two contracts and a file; and a journal of
\* three rows beside two events, over two seconds, with thresholds of two.
SPECIFICATION TurnSpec
CONSTANTS
    Procs = {p1, p2}
    Texts = {a, b, v}
    a = a
    b = b
    v = v
    Lists <- MCLists
    Vague = {v}
    Goals = {g1, g2}
    NoGoal = NoGoal
    Contracts = {c, d}
    Closed = {c}
    NoContract = NoContract
    f = f
    Files <- MCFiles
    Marks = {"partial", "done", "waived"}
    MaxCommands = 3
    f1 = f1
    d1 = d1
    NoFp = NoFp
    K = 2
    Window = 2
    PlanInterval = 2
    Fps <- MCFps
    EventFps <- MCEventFps
    MaxRows = 3
    MaxEvents = 2
    MaxClock = 1
    MaxIterations = 2
SYMMETRY MCSymmetry
INVARIANTS
    CreditIsEarned
    PassEndsStall
PROPERTIES
    GoalHeld
    NoNewFileSlips
    PlannerHeedsStall
CHECK_DEADLOCK FALSE
