SPECIFICATION Spec
CONSTANTS
    Procs = {p1}
    Texts = {a, b}
    a = a
    b = b
    Lists <- MCLists1
    Vague = {}
    Goals = {g1}
    NoGoal = NoGoal
    Contracts = {}
    Closed = {}
    NoContract = NoContract
    Files = {}
    Marks = {"pending", "done"}
    MaxCommands = 3
    MaxNonces = 1
    MaxIssues = 1
    MaxReports = 2
    MaxVerifies = 1
    MaxClock = 1
INVARIANTS
    AcceptedWasDone
    AcceptedIsFresh
CHECK_DEADLOCK FALSE
