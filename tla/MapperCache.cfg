SPECIFICATION Spec
CONSTANTS
    Hooks = {h1, h2}
    Agents = {m}
    Sessions = {s1}
    Nothing = Nothing
    Runtime = Runtime
    MaxCalls = 3
    MaxBusy = 2
    MaxEvents = 2
INVARIANTS
    HandedOutIsCurrent
    WithheldWasGiven
SYMMETRY Symmetric
CHECK_DEADLOCK FALSE
