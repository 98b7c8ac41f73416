SPECIFICATION Spec
CONSTANTS
    f1 = f1
    Anonymous = Anonymous
    None = None
    NumItems = 2
    Workers = {w1, w2}
    Files = {f1}
    Fingerprints = {x, y}
    Deps <- Deps2
    PlanFiles <- Free2
    SourceRefs <- Shared2
    Rank <- Rank2
    MaxFailures = 2
    EmptyPolls = 1
    Targets = {"running", "ready"}
    AllowReopen = FALSE
    Crashes = TRUE
    MaxFences = 2
    MaxEpochs = 1
INVARIANTS
    LeaseOwnsAttempt
    AcceptedTokenClosedItsAttempt
    LapsedNeverCloses
    PoisonIsParked
    WorkspaceNotBehind
PROPERTIES
    AttemptHistoryImmutable
    ImplementsLeasedQueue
SYMMETRY Symmetric
CHECK_DEADLOCK FALSE
