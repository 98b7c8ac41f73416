SPECIFICATION ProgressSpec
CONSTANTS
    f1 = f1
    f2 = f2
    f3 = f3
    Anonymous = Anonymous
    None = None
    NumItems = 3
    Workers = {w1}
    Files = {f1, f2, f3}
    Fingerprints = {}
    Deps <- Deps3
    PlanFiles <- Plan3
    SourceRefs <- Spec3
    Rank <- Rank3
    MaxFailures = 2
    EmptyPolls = 2
    Targets = {}
    AllowReopen = FALSE
    Crashes = FALSE
    MaxFences = 4
    MaxEpochs = 0
    MaxAcs = 1
    Labelled = TRUE
    Emitters = {e1}
    MaxEmits = 1
INVARIANTS
    DrainedMeansDone
    NoConflictingWork
    DependenciesFirst
    NeverOverstated
PROPERTIES
    EverythingGetsDone
CHECK_DEADLOCK FALSE
