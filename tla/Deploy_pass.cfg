SPECIFICATION Spec
CONSTANTS
    l1 = l1
    l2 = l2
    Lambdas <- TwoLambdas
    Step = 2
    Extensions = {1, 2}
    MaxRemaining = 4
    Reschedule = 1
    TeardownTimeout = 1
    DeployingTimeout = 2
    VisitorMin = 2
    RunTime = 2
    UserOps <- ClientOps
    Apart <- LastCallApart
    MaxCalls = 3
    LastCall = 4
    MaxTime = 10
    MaxRuns = 1
INVARIANTS RemainingBounded Watched
PROPERTIES EndsDown
CHECK_DEADLOCK FALSE
