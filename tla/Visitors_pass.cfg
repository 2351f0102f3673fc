SPECIFICATION Spec
CONSTANTS
    ana = ana
    bia = bia
    l1 = l1
    l2 = l2
    Visitors <- TwoVisitors
    Lambdas <- TwoLambdas
    Order <- TwoServices
    SelfOverlap = FALSE
    WhileReprovision = FALSE
    MaxCalls = 3
    MaxStarts = 2
    MaxFaults = 1
SYMMETRY Symmetry
INVARIANTS MailedLogsIn NobodyForgotten AccountsMatch
CHECK_DEADLOCK FALSE
