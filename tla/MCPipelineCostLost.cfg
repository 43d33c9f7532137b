SPECIFICATION Spec
CONSTANTS
    None = None
    p = p
    f1 = f1
    f2 = f2
    Models = {p, f1, f2}
    Primary = p
    Configs <- FullConfig
    Errors <- AllErrors
    Costs = {1, None}
    Estimate = 2
INVARIANT EveryCostRecorded
