SPECIFICATION Spec
CONSTANTS
    None = None
    b1 = b1
    b2 = b2
    NCalls = 2
    Budgets = {b1, b2}
    BudgetsOf <- SameOrder
    MaxCost <- MaxCostOne
    InitLimit <- TwoAndOne
    Estimates = {1, 2, None}
    Costs = {0, 3, None}
    Additions <- AddOne
    Limits = {1, 3}
    RacingResets = TRUE
    MaxPasses = 2
    MaxInterventions = 1
INVARIANTS TypeOK NoLeak NoOvershoot InFlightCovered AllOrNothing SomeoneWins
PROPERTIES KeepsThePromise EverySettled
