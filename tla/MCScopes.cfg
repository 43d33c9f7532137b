SPECIFICATION Spec
CONSTANTS
    None = None
    main = main
    child = child
    s = s
    w = w
    f = f
    b1 = b1
    b2 = b2
    strict = strict
    weak = weak
    Tasks = {main, child}
    First = main
    Shields = {s, w}
    PIIConfigs = {strict, weak}
    Functions = {f}
    Budgets = {b2}
    Options <- ThreeScopes
    MaxScopes = 2
    MaxDepth <- Depth
    Uses <- Enters
INVARIANTS TypeOK EveryScopeApplies
PROPERTY CallersRunOnce
