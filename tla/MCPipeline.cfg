SPECIFICATION Spec
CONSTANTS
    None = None
    p = p
    f1 = f1
    f2 = f2
    Models = {p, f1, f2}
    Primary = p
    Configs <- MixedConfigs
    Errors <- AllErrors
    Costs = {1, 3, None}
    Estimate = 2
INVARIANTS
    TypeOK RequestsBounded SettledAtTheEnd AllTargetsReported RecordTells
PROPERTIES PolicyErrorsAreFinal Terminates
