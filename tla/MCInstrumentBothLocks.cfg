SPECIFICATION Spec
CONSTANTS
    None = None
    t1 = t1
    t2 = t2
    openai = openai
    google = google
    completions = completions
    beta = beta
    models = models
    Threads = {t1, t2}
    Targets <- TwoTargets
    Root <- RootOf
    Requires <- Imported
    MaxImports = 1
    MaxUninstalls = 0
PROPERTY LaterImportsEnd
CHECK_DEADLOCK FALSE
