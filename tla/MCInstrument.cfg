SPECIFICATION Spec
CONSTANTS
    None = None
    t1 = t1
    t2 = t2
    openai = openai
    google = google
    completions = completions
    beta = beta
    models = models
    Threads = {t1, t2}
    Targets <- ThreeTargets
    Root <- RootOf
    Requires <- Imported
    MaxImports = 2
    MaxUninstalls = 1
INVARIANTS TypeOK WrappedOnce
PROPERTIES EnsureCovers LaterImportsCovered
CHECK_DEADLOCK FALSE
