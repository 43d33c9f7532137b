SPECIFICATION SharedSpec
CONSTANTS
    None = None
    g1 = g1
    g2 = g2
    e1 = e1
    e2 = e2
    c1 = c1
    c2 = c2
    Similarity <- Percent
    Earlier <- EmptyOrFull
    Prompts <- AllPrompts
    Configs <- AllConfigs
    Answers <- BothReplies
    Calls = {c1, c2}
    MaxEntries = 2
    MaxTime = 1
    MaxRemovals = 1
    Stores = {"memory", "redis"}
    Groups = {g1, g2}
    MaxGroupSize = 2
SYMMETRY Symmetry
INVARIANTS TypeOK StoresBounded SameQuestion ServedAlive HoldsAnswers
PROPERTY EvictsLeastRecent
