SPECIFICATION LockSpec
CONSTANTS
    w1 = w1
    w2 = w2
    w3 = w3
    f = f
    g = g
    fAbs = fAbs
    fAlias = fAlias
    gAbs = gAbs
    gAlias = gAlias
    NoPath = NoPath
    Workers <- MCWorkers
    Files <- MCFiles
    Paths <- MCPaths
    Canonical <- MCCanonical
    Aliased <- MCAliased
INVARIANTS
    LockBacked
PROPERTIES
    Unlocks
