SPECIFICATION Spec
CONSTANTS
    main = main
    feature = feature
    f0 = f0
    f1 = f1
    f2 = f2
    c1 = c1
    c2 = c2
    c3 = c3
    NULL = NULL
    Labels = {main, feature}
    Files = {f0, f1, f2}
    ChunkCount <- TwoChunks
    Commits = {c1, c2, c3}
    Tree <- Trees
    ZeroToken <- NoSearchableText
    Selections <- AllSelections
    BatchSize = 1
    CrashPhases <- Everywhere
    Errors <- AnyError
    MaxCommands = 3
    MaxFaults = 2
CHECK_DEADLOCK FALSE
INVARIANTS NoOrphanRows NoStaleRows
PROPERTIES PeersUntouched
