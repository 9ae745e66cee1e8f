SPECIFICATION FairSpec
CONSTANTS
    main = main
    feature = feature
    f0 = f0
    f1 = f1
    f2 = f2
    c1 = c1
    c2 = c2
    c3 = c3
    NULL = NULL
    Labels = {main, feature}
    Files = {f0, f1, f2}
    ChunkCount <- TwoChunks
    Commits = {c1, c2, c3}
    Tree <- Trees
    ZeroToken <- NoSearchableText
    Selections <- AllSelections
    BatchSize = 1
    CrashPhases <- BetweenRowEdits
    Errors <- BetweenRowErrors
    MaxCommands = 4
    MaxFaults = 1
CHECK_DEADLOCK FALSE
INVARIANTS CompleteFileHasAllChunks WholeTree FtsMatchesRows SentinelVectorCoversFile VectorCompleteHasVectors
PROPERTIES RerunRecovers
