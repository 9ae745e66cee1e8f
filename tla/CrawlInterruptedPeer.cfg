SPECIFICATION FairSpec
CONSTANTS
    main = main
    feature = feature
    f0 = f0
    f1 = f1
    f2 = f2
    c1 = c1
    c2 = c2
    c3 = c3
    NULL = NULL
    Labels = {main, feature}
    Files = {f0, f1, f2}
    ChunkCount <- TwoChunks
    Commits = {c1, c2}
    Tree <- Trees
    ZeroToken <- NoSearchableText
    Selections <- VectorOnly
    BatchSize = 1
    CrashPhases <- OnlyUpload
    Errors <- NoFault
    MaxCommands = 4
    MaxFaults = 1
CHECK_DEADLOCK FALSE
PROPERTIES RerunRecovers
