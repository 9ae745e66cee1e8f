SPECIFICATION SearchSpec
CONSTANTS
    main = main
    feature = feature
    f0 = f0
    f1 = f1
    f2 = f2
    c1 = c1
    c2 = c2
    c3 = c3
    NULL = NULL
    Labels = {main}
    Files = {f0, f1, f2}
    ChunkCount <- OneRowEach
    Commits = {c1, c2}
    Tree <- TwoTrees
    ZeroToken <- NoFault
    Selections <- AllSelections
    BatchSize = 3
    CrashPhases <- Everywhere
    Errors <- AnyError
    MaxCommands = 2
    MaxFaults = 1
    RowBefore <- RowIdBefore
    Limits = {1, 2}
    CandidateFloor = 2
CHECK_DEADLOCK FALSE
INVARIANTS UndisturbedSearchIsCurrent ShownRowsAreOfCrawledTrees EndOfResultsIsTheEnd DegradedSearchIsTold FusionRespectsAgreement
