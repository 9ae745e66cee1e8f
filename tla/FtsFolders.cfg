SPECIFICATION FairSpec
CONSTANTS
    main = main
    feature = feature
    v1 = v1
    v2 = v2
    NULL = NULL
    Labels = {main, feature}
    Inner <- Flat
    r1 = r1
    r2 = r2
    Rows = {r1, r2}
    Ids = {v1, v2}
    FirstIds = v1
    Upgrades <- OneUpgrade
    CrashPoints <- WriterSteps
    MaxCommands = 3
    MaxFaults = 1
CHECK_DEADLOCK FALSE
INVARIANTS ManifestTellsIndex CompleteHasIndex
PROPERTIES FoundIsCompatible CrawlRecovers
