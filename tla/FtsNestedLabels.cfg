SPECIFICATION Spec
CONSTANTS
    main = main
    feature = feature
    v1 = v1
    v2 = v2
    NULL = NULL
    Labels = {main, feature}
    Inner <- Nested
    r1 = r1
    r2 = r2
    Rows = {r1, r2}
    Ids = {v1, v2}
    FirstIds = v1
    Upgrades <- OneUpgrade
    CrashPoints <- NoCrash
    MaxCommands = 3
    MaxFaults = 0
CHECK_DEADLOCK FALSE
INVARIANT CompleteHasIndex
