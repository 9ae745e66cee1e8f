SPECIFICATION FairSpec
CONSTANTS
    NULL = NULL
    f = f
    g = g
    AllChunks <- PipelineChunks
    Methods = {"vector", "fts"}
    Threads = {t1, t2}
    NumWorkers = 2
    BatchSize = 1
    MaxFaults = 2
CHECK_DEADLOCK FALSE
INVARIANTS CompletionIsShown
PROPERTIES ImplementsUploadPhase PhaseEnds
