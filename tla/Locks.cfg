SPECIFICATION FairSpec
CONSTANTS
    NULL = NULL
    Procs = {p1, p2}
    Catalogs = {a, b}
    MaxWrites = 2
CHECK_DEADLOCK FALSE
INVARIANTS ReadsStayCurrent NoCommitConflict
PROPERTIES EveryCommandEnds ImplementsOwnership
