SPECIFICATION FairSpec
CONSTANTS
    NULL = NULL
    Procs = {p1, p2}
    Commands = {"init", "wipe", "write", "purge_all", "read"}
    Starts = {"absent", "foreign", "old", "good"}
    MaxCrashes = 2
    CrashSpots = {"look", "make", "use"}
CHECK_DEADLOCK FALSE
INVARIANTS OpenedUnderLockIsGood
PROPERTIES OnlyWipeUnmakes WipeRecovers ImplementsLife
