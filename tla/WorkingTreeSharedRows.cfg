\* The user acts between crawls only; one merge stops at a conflict.
SPECIFICATION Spec
CONSTANTS
    Sources <- OneSource
    Manifests <- OneManifest
    FolderOf <- FoldersOne
    SuffixesOf <- SuffixesTwo
    Missing = Missing
    DefaultConfig <- Usual
    LocalConfigs <- NoConfig
    GlobalConfigs <- NoConfig
    Contents = {"c1", "c2", "markers", "link", "empty"}
    MayHold <- MayHoldPlain
    Clean <- AsItIs
    Link = "link"
    Target <- NoTarget
    Markers = "markers"
    Empty = "empty"
    Absent = "absent"
    NoJob = NoJob
    CatalogName = catalog
    Checkouts <- CleanCheckout
    Labels = {l1}
    UserMidCrawl = FALSE
    MergesHappen = TRUE
    MaxEdits = 4
    MaxCrawls = 2
INVARIANTS CommitLabelShowsItsCommit
CHECK_DEADLOCK FALSE
