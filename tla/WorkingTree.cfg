\* The user acts at any moment, in the middle of a crawl too.
SPECIFICATION Spec
CONSTANTS
    Sources <- OneSource
    Manifests <- TwoManifests
    FolderOf <- FoldersTwo
    SuffixesOf <- SuffixesTwo
    Missing = Missing
    DefaultConfig <- Usual
    LocalConfigs <- AnyLocal
    GlobalConfigs <- AnyGlobal
    Contents = {"c1", "c2", "c1 CRLF", "markers", "link", "empty"}
    MayHold <- MayHoldAny
    Clean <- Converting
    Link = "link"
    Target <- TargetOne
    Markers = "markers"
    Empty = "empty"
    Absent = "absent"
    NoJob = NoJob
    CatalogName = catalog
    Checkouts <- AnyCheckout
    Labels = {l1}
    UserMidCrawl = TRUE
    MergesHappen = TRUE
    MaxEdits = 2
    MaxCrawls = 2
INVARIANTS LabelListsItsSource RowsLieOnlyAfterRace
PROPERTIES FreshRowsNameTheirPackage
CHECK_DEADLOCK FALSE
