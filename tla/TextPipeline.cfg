SPECIFICATION PipelineSpec
CONSTANTS
    intro = intro
    usage = usage
    NoTitle = NoTitle
    Files <- AllFiles
    Texts <- ShortTexts
    LowerOf <- LowerCase
    Digits = {"1"}
    Joints = {"_"}
    Blanks = {" ", "-", "/", ":"}
    Cjk = {"zi"}
    Alphanumerics = {"a", "1"}
    LabelSeparators = {"-", "/"}
    Hyphen = "-"
    Colon = ":"
    MaxCatalogLength = 2
    MaxLabelLength = 3
CHECK_DEADLOCK FALSE
INVARIANTS RangesTileFile LinesInOneChunk OversizedIsUncuttable PartsNameTheirSection RegularWordsAreTokens TextsStandAlone LabelIdsFollowTheGrammar
PROPERTIES SplittingEnds
