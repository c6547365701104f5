SPECIFICATION Spec
CONSTANTS
    PcTables <- PcMCTables
    PcOverwrites <- PcMCOverwrites
    PcOptions <- PcMCOptions
    StackInputs <- StackMCInputs
    StackLower <- LowerLetter
    StackBlank = ""
    CmpInputs <- CmpMCInputs
    CmpOptions <- CmpMCOptions
    DbInputs <- DbMCInputs
    DbFold <- DbMCFold
    DbBatch = 2
    DbRunsMax = 2
    CacheFiles = {"a", "b"}
    CacheRows <- CacheMCRows
    CacheValues = {1}
    CacheRoots <- CacheMCRoots
    CacheCommands = 2
    OvwCells <- OvwMCCells
    OvwValues <- OvwMCValues
    OvwBulk <- OvwMCBulk
    OvwLetters = 2
    OvwCommands = 2
    SelRuns <- SelMCRuns
    SelLower <- SelMCLower
    SelMaxColumns = 4
    SelFastColumns = 3
    FxInputs <- FxMCInputs
    FxGiven <- FxMCGiven
    FxPreview = 5
    FxBuffer = 4
    FxMargin = 1
    FastDocs <- FastMCDocs
    FastBlock = 2
    FastBuffers = {4}
    MaxCols = 3
    OnlyCrlf = FALSE
    ScrFold <- LowerLetter
    ScrTokens = 10
    ScrFiles <- ScrMCFiles
    ScrStarts <- ScrMCStarts
    ScrKeys <- ScrMCKeys
    ScrTexts <- ScrMCTexts
    ScrLines <- ScrMCLines
    ScrSpecs <- ScrMCSpecs
    ScrSizes <- ScrMCSizes
    ScrBuffer = 8
    ScrStatic = 256
    ScrMinWidth = 10
    ScrArgs = 5
    ScrKeysMax = 5
    ScrDepth = 3
    ScrNumberMax = 9
INVARIANTS
    CallerSeesTheTable
    RowsAreNumbered
    AbortIsFinal
    StackedRowsKeepTheirNames
    RowsAreMatchedByKey
    ExitCodeCountsDifferences
    TargetIsNeverPartial
    SuccessMeansStored
    PropertiesAreNeverTorn
    OnlyWhatIsNamedChanges
    SetIsAllOrNothing
    BulkIsAtomicUntilARowFails
    ListedAddressesLeadBack
    
    FailedHeaderLeavesTheFile
    FixedRowsAreTheLines
    
    ScreenShowsTheSelection
    
PROPERTY
    KeysMoveAsTheHelpSays
