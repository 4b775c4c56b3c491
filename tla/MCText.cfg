SPECIFICATION MCSpec
CONSTANTS
    None = None
    Size = 3
    IdStart = 5
    Layout <- RootAndModule
    FileIds = 2
    Names = {"a", "b"}
    Type = "T"
    Lookups <- PathsOfCalls
    MaxSymbols = 3
    MaxDepth = 3
    Files = {"a", "t"}
    FileTypeOf <- TestOrSource
    TextsOf <- TwoTexts
    Limits = {1, 2}
    Overfetch = 2
    AppendixCap = 1
    FlatMax = 4
    HnswMax = 10
    TurboMax = 20
    Gpu = FALSE
    MemoryFits = TRUE
    MaxRuns = 2
    MaxEdits = 1
    ChunkIds = {"c", "d"}
    Codes <- CodesOfTwoVersions
    Null <- NoCode
    MaxRows = 3
    BatchSize = 2
    RawKs = {1, 2}
    Width = 2
    Projections = 3
    Rotated <- OnePair
    Projected <- ThreeProjections
    Bodies <- SmallFiles
    OwnPath <- PathOfFile
    Indexes <- ParsedFiles
    MaxOwned = 2
    Project <- FoundryProject
    HiddenDirs = {}
    GitIgnored <- Built
    Unreadable <- Scanned
    MaxChanges = 3
INVARIANTS
    ScopesFollowTree
    CallsCountedOnce
    PlainNamesResolve
    EverySymbolRendered
    FilesRead
    LettersKept
    ChunksAdvance
    PagesKept
    
CHECK_DEADLOCK FALSE
