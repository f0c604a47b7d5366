SPECIFICATION DataSpec
CONSTANTS
    Menus <- AllMenus
    Solvables <- Solvs
    Structs <- Subs
    Names <- KeyNames
    Items <- AllItems
    CarefulEdits = TRUE
    HashThres = 2
    HashMin = 1
    DepIds = {1, 2, 3}
    MaxBuf = 7
    Careful = TRUE
    Worlds <- MCWorlds
    Queries <- MCQueries
    Cases <- MCCases
    Ascii = {1, 2, 3, 4, 5, 6, 7, 9, 20, 21, 22, 23, 24}
    HashOfThree <- MCHash
    MaxTries = 2
    LitMax = 2
    CLen = 2
    COff = 4
    DLen = 1
    DOff = 2
    ELen = 3
    EOff = 64
    FLen = 2
    SumLen = 2
    ChunkSize = 9
    ByteCases <- MCBytes
    BlobSize = 9
    MinMapped = 3
    MaxLoads = 4
    PageFiles <- MCPageFiles
INVARIANTS
    AreaIsStore
    IteratorExact
    SameAsSearch
    FileRoundTrip
    BytesComeBack
PROPERTY
    DepsUnified
CHECK_DEADLOCK FALSE
