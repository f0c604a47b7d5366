SPECIFICATION ConflictsSpec
CONSTANTS
    Predefined <- MCPredefined
    Texts <- MCTexts
    RelParts <- MCRelParts
    StrHash <- MCStrHash
    Lists <- MCLists
    RelLists <- MCRelLists
    Block = 1
    Slack = 1
    MaxStrs = 8
    MaxRels = 7
    Versions <- MCVersions
    Dists = {"rpm", "deb", "arch", "haiku"}
    Strings <- MCStrings
    Files <- MCFiles
    StdFiles <- MCStdFiles
    Marker = 8
    SplitProvides = 9
    OtherProviders = 10
    Src = 12
    NoSrc = 13
    AnyArch = 14
    KindOf <- MCKindOf
    Rpmlib = {4}
    Extra = 4
    Pools <- MCPools
    MaxSteps = 4
    Spelling <- MCSpelling
    Archs = {16}
    NoArch = 15
    SelPools <- MCSelPools
    Starts <- MCStarts
    Asked <- MCAsked
    Filters <- MCFilters
    MaxSelect = 2
    FcCases <- MCFcCases
    HashMod = 1048576
INVARIANT ConflictsFound
CHECK_DEADLOCK FALSE
