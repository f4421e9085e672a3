SPECIFICATION PartsSpec
CONSTANTS
    Scans = {s1, s2}
    MaxTsn = 2
    MaxCommand = 3
    MaxSession = 2
    Cursors = {c1, c2}
    MaxConnect = 4
    MaxStmt = 4
    natts = 2
    BaseClauses = {"b"}
    ParamClauses = {"p"}
    Names = {"c1", "c2", "ctid"}
    attname <- TwoColumns
    Renames <- TwoRenames
    MaxRow = 2
    Values <- Words
    Tried <- WordsTried
    parse_int <- Numbers
    parse_bool <- Truths
    Characters = {"x", "q", "-", ")"}
    Trees <- AllTrees
    meaning <- Meant
    WhereLists <- ConditionLists
    Offsets <- ZoneOffsets
    ColumnSizes = {0, 1, 10, 65532}
    FetchSize = 2
INVARIANTS
    PartsTypeOK
    OneSnapshot
    NotBeforeCommand
    HandlesUsedLive
    NothingLeaks
    StatementsLive
    ConditionsDecided
    ValuesInPlace
    ColumnsFit
    
    ConnectArgumentsGiven
    AppliedUsable
    SignalsHandedOn
    TextReadsBack
    OffsetReadsBack
    TextsWhole
PROPERTIES
    SnapshotsForward
CHECK_DEADLOCK FALSE
