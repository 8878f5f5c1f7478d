SPECIFICATION FairSpec
CONSTANTS
    a = a
    b = b
    Names = {a, b}
    NoVar = NoVar
    None = None
    Unparsed = Unparsed
    Nul = "nul"
    PathHeader = "path"
    Block = 2
    Hints <- MCHints
    InitOrders <- MCInitOrders
    Contents <- MCContents
INVARIANTS
    TypeOK
    FoundAsRead
    UndisturbedIsExact
    BufferBounded
PROPERTY
    SearchEnds
CHECK_DEADLOCK FALSE
