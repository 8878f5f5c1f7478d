SPECIFICATION FairSpec
CONSTANTS
    f = f
    n1 = n1
    n2 = n2
    Names = {f, n1, n2}
    Foreign = {f}
    NoVar = NoVar
    None = None
    Unparsed = Unparsed
    TooLong = TooLong
    WinOptData <- MCWinOptData
    Texts <- MCTexts
    Units <- MCUnits
    Runs = {r1}
    Requests <- AllRequests
    Templates <- AllPaths
    InitOrders <- DanglingOrders
    EnvBudget = 1
INVARIANTS
    SuccessIsAsRequested
    ListedAtEnd
    DecodesAsItsBytes
PROPERTIES
    RunsEnd
CHECK_DEADLOCK FALSE
