SPECIFICATION Spec
CONSTANTS
    f = f
    n1 = n1
    n2 = n2
    Names = {f, n1, n2}
    Foreign = {f}
    NoVar = NoVar
    None = None
    Unparsed = Unparsed
    TooLong = TooLong
    WinOptData <- MCWinOptData
    Texts <- MCTexts
    Units <- MCUnits
    Runs = {r1, r2}
    Requests <- WinApiRequests
    Templates <- WindowsPath
    InitOrders <- OneOrder
    EnvBudget = 1
INVARIANTS
    TypeOK
    NameIsOwn
    ArmedIsComplete
PROPERTIES
    OthersUntouched
    ImplementsLifecycle
CHECK_DEADLOCK FALSE
