SPECIFICATION Spec
CONSTANTS
    f = f
    n1 = n1
    n2 = n2
    Names = {f, n1, n2}
    Foreign = {f}
    NoVar = NoVar
    None = None
    Unparsed = Unparsed
    TooLong = TooLong
    WinOptData <- MCWinOptData
    Texts <- MCTexts
    Units <- MCUnits
    Runs = {r1}
    Requests <- BcdPathRequests
    Templates <- WindowsPath
    InitOrders <- OneOrder
    EnvBudget = 0
INVARIANT BcdSuccessIsAsRequested
CHECK_DEADLOCK FALSE
