SPECIFICATION Spec
CONSTANTS
    w = w
    s = s
    g = g
    Names = {w, s, g}
    NoVar = NoVar
    None = None
    Unparsed = Unparsed
    TooLong = TooLong
    Stripped <- MCStripped
    Cells <- MCCells
    Runs = {r1}
    Edits <- PathEdits
    InitOrders <- MCInitOrders
    InitEntries <- MCInitEntries
INVARIANT EditedStillHasPath
CHECK_DEADLOCK FALSE
