SPECIFICATION Spec
CONSTANTS
    w = w
    s = s
    g = g
    Names = {w, s, g}
    NoVar = NoVar
    None = None
    Unparsed = Unparsed
    TooLong = TooLong
    Stripped <- MCStripped
    Cells <- MCCells
    Runs = {r1, r2}
    Edits <- MCEdits
    InitOrders <- MCInitOrders
    InitEntries <- MCInitEntries
INVARIANTS
    OnlyPathEntriesChange
    OptDataKept
CHECK_DEADLOCK FALSE
