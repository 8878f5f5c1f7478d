SPECIFICATION Spec
CONSTANTS
    p = p
    q = q
    x = x
    y = y
    Procs = {p, q}
    Ids = {x, y}
    None = None
    Malformed = Malformed
    Bootmgr = Bootmgr
    Fwbootmgr = Fwbootmgr
    Commands <- MCCommands
    InitOrders <- MCInitOrders
    MaxCalls = 3
INVARIANTS
    FilterIsAllOrNothing
    NoRepeats
    BootmgrStays
    EnumReadsBack
CHECK_DEADLOCK FALSE
