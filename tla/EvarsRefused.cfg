SPECIFICATION Spec
CONSTANTS
    None = None
    NoVar = NoVar
    Procs = {p1}
    Entries <- FullNames
    NextNames <- MCNextNames
    InitRaws <- MCInitRaws
INVARIANT SetIsStored
CHECK_DEADLOCK FALSE
