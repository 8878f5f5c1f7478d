SPECIFICATION Spec
CONSTANTS
    None = None
    NoVar = NoVar
    Procs = {p1, p2}
    Entries <- MCEntries
    NextNames <- MCNextNames
    InitRaws <- MCInitRaws
INVARIANTS
    TypeOK
    EntriesKept
    NoRepeats
CHECK_DEADLOCK FALSE
