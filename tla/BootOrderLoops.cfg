SPECIFICATION Spec
CONSTANTS
    None = None
    Datas <- MCDatas
    Lists <- MCLists
INVARIANTS
    TypeOK
    RoundTrip
    LoopsMatchDefinitions
CHECK_DEADLOCK FALSE
