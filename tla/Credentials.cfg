SPECIFICATION Spec
CONSTANTS
    p = p
    q = q
    Procs = {p, q}
    Keys = {1, 2, 3}
    Dirs = {"here"}
    None = None
    Raises = Raises
    Shapes <- MCShapes
    Images <- MCImages
    InitFiles <- MCInitFiles
    Commands <- AllCommands
    MaxCalls = 2
INVARIANTS
    TypeOK
    HashedInOrderOnce
    SignedVerifies
    ReadsBack
    SignedAsChecked
PROPERTY
    NoStaleDer
CHECK_DEADLOCK FALSE
