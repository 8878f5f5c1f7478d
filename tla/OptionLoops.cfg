SPECIFICATION FairSpec
CONSTANTS
    Unparsed = Unparsed
    NoCells = NoCells
    Units <- MCUnits
    Options <- MCOptions
    Requests <- MCRequests
    Raws <- MCRaws
INVARIANTS
    NodesTile
    DecodesAsItsCells
    DescriptionReadsBack
    BuiltReadsBack
PROPERTY
    ParserEnds
CHECK_DEADLOCK FALSE
