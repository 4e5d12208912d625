\* Every text of up to five characters, with a string quote and a name quote.
SPECIFICATION TextSpec
CONSTANTS
    StringQuotes <- OneString
    NameQuotes <- OneName
    MaxLen = 5
INVARIANTS
    ScanMatchesLexer
    PiecesStandAlone
    DriversBindAlike
CHECK_DEADLOCK FALSE
