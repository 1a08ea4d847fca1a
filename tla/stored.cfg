CONSTANTS
    Writers = {"w1", "w2"}
    Importers = {"i"}
    Nobody = "nobody"
    FlatLength = 2
    Bucket = 3
    MaxMade = 5
    MaxCalls = 3
    MaxFaults = 2
SPECIFICATION FairSpec
INVARIANTS
    EntriesHaveRecords
    LinesAreThePrefix
    NoPartialImport
PROPERTIES
    ChainIsKept
    ImportCompletes
\* Writers stop after MaxCalls calls.
CHECK_DEADLOCK FALSE
