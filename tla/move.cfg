CONSTANTS
    Sealers = {"s1", "s2"}
    Engines = {"h"}
    Importers = {"i1", "i2"}
    Nobody = "nobody"
    NoKey = "none"
    FlatKey = "fk"
    MaxLines = 2
    MaxFailures = 1
SPECIFICATION FairSpec
INVARIANTS
    NothingLeftBehind
    MoveIsSeamless
PROPERTIES
    StoreOnlyGrows
    CallsEnd
\* The number of lines written is bounded.
CHECK_DEADLOCK FALSE
