CONSTANTS
    Calls = {"c1", "c2", "c3"}
    Signature <- MCSignature
    Anonymous = {"c3"}
    Answering = {"c1", "c3"}
    Models = {1}
    MaxPending = 2
    MaxLost = 1
    MaxNotes = 1
    NoCall = "none"
    MaxAttempts = 3
    Spans = {"r1", "r2", "m1"}
    ParentSpan <- MCParentSpan
    RootOf <- MCRootOf
    ModelOf <- MCModelOf
    MaxRootWalk = 3
    Runs = {"c1", "c2"}
    Enclosing <- MCEnclosing
    RunModel <- MCRunModel
    LongRunning = {"c1"}
    MaxLongRunning = 1
    MaxUpdates = 2
    Gated = {"c1"}
    Toolsets = {1, 2}
    Turns = {"c1", "c2"}
    MaxRails = 2
    File <- MCFile
    Effects = {"c1", "c2", "c3"}
    MaxRuns = 2
    Threads = {"t1", "t2"}
    Ledgers = {"l1", "l2"}
    MaxCapsules = 3
    MaxSeals = 2
SPECIFICATION Spec
INVARIANTS
    CitationsAreTrue
    OutcomesAreRecordedOnce
    TurnsAreToldWhole
    ExchangesAreTrue
    RecordsAreWhole
    EgressIsAccounted
\* Every call has ended.
CHECK_DEADLOCK FALSE
