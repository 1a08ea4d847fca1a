CONSTANTS
    Entry <- MCEntry
    Threads = {"a", "b", "c"}
    Procs = {"p", "q"}
    ProcOf <- MCProcOf
    Nobody = "nobody"
    MayWait = TRUE
    MaxCalls = 3
    MaxFailures = 1
    MaxCrashes = 1
SPECIFICATION FairSpec
INVARIANT
    OneWriter
PROPERTIES
    ImplementsLog
    AppendReturns
