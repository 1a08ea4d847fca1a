CONSTANTS
    Witnesses <- TwoWitnesses
    FaultKinds = {"unreachable", "lost", "backfill", "cose", "stamp", "build"}
    MaxCapsules = 2
    MaxCycles = 3
    MaxFaults = 1
    MaxCrashes = 1
SPECIFICATION FairSpec
INVARIANTS
    ConfirmedWasAccepted
    StampsChain
PROPERTY
    CaughtUp
