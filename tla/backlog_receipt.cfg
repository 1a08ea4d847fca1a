CONSTANTS
    Witnesses <- OneWitness
    FaultKinds = {"build"}
    MaxCapsules = 2
    MaxCycles = 2
    MaxFaults = 1
    MaxCrashes = 0
SPECIFICATION Spec
INVARIANT
    ReceiptCoversCall
