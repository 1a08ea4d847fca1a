SPECIFICATION Spec
CONSTANTS
    MaxLines = 3
    MaxTries = 2
    Witnesses = {"w1", "w2"}
    Runners = {"r1", "r2"}
    Writer = "r1"
    Nodes <- MCNodes
    Cadence = 2
INVARIANTS CutsChain DeliveryIsAccounted ReopenFindsTheChain
PROPERTY CutsCoverTheLedger
CHECK_DEADLOCK FALSE
