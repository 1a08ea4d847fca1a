CONSTANTS
    c1 = c1
    c2 = c2
    wire = wire
    NoCaller = NoCaller
    NoClass = NoClass
    Callers <- MCCallers
    Classes <- MCClasses
    Subjects = {"dev"}
    Cap <- MCCap
    Tolerance <- MCTolerance
    Amounts = {0, 1, 2}
    MaxRecords = 4
    MaxCorrupt = 1
SPECIFICATION Spec
SYMMETRY MCSymmetry
INVARIANTS
    OneTerminalPerHold
    CapRespected
    AggregatesAreExact
PROPERTY
    TerminalIsFinal
