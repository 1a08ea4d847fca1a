SPECIFICATION Spec
CONSTANTS
    Clients = {c1, c2}
    Ids = {i1, i2}
    Bodies = {r1, r2}
    PathSets = {p1, p2}
    Engines = {"mysql", "mysql rc", "sqlite"}
    MaxFailed = 1
SYMMETRY Interchangeable
INVARIANT IndexIsWhole
PROPERTY KeepsTheContract
