SPECIFICATION Spec
CONSTANTS
    c1 = c1  c2 = c2  r1 = r1  r2 = r2  p1 = p1  p2 = p2
    Ids <- MCIds
    Bodies <- MCBodies
    PathSets <- MCPathSets
    FilePorts <- MCFilePorts
    MemoryPorts <- MCMemoryPorts
    MaxLines = 3
    MaxFailed = 1
SYMMETRY Interchangeable
INVARIANT IndexMissesOnlyFailed
PROPERTIES KeepsTheContract PurgeReachesEveryLine
