CONSTANTS
    Sealers = {"s1", "s2"}
    Pushers = {"p1", "p2"}
    Cadence = 3
    AgeCadence = 1
    StartMayRaise = TRUE
    MaxCapsules = 4
    MaxPushes = 2
    MaxTime = 2
SPECIFICATION FairSpec
INVARIANTS
    OneBuilder
PROPERTIES
    WindowsAreCovered
    PushReturns
\* A dispatch slot lost to StartRaises stops push() for good.
CHECK_DEADLOCK FALSE
