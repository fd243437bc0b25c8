SPECIFICATION Spec
CONSTANTS
    Conns = {c1, c2}
    Tasks = {t1}
    Requests <- mcRequests
    Produced <- mcProduced
    Defaults = {0, 1}
    MaxCommands = 5
    MaxCrashes = 1
    MaxFaults = 1
SYMMETRY mcSymmetry
INVARIANT ExclusiveHasOneConsumer
CHECK_DEADLOCK FALSE
