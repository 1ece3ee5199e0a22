SPECIFICATION Spec
CONSTANTS
    MaxId = 3
    MaxOpen = 2
    BatchSize = 2
    Wanted = {1, 3}
    MaxConnects = 2
    MaxRevokes = 1
    Sweeps = TRUE
INVARIANTS OrderedOnce OnlyLateOrSwept EntitledOnly
PROPERTIES GapSeen Followed
CHECK_DEADLOCK FALSE
