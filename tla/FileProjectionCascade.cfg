SPECIFICATION Spec
CONSTANTS
    Files = {f}
    Texts = {x}
    Binary = binary
    Workers = {w1}
    MaxRetries = 2
    MaxVersion = 2
    MaxFaults = 0
    MaxRequeues = 0
    Cascades = TRUE
INVARIANTS FreshWhenDone
CHECK_DEADLOCK FALSE
