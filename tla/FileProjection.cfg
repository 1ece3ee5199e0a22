SPECIFICATION Spec
CONSTANTS
    Files = {f}
    Texts = {x, y}
    Binary = binary
    Workers = {w1, w2}
    MaxRetries = 1
    MaxVersion = 3
    MaxFaults = 1
    MaxRequeues = 1
    Cascades = TRUE
INVARIANTS HealthTruthful
PROPERTIES Settles
CHECK_DEADLOCK FALSE
