SPECIFICATION Spec
CONSTANTS
    Resources = {r1}
    MaxRev = 3
    Workers = {w1, w2}
    MaxRetries = 2
    MaxFaults = 2
    Skew = 0
INVARIANTS HealthTruthful
PROPERTIES NeverBackwards Settles
CHECK_DEADLOCK FALSE
