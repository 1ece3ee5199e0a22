SPECIFICATION Spec
CONSTANTS
    Resources = {r1}
    MaxRev = 2
    Workers = {w1}
    MaxRetries = 2
    MaxFaults = 0
    Skew = 1
INVARIANTS HealthTruthful
CHECK_DEADLOCK FALSE
