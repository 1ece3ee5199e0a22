SPECIFICATION Spec
CONSTANTS
    Events = {1, 2}
    Suppressed = {2}
    Workers = {w1, w2}
    BatchSize = 2
    MaxRetries = 2
    MaxFaults = 3
    Crashes = TRUE
    Nobody = Nobody
INVARIANTS StreamTrue BoundedCopies GivenUpWhenSpent
PROPERTIES Settles
CHECK_DEADLOCK FALSE
