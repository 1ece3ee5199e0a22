SPECIFICATION Spec
CONSTANTS
    Chunks = {c1}
    Embedders = {w1, w2}
    Deleters = {d1}
    MaxRetries = 2
    MaxFaults = 2
    Stores = {TRUE, FALSE}
    Nobody = Nobody
INVARIANTS NoOrphan IndexedTrue
PROPERTIES Settles
CHECK_DEADLOCK FALSE
