SPECIFICATION Spec
CONSTANTS
    Files = {1, 2}
    Images = {3}
    Workers = {1, 2}
    MaxKeys = 1
    MaxTransfers = 1
    MaxIntents = 4
    MaxRequests = 3
    MaxFaults = 1
INVARIANTS BytesKept CertifiedUnlessLate NoOrphan ImagesKept
PROPERTIES ComesClean
CHECK_DEADLOCK FALSE
