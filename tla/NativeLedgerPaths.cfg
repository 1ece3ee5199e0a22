SPECIFICATION Spec
CONSTANTS
    X = X
    Y = Y
    Z = Z
    a = a
    b = b
    t1 = t1
    t2 = t2
    t3 = t3
    Workers = {t1, t2, t3}
    ResourceIds = {X, Y, Z}
    Paths = {a, b, Y}
    PathRank <- Rank
    Surfaces = {"document", "file"}
    SurfaceOf <- TwoSurfaces
    Mutations <- MutationIds
    Requests <- PathRequests
    MaxRevisions = 4
    NoResource = NoResource
    NoPath = NoPath
SYMMETRY Permuted
INVARIANTS PathIdentity LocksSuffice NoWaitCycle
PROPERTIES AtOnce
