SPECIFICATION Spec
CONSTANTS
    X = X
    Y = Y
    Z = Z
    a = a
    b = b
    t1 = t1
    t2 = t2
    t3 = t3
    Workers = {t1, t2}
    ResourceIds = {X, Y}
    Paths = {a, b, Y}
    PathRank <- Rank
    Surfaces = {"document", "file"}
    SurfaceOf <- AllDocuments
    Mutations <- MutationIds
    Requests <- HistoryRequests
    MaxRevisions = 5
    NoResource = NoResource
    NoPath = NoPath
INVARIANTS LinearHistory AnswersTrue
PROPERTIES EveryRequestEnds
