SPECIFICATION Spec
CONSTANTS
    Keys = {i1, i2}
    Limit = 1
    Window = 2
    MaxBuckets = 1
    Significant = 2
    MinTrained = 20
    BayesWeight = 60
    Sessions = {s1, s2}
    TTL = 1
    LookupTime = 1
    CacheLimit = 1
    TagScore = 5
    QuarantineScore = 10
    RejectScore = 20
    MaxTime = 3
INVARIANT RateBound
INVARIANT PruningInvisible
INVARIANT AnswersFresh
INVARIANT PolicyAsPublished
 
CHECK_DEADLOCK FALSE
SYMMETRY Symmetry
