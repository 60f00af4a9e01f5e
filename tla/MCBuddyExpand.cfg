\* Callers that free newest first and outgrow the first pool.
CONSTANTS
    MaxOrder = 5
    PoolOrder = 3
    PoolBase = 16
    Space = 24
    Requests = {1, 16}
    MaxLive = 8
    AnyOrder = FALSE
    Null = Null
SPECIFICATION GrowingSpec
INVARIANT NoOverlap
