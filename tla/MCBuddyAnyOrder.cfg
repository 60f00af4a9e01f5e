\* Callers that free in any order.
CONSTANTS
    MaxOrder = 5
    PoolOrder = 3
    PoolBase = 0
    Space = 8
    Requests = {1, 2, 3}
    MaxLive = 8
    AnyOrder = TRUE
    Null = Null
SPECIFICATION Spec
INVARIANT NoOverlap
