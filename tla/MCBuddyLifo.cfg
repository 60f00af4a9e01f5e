\* Callers that free newest first and fit in the first pool: 8 units.
CONSTANTS
    MaxOrder = 5
    PoolOrder = 3
    PoolBase = 0
    Space = 8
    Requests = {1, 2, 3, 5}
    MaxLive = 8
    AnyOrder = FALSE
    Null = Null
SPECIFICATION Spec
INVARIANTS
    ListsSound
    Tiled
    BuddyIsBlock
    FindsRoom
PROPERTY ImplementsHeap
