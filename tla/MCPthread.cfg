\* Two threads alive at a time over two blocks and two stacks, used again and
\* again.  No symmetry: it is unsound for JoinReturns.
CONSTANTS
    t1 = t1
    t2 = t2
    Tids = {t1, t2}
    b1 = b1
    b2 = b2
    Blocks = {b1, b2}
    s1 = s1
    s2 = s2
    Stacks = {s1, s2}
    v1 = v1
    Values = {v1}
    None = None
    MmapMayFail = TRUE
SPECIFICATION Spec
INVARIANTS
    TypeOK
    JoinWaitsForRoutine
    NothingLeaks
    RunningThreadKeepsMemory
    WakeStillToCome
PROPERTY JoinReturns
