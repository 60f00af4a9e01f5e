\* The stack of a thread that has not exited is unmapped by its join.
CONSTANTS
    t1 = t1
    t2 = t2
    Tids = {t1, t2}
    b1 = b1
    b2 = b2
    Blocks = {b1, b2}
    s1 = s1
    s2 = s2
    Stacks = {s1, s2}
    v1 = v1
    v2 = v2
    Values = {v1, v2}
    None = None
    MmapMayFail = FALSE
SPECIFICATION SafeSpec
SYMMETRY Symmetry
INVARIANT StackOutlivesThread
