\* Two workers; no symmetry: it is unsound for TestFinishes.
CONSTANTS
    t1 = t1
    t2 = t2
    Tids = {t1, t2}
    b1 = b1
    b2 = b2
    Blocks = {b1, b2}
    s1 = s1
    s2 = s2
    Stacks = {s1, s2}
    None = None
    MmapMayFail = TRUE
    NoThread = NoThread
    SpinLimit = 0
    Main = Main
    Stranger = Stranger
    Workers = 2
SPECIFICATION Spec
INVARIANT QuietAfterJoins
PROPERTY TestFinishes
