\* No symmetry: it is unsound for ImplementsFairLock.  Three threads, calls in any number and order, one spin before sleeping.
CONSTANTS
    t1 = t1
    t2 = t2
    t3 = t3
    Threads = {t1, t2, t3}
    NoThread = NoThread
    SpinLimit = 1
SPECIFICATION Spec
INVARIANTS
    TypeOK
    MutualExclusion
    OwnerIsHolder
    WordMatchesHolder
    NoSelfDeadlock
    NoLostWakeup
PROPERTIES
    ImplementsLock
    ImplementsFairLock
