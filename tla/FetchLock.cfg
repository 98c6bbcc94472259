SPECIFICATION Spec
CONSTANTS
    Threads = {t1, t2}
    Keys = {k1, k2}
    NoThread = NoThread
INVARIANTS
    TypeOK
    MutualExclusion
    ReleaseIsSafe
PROPERTIES
    AcquireReturns
    ImplementsKeyedMutex
