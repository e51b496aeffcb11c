CONSTANTS
    Callers = {c1, c2, c3, c4}
    NoCaller = NoCaller
    FairPolicy = TRUE
    WeakCas = TRUE
    SpinLimit = 8
SPECIFICATION FairSpec
INVARIANTS TypeOK MutualExclusion NoStrandedWaiter DestroySafe WakeupsMatch
PROPERTIES StarvationFreedom ImplementsAbstractMutex
