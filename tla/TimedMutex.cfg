CONSTANTS
    Callers = {a, b}
    NoCaller = NoCaller
    SpinLimit = 2
SPECIFICATION Spec
INVARIANTS UnlockHandsOver
CHECK_DEADLOCK FALSE
