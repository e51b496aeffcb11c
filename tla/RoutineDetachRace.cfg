CONSTANTS
    Routines = {r1}
    Threads = {main, io1}
    IoThreads = {io1}
    Mains = {main}
    Futures = {f1}
    MaxAwaits = 1
    DetachWhen = "anytime"
SPECIFICATION Spec
INVARIANTS NoUseAfterFree
CHECK_DEADLOCK FALSE
