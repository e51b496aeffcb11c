CONSTANTS
    Routines = {r1, r2}
    Threads = {main, io1, io2}
    IoThreads = {io1, io2}
    Mains = {main}
    Futures = {f1}
    MaxAwaits = 2
    DetachWhen = "unraced"
SPECIFICATION FairSpec
INVARIANTS TypeOK SingleRunner CurrentConsistent ExactlyOneWaker NoUseAfterFree ReleasedInTime
PROPERTIES ImplementsAbstractRoutine EveryoneReleased
CHECK_DEADLOCK FALSE
