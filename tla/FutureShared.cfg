CONSTANTS
    Outcomes = {value1, exception1}
    Unset = Unset
    Calls = {"get", "wait", "wait_for", "is_ready", "await", "await_data"}
    MaxCalls = 4
    SpinLimit = 5
SPECIFICATION FairSpec
INVARIANTS TypeOK CallEntersLiveTask RegisteredTaskAlive GetUncheckedIsReady
PROPERTIES ImplementsOneShot CallsReturn
CHECK_DEADLOCK FALSE
