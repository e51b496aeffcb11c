CONSTANTS
    Outcomes = {value1}
    Unset = Unset
    Calls = {"get", "wait_for", "is_ready"}
    MaxCalls = 2
    SpinLimit = 2
SPECIFICATION Spec
INVARIANTS SetValueCompletes
CHECK_DEADLOCK FALSE
