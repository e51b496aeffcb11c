CONSTANTS
    Senders = {s1, s2}
    Receivers = {r1}
    Controllers = {c1}
    MaxItems = 2
    QueueSize = 1
    NewSizes = {3}
SPECIFICATION Spec
INVARIANTS FalseMeansClosed
CHECK_DEADLOCK FALSE
