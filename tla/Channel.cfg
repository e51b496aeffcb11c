CONSTANTS
    Senders = {s1, s2}
    Receivers = {r1, r2}
    Controllers = {c1}
    MaxItems = 2
    QueueSize = 1
    NewSizes = {2}
SPECIFICATION FairSpec
INVARIANTS TypeOK OneWakerEach WaitOnlyIfNeeded ExactlyOnce SenderOrder EndIsClean
PROPERTIES OperationsReturn
CHECK_DEADLOCK FALSE
