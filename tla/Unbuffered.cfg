CONSTANTS
    MaxItems = 4
SPECIFICATION FairSpec
INVARIANTS TypeOK FutureProtocol Rendezvous
PROPERTIES OperationsReturn
CHECK_DEADLOCK FALSE
