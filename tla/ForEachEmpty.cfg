CONSTANTS
    Kinds = {"random"}
    MaxPar = 2
    MaxSize = 2
    MinRandom = 0
    NoError = NoError
SPECIFICATION FairSpec
PROPERTIES ImplementsForEach
CHECK_DEADLOCK FALSE
