CONSTANTS
    Kinds = {"random", "input"}
    MaxPar = 2
    MaxSize = 5
    MinRandom = 1
    NoError = NoError
SPECIFICATION FairSpec
INVARIANTS RefusedMeansError
PROPERTIES ImplementsForEach Returns
CHECK_DEADLOCK FALSE
