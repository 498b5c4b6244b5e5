SPECIFICATION FairSpec
CONSTANTS
    N = 4
    Requested = 0
    Hardware = 3
    MinFunctionsPerWorker = 1
    Result <- MCResult
    MayThrow = {0, 2, 3}
    Empty = Empty
    NoError = NoError
INVARIANTS
    CompleteOrError
    NoDanglingWorker
PROPERTIES
    ImplementsLoop
    Terminates
CHECK_DEADLOCK FALSE
