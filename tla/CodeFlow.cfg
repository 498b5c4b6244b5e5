SPECIFICATION Spec
CONSTANTS
    NoVa = NoVa
    Bad = Bad
    MaxVa = 4
    Exec = {0, 1, 2, 3}
    Seeds = {0, 2}
    Programs <- AllImages
    JumpTables <- MCTables
    LocalNames <- SomeNames
    MaxDescent = 9
    MaxFunctions = 9
    MaxInsns = 9
INVARIANTS
    WaitsInverse
    EveryFunctionSettled
    FlowClosed
    CallsEntered
    DirectExitSuppressed
    BlocksTile
CHECK_DEADLOCK FALSE
