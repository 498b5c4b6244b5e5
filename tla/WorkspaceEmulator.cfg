SPECIFICATION Spec
CONSTANTS
    Bad = Bad
    Programs <- MCPrograms
    Entry = 0
    Target = 3
    Exec = {0, 1, 2, 3}
    MaxHit = 1
    MaxEmuSteps = 5
    MaxTodoQueue = 3
    MaxQueuedOverlay = 2
INVARIANTS
    PathIsolated
    Exhaustive
    GoodHasReturn
CHECK_DEADLOCK FALSE
