SPECIFICATION FairSpec
CONSTANTS
    NoVa = NoVa
    Bad = Bad
    MaxVa = 3
    Exec = {0, 1, 2}
    Seeds = {0, 1}
    Programs <- CallImages
    JumpTables = {}
    LocalNames <- NoNames
    MaxDescent = 2
    MaxFunctions = 2
    MaxInsns = 2
INVARIANTS
    NativeDepthBounded
PROPERTIES
    Returns
CHECK_DEADLOCK FALSE
