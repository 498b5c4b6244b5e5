SPECIFICATION FairSpec
CONSTANTS
    NoVa = NoVa
    Images <- MCImages
    PtrSize = 2
    MaxFunctions = 5
    MaxCalling = 2
    MaxFuncentries = 2
INVARIANTS
    ScanLeavesClaimed
    PassesSettle
PROPERTIES
    PassesEnd
CHECK_DEADLOCK FALSE
