SPECIFICATION Spec
CONSTANTS
    ByteBits = 1
    OverlayCap = 8
    StackFill = 1
    TaintByte = 0
    Maps <- MCMaps
    Machines <- MCMachines
    Insns <- MCInsns
INVARIANTS
    CompareDecides
    ProductsAndQuotients
    StackRoundTrip
CHECK_DEADLOCK FALSE
