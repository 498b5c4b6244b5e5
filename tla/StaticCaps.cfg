SPECIFICATION Spec
CONSTANTS
    AnyValue <- MCAny
    Corpora <- MCCorpora
    FeatureSets <- MCFeatureSets
    Here <- MCHere
    LimitationNs <- Lim
    DocSets <- MCDocSets
    Images <- MCImages
    Workers = 2
    WordBits = 16
    MaxSize = 99
    ComClasses <- MCComClasses
    HeaderGuard = 4
    AddressBits = 16
    ByteBits = 2
    CallDistance = 2
    PebX86 = 2
    PebX64 = 3
    CookieDelta = 2
    ThunkDepth = 3
    EndbranchLen = 1
    SliceBlocks = 4
    MaxBytes = 4
    ProbeBytes = 6
    MinString = 2
    MinStackString = 2
    MaxStructure = 8
INVARIANTS
    CycleIsReal
    SubscopesExtracted
    DepsSortedFirst
    IndexLosesNoMatch
    GateAgrees
    ReportExact
    LeavesLegal
    ExtractedIsAskable
    LoopIsCycle
    SliceReaches
CHECK_DEADLOCK FALSE
