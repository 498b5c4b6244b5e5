CONSTANTS
    AnyValue <- MCAny
    Leaves <- MCLeaves
    Counted <- MCCounted
    Counts <- MCCounts
    Thresholds <- MCThresholds
    FeatureSets <- MCFeatureSets
    MaxNodes = 4
SPECIFICATION Spec
INVARIANTS
    ProbeAgrees
    NeedSound
    OptimizeNeutral
CHECK_DEADLOCK FALSE
