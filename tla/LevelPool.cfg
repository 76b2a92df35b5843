SPECIFICATION Spec
CONSTANTS
    LevelCount = 4
    MaxConfirm = 3
    ToleranceMode = "NORMALIZED"
    AbsoluteTolerance = NoDecimal
    NormalizationUnit = 1
    NormalizedTolerance = 1
    NoDecimal = NoDecimal
    NoFamily = NoFamily
    NoTime = 99
    Pools <- MCPools
    Schedules <- MCSchedules
INVARIANTS
    ClustersAreLinked
    LedgerIsSnapshot
    ReplaysAgree
CHECK_DEADLOCK FALSE
