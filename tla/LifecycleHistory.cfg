SPECIFICATION HistorySpec
CONSTANTS
    Subject <- MCSubject
    SideOf <- MCSideOf
    LowOf <- MCPrice
    HighOf <- MCPrice
    ConfirmTimeOf <- Staggered
    TestTolerance = 0
    BreakBuffer = 2
    WeakeningTestCount = 2
    MinTestSeparation = 1
    FlipTolerance = 0
    FlipConfirmationDistance = 1
    FlipHorizon = 2
    FailedBreakBuffer = 1
    MaxBars = 4
    Delays = {0, 2}
    LastTime = 7
    BarUniverse <- MCBars
    Sources <- MCSources
    ReplayTimes <- MCReplayTimes
INVARIANTS
    MergeKeepsSubjectOrder
    FutureDoesNotMatter
PROPERTIES
    ImplementsCausalLedger
    FirstSeenAtConfirm
CHECK_DEADLOCK FALSE
