SPECIFICATION Spec
CONSTANTS
    Subject <- MCSubject
    SideOf <- MCSideOf
    LowOf <- MCPrice
    HighOf <- MCPrice
    ConfirmTimeOf <- Staggered
    TestTolerance = 1
    BreakBuffer = 2
    WeakeningTestCount = 2
    MinTestSeparation = 2
    FlipTolerance = 1
    FlipConfirmationDistance = 1
    FlipHorizon = 2
    FailedBreakBuffer = 1
    MaxTime = 5
    Delays = {2}
    BarUniverse <- MCBars
    ProcessingTime = {6}
INVARIANTS
    NeverRaises
    ContractsAccept
    BreakIsFirstDecisiveClose
    ResolutionMatchesReference
    TestsMatchReference
CHECK_DEADLOCK FALSE
