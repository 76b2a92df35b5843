SPECIFICATION HistorySpec
CONSTANTS
    LeftBars = 1
    RightBars = 1
    AtrPeriod = 1
    Multiplier = 1
    BreakBuffer = 0
    EmitHigh = TRUE
    EmitLow = TRUE
    TouchTolerance = 0
    MinReactions = 2
    MinSeparation = 1
    ReactionHorizon = 1
    ReactionDistance = 1
    MaxPenetration = 1
    MaxBars = 5
    Prices = {0, 1, 2}
    ReplayTimes = {3, 6, 7}
    Sources <- MCSources
INVARIANTS
    AsOfIsBatchSoFar
PROPERTIES
    RefusedOnlyWhenSkipping
    DefaultReplayDelivers
CHECK_DEADLOCK FALSE
