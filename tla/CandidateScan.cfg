SPECIFICATION Spec
CONSTANTS
    LeftBars = 1
    RightBars = 1
    AtrPeriod = 2
    Multiplier = 1
    BreakBuffer = 0
    EmitHigh = TRUE
    EmitLow = TRUE
    TouchTolerance = 0
    MinReactions = 2
    MinSeparation = 3
    ReactionHorizon = 2
    ReactionDistance = 1
    MaxPenetration = 0
    MaxBars = 8
    WideBars = 6
    LateBars = {4}
    NextBars <- MCNextBars
INVARIANTS
    TurnRestsOnItsLeg
    BreaksAreExact
    ReactionsMatchReading
CHECK_DEADLOCK FALSE
