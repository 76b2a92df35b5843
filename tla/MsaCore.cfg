SPECIFICATION Spec
CONSTANTS
    SubjectCount = 4
    Context <- MCContext
    LowOf <- MCLow
    HighOf <- MCHigh
    SideOf <- MCSide
    ContextOf <- MCContextOf
    SourcesOf <- MCSources
    FamiliesOf <- MCFamilies
    Scoring <- MCScoring
    Inputs <- MCInputs
    Metrics <- MCMetrics
    OriginOf <- MCOriginOf
    DirectionOrigin <- MCDirectionOrigin
    ExtraTimes <- MCExtraTimes
    None = None
    AllowedClasses = {"SINGLE", "LOCAL_CLUSTER", "MULTI_CONTEXT_RESONANCE"}
    MinimumQuality = 24
    MinimumSelection = 40
    Margin = 1
    Improvement = 60
    LastFrame = 12
INVARIANTS
    CoreReplays
    FixedCutoffStable
    EvaluationsAreFinal
    ScoresSuitSelector
PROPERTY
    QuietTimesOpenNothing
CHECK_DEADLOCK FALSE
