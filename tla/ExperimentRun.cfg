SPECIFICATION Spec
CONSTANTS
    Case <- MCCase
    SeedOf <- MCSeedOf
    Variant <- MCVariant
    Metric <- MCMetric
    Payload <- MCPayload
    None = None
    EventFloor = 1
    BoxFloor = 1
    LeastCollapsed = 2
    Nature <- MCNature
    AnswerOf <- MCAnswerOf
    CheckpointsOf <- MCCheckpointsOf
    Workers = 2
    MaxIncidents = 2
INVARIANTS
    ReadyIffNothingWrong
    NothingRefused
    BlameStaysWithSubject
    EvidenceAppendOnly
CHECK_DEADLOCK FALSE
