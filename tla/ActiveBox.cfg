SPECIFICATION Batch
CONSTANTS
    ZoneKey <- MCZoneKey
    ZoneSets <- MCZoneSets
    None = None
    SideOf <- MCSideOf
    LowOf <- MCLowOf
    HighOf <- MCHighOf
    ClassOf <- MCClassOf
    DigestOf <- MCDigestOf
    QualitiesOf <- MCQualitiesOf
    Tolerance = 1
    Horizon = 6
    MinimumQuality = 1
    MinimumSelection = 2
    Improvement = 4
    Price = {5, 7}
    AllowedClasses = {"SINGLE", "LOCAL_CLUSTER"}
    MarginMode = "REFERENCE_FRACTION"
    Margin = 0
    Fraction = 2
    Unit = 5
    LastTime = 4
INVARIANTS
    NeverRaises
    BoxTracksNearest
PROPERTIES
    AcceptsOnlyTheBatch
    SameScoresKeepBox
    ImplementsBoxEpisodes
CHECK_DEADLOCK FALSE
