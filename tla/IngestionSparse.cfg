SPECIFICATION IngestionSpec
CONSTANTS
    ClockChange = 6
    Summer = 2
    Winter = 0
    NoOffset = 99
    SourceDuration = 2
    PublicationLag = 1
    LastStart = 9
    Delay = 5
    FaultyRows = 2
    MaxRows = 4
    Rows <- MCRows
    Configs <- MCConfigs
    Policies <- SparsePolicies
    Times = {7, 8, 10, 11, 13, 16}
CONSTRAINT FewFaults
INVARIANT ReplayIsBatchSoFar
CHECK_DEADLOCK FALSE
