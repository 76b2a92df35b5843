SPECIFICATION SpecViews
CONSTANTS
    Subject <- MCSubject
    SideOf <- MCSideOf
    LowOf <- MCLowOf
    HighOf <- MCHighOf
    ConfirmTimeOf <- MCConfirmTimeOf
    PhasesOf <- MCPhasesOf
    MaxChanges = 2
    LastTime = 4
INVARIANTS
    ReplayAccepted
CHECK_DEADLOCK FALSE
