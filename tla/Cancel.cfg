SPECIFICATION FairSpec
CONSTANTS
    MinReports = 2
    ControlWriteFails = TRUE
    MaxReports = 4
    MaxRestarts = 1
INVARIANTS
    NoReportLost
    ObeyedInFreshDirectory
PROPERTY
    CancelArrives
CHECK_DEADLOCK FALSE
