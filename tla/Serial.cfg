SPECIFICATION Spec
CONSTANTS
    None = None
    NoScore = NoScore
    Scores <- MCScores
    Infinity <- MCInfinity
    Outcomes <- MCOutcomes
    MaxIterations = 3
    NoImproveLimit = 2
    FailureWindow = 2
    FailuresToStop = 2
    GuardEnabled = TRUE
    ForecastAfter = 2
    HasWallLimit = TRUE
    Faults <- MCAllFaults
    MaxRestarts = 1
INVARIANTS
    NoneSkipped
    BestIsAccountedFor
PROPERTIES
    LedgerSpec
CHECK_DEADLOCK FALSE
