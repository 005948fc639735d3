SPECIFICATION FairSpec
CONSTANTS
    None = None
    NoScore = NoScore
    Keys <- MCKeys
    Capacity <- MCCapacity
    Costs <- MCSmallCosts
    Scores <- MCScores
    Infinity <- MCInfinity
    Outcomes <- MCFewOutcomes
    MaxIterations = 3
    MaxConcurrency = 2
    NoImproveLimit = 2
    FailureWindow = 2
    FailuresToStop = 2
    GuardEnabled = TRUE
    HasWallLimit = FALSE
    Faults = {}
    MaxRestarts = 1
INVARIANTS
    NoLeakedReservation
    StopsCleanly
PROPERTIES
    LedgerSpec
    Terminates
CHECK_DEADLOCK FALSE
