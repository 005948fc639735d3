SPECIFICATION Spec
CONSTANTS
    None = None
    NoScore = NoScore
    Keys <- MCKeys
    Capacity <- MCCapacity
    Costs <- MCFreeCosts
    Scores <- MCScores
    Infinity <- MCInfinity
    Outcomes <- MCOutcomes
    MaxIterations = 3
    MaxConcurrency = 2
    NoImproveLimit = 2
    FailureWindow = 2
    FailuresToStop = 2
    GuardEnabled = TRUE
    HasWallLimit = TRUE
    Faults <- MCAllFaults
    MaxRestarts = 1
INVARIANTS
    EveryTrialAccountedFor
    RunningWithinCapacity
    LimitsRespected
    RewardsInOrder
CHECK_DEADLOCK FALSE
