\* Both scripts, four steps with a probe every second one and three faults: every
\* triple of exceptions, signals, kills and OSErrors, at every step.
SPECIFICATION Spec
CONSTANTS
    None = None
    Torn = Torn
    Scripts <- BothScripts
    MaxSteps = 4
    ProbeEvery = 2
    Scores <- TwoScores
    MaxPolls = 2
    MaxFaults = 3
INVARIANTS
    OutcomeIsWhole
    ExitsLeaveOutcome
    OkIsEarned
CHECK_DEADLOCK FALSE
