SPECIFICATION FairSpec
CONSTANTS
    Diffs <- MCDiffs
    Torn = Torn
    Gone = Gone
    Settings <- MCSettings
    MaxRestarts = 2
INVARIANTS
    TypeOK
    SourceSurvives
    NoStaleMarker
    KeptAsMeasuredUnsignalled
PROPERTY
    ShutdownStops
CHECK_DEADLOCK FALSE
