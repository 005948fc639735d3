SPECIFICATION FairSpec
CONSTANTS
    None = None
    ReadyTimeout = 1
    Timeout = 2
    Settings <- MCSettings
INVARIANTS
    NothingLeftBehind
    OutcomeHonouredInPlainLogs
    PushedCancelStays
PROPERTY
    Returns
CHECK_DEADLOCK FALSE
