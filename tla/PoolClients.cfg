SPECIFICATION ClientsSpec
CONSTANTS
    None = None
    Keys <- MCKeys
    Capacity <- MCCapacity
    Costs <- MCCosts
    IterIds <- MCIterIds
    TimedClients <- MCTimedClients
INVARIANTS
    NeverOversubscribed
    NoLostWakeup
PROPERTY
    SleepersWake
CHECK_DEADLOCK FALSE
