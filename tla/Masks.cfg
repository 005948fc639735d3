\* Grids of eight events, of two (too short to split with a gap, and coverable
\* by two targets), and of two channels; two targets, a gap of one event, two
\* tries for a context and a batch of two sessions of one event or more.
SPECIFICATION Spec
CONSTANTS
    Grids <- EventGrids
    Samplers <- Both
    NTargets = 2
    TargetScale <- TraceScale
    TargetAspect <- DefaultAspect
    ContextScale <- DefaultContext
    MaxAttempts = 2
    ContextFraction <- DefaultFraction
    TimeScale <- TraceTime
    ChannelScale <- AllChannels
    Gap = 1
    Sessions = {s1, s2}
    MinEvents = 1
SYMMETRY Symmetric
CHECK_DEADLOCK FALSE
INVARIANTS
    MasksApart
    AttendsEvents
    KeptReadNoTarget
