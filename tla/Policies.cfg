\* Four policies, four iterations and two restarts: a diff kept and asked for
\* anew, a full counter of failed diffs, a trimmed conversation, batches of two,
\* two snapshots.
SPECIFICATION FairSpec
CONSTANTS
    None = None
    Torn = Torn
    Kinds <- AllKinds
    Slots = 2
    ExploreIters = 1
    StallThreshold = 1
    FailureLimit = 2
    MaxPairs = 2
    MaxCorrections = 1
    Models = 2
    MaxRetries = 1
    UpdateEvery = 1
    SnapshotEvery = 2
    MaxVersion = 4
    MaxIters = 4
    MaxDraws = 6
    MaxRestarts = 2
INVARIANTS
    TypeOK
    ConversationFresh
    FailuresInARow
    RewardsCredited
PROPERTIES
    ProposalsCome
CHECK_DEADLOCK FALSE
