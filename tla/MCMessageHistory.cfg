SPECIFICATION Spec
CONSTANTS
    MAX_MESSAGES <- MCMaxMessages
    MAX_SAFE_ID <- MCMaxSafeId
INVARIANTS
    TypeOK
    DurableCoversPublished
    RingHoldsRecent
    RestorableOrRetained
    ReplayIsPrefix
    JoinLeavesNoGap
PROPERTY ImplementsLog
