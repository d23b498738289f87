CONSTANTS
    NSubs = 2
    Commands = 2
    MaxId = 7
    Overflow = 2
SPECIFICATION FairSpec
INVARIANTS
    TypeOK
    NoOrphanedCommand
    SubscriptionsRouted
    NothingSentBeforeAuth
PROPERTIES
    RefreshEnds
CHECK_DEADLOCK FALSE
